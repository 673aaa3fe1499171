--------------------------- MODULE PayablesProofs ---------------------------
(***************************************************************************)
(* What is owed for an order, for any number of calls, accounts, payments  *)
(* and amounts.                                                            *)
(*                                                                         *)
(* An account that no payment was written of since its last recalculation  *)
(* has the status that its payments add up to, however the calls are       *)
(* interleaved.  When calls come one at a time, what a call has read is    *)
(* still so when it writes; then the approval is of the present terms,     *)
(* nothing paid is cancelled, and a cancelled order leaves nothing owed.   *)
(***************************************************************************)
EXTENDS Payables, SumTheorems

(* Every variable has its shape, and rows point to rows that there are.    *)
Types ==
    /\ TypeOK
    /\ call = [p \in Procs |-> call[p]]
    /\ workload \in Workloads

Rows == \A m \in Made : payments[m].account \in Opened /\ payments[m].amount # 0

(* What a call carries.                                                    *)
GoodCall(c) ==
    /\ c.op = "createAccount" => c.origin \in {"INVOICE", "MANUAL"} /\ c.terms \in Terms
    /\ c.op = "updateInvoice" => c.status \in InvoiceStatus /\ c.terms \in Terms
    /\ c.op = "updateAccount" =>
          /\ c.account \in Opened /\ c.read.status = "OPEN" /\ c.read.terms \in Terms
          /\ \A f \in DOMAIN c.sent : c.sent[f] \in Nat
    /\ c.op \in {"cancelAccount", "removeAccount", "restoreAccount", "revoke", "recalculate"}
          => c.account \in Opened
    /\ c.op = "approve" => c.accounts \subseteq Opened
    /\ c.op = "createPayment" =>
          c.row \in Payments /\ c.row.account \in Opened /\ c.row.amount # 0
    /\ c.op \in {"updatePayment", "removePayment", "restorePayment"} => c.payment \in Made
    /\ c.op = "updatePayment" => \A f \in DOMAIN c.sent :
          \/ f = "amount" /\ c.sent[f] \in Nat \ {0}
          \/ f = "status" /\ c.sent[f] \in PaymentStatus

(* What it has read or computed, and is about to write.                    *)
Computed(p) ==
    /\ pc[p] = "store" =>
          \E short \in IF call[p].basis.amounts \in Inexact THEN BOOLEAN ELSE {FALSE} :
              call[p].status = StatusFor(call[p].basis.sum, call[p].basis.total, short)
    /\ At(p, "write", "cancelOrder") => call[p].accounts \subseteq Opened

Calls == \A p \in Procs : GoodCall(call[p]) /\ Computed(p)

(* The status of an account is that of its payments, unless it is stale.   *)
Right(a, total, status) ==
    \E short \in Shortfalls(a) : status = StatusFor(PaidSum(a), total, short)

Tells ==
    \A a \in Opened \ stale : Cancelled(a) \/ Right(a, Total(a), accounts[a].status)

(* One call at a time: what it has read is still so.                       *)
OneCall == \A p, q \in Procs : pc[p] # "idle" /\ pc[q] # "idle" => p = q

Current(p) ==
    /\ At(p, "write", "updateAccount") => call[p].read.terms = accounts[call[p].account].terms
    /\ At(p, "write", "cancelAccount") => accounts[call[p].account].status = "OPEN"
    /\ pc[p] \in {"collect", "write"} /\ call[p].op = "cancelOrder" => Unpaid
    /\ At(p, "write", "cancelOrder") =>
          /\ call[p].accounts = {a \in OfInvoice : accounts[a].status = "OPEN"}
          /\ call[p].invoice <=> ~invoice.removed /\ invoice.status # "CANCELLED"

Approvals == \A a \in AccountIds : accounts[a].approved \in {Unapproved, accounts[a].terms}

Undisturbed == Alone => OneCall /\ Approvals /\ \A p \in Procs : Current(p)

IInv == Types /\ Rows /\ Calls /\ Tells /\ Undisturbed
-----------------------------------------------------------------------------
(* What a PATCH carries replaces what was there.                           *)
LEMMA TermsPatched ==
    ASSUME NEW old \in Terms, NEW sent, \A f \in DOMAIN sent : sent[f] \in Nat
    PROVE  Patched(old, sent) \in Terms
<1>1. DOMAIN old = {"amount", "due"} /\ old.amount \in Nat /\ old.due \in Nat
  BY DEF Terms
<1>2. /\ Patched(old, sent) = [f \in {"amount", "due"} |->
                                  IF f \in DOMAIN sent THEN sent[f] ELSE old[f]]
      /\ \A f \in {"amount", "due"} : (IF f \in DOMAIN sent THEN sent[f] ELSE old[f]) \in Nat
  BY <1>1 DEF Patched
<1> QED
  BY <1>2 DEF Terms

LEMMA PaymentPatched ==
    ASSUME NEW old \in Payments, NEW sent, old.amount # 0,
           \A f \in DOMAIN sent : \/ f = "amount" /\ sent[f] \in Nat \ {0}
                                  \/ f = "status" /\ sent[f] \in PaymentStatus
    PROVE  /\ Patched(old, sent) \in Payments
           /\ Patched(old, sent).account = old.account /\ Patched(old, sent).amount # 0
<1> DEFINE new == Patched(old, sent)
<1>1. DOMAIN old = {"account", "amount", "status", "removed"}
  BY DEF Payments
<1>2. new = [f \in {"account", "amount", "status", "removed"} |->
                IF f \in DOMAIN sent THEN sent[f] ELSE old[f]]
  BY <1>1 DEF Patched
<1>3. /\ new.account = old.account /\ new.removed = old.removed
      /\ new.amount \in Nat \ {0} /\ new.status \in PaymentStatus
  BY <1>2 DEF Payments
<1>4. new = [account |-> new.account, amount |-> new.amount, status |-> new.status,
             removed |-> new.removed]
  BY <1>2
<1>5. old.account \in AccountIds \cup {NoAccount} /\ old.removed \in BOOLEAN
  BY DEF Payments
<1> HIDE DEF new
<1>6. new \in Payments
  BY <1>3, <1>4, <1>5 DEF Payments
<1> QED
  BY <1>3, <1>6 DEF new

LEMMA TermsSent ==
    ASSUME workload \in Workloads, NEW sent \in Patches(FreshTerms)
    PROVE  \A f \in DOMAIN sent : sent[f] \in Nat
<1>1. PICK row \in FreshTerms : \E fields \in SUBSET DOMAIN row : sent = Restrict(row, fields)
  BY DEF Patches
<1>2. PICK fields \in SUBSET DOMAIN row : sent = Restrict(row, fields)
  BY <1>1
<1>3. row.amount \in Nat /\ row.due \in Nat /\ DOMAIN row = {"amount", "due"}
  BY WorkloadAssumption DEF FreshTerms
<1> QED
  BY <1>2, <1>3 DEF Restrict

LEMMA PaymentSent ==
    ASSUME workload \in Workloads,
           NEW sent \in Patches([amount: workload.amounts, status: workload.statuses])
    PROVE  \A f \in DOMAIN sent : \/ f = "amount" /\ sent[f] \in Nat \ {0}
                                  \/ f = "status" /\ sent[f] \in PaymentStatus
<1> DEFINE whole == [amount: workload.amounts, status: workload.statuses]
<1>1. PICK row \in whole : \E fields \in SUBSET DOMAIN row : sent = Restrict(row, fields)
  BY DEF Patches
<1>2. PICK fields \in SUBSET DOMAIN row : sent = Restrict(row, fields)
  BY <1>1
<1>3. /\ row.amount \in Nat \ {0} /\ row.status \in PaymentStatus
      /\ DOMAIN row = {"amount", "status"}
  BY WorkloadAssumption
<1> QED
  BY <1>2, <1>3 DEF Restrict

LEMMA FreshTermsTyped == ASSUME workload \in Workloads, NEW t \in FreshTerms PROVE t \in Terms
  BY WorkloadAssumption DEF FreshTerms, Terms

(* Positive payments add up to zero when there are none.                   *)
LEMMA PaidPositive ==
    ASSUME Types, Rows, NEW a
    PROVE  PaidSum(a) \in Nat /\ (PaidSum(a) = 0 <=> PaidOf(a) = {})
<1> DEFINE f == [m \in PaymentIds |-> payments[m].amount]
<1>1. PaidOf(a) \subseteq PaymentIds /\ IsFiniteSet(PaidOf(a))
  BY IdsAssumption, FS_Subset DEF PaidOf, Made
<1>2. \A m \in PaidOf(a) : f[m] \in Nat \ {0}
  BY <1>1 DEF Types, TypeOK, Payments, Rows, PaidOf
<1>3. \A m \in PaidOf(a) : f[m] \in Nat
  BY <1>2
<1> HIDE DEF f
<1>4. SumOver(f, PaidOf(a)) \in Nat /\ (SumOver(f, PaidOf(a)) = 0 <=> PaidOf(a) = {})
  BY <1>1, <1>2, <1>3, SumNat, SumZero
<1> QED
  BY <1>4 DEF PaidSum, f

(* An account that no payment leaves or enters keeps its sum.              *)
LEMMA PaidKept ==
    ASSUME Types, payments' \in [PaymentIds -> Payments], NEW a \in AccountIds,
           \A m \in PaymentIds : payments[m].account = a \/ payments'[m].account = a
                                    => payments'[m] = payments[m]
    PROVE  PaidSum(a)' = PaidSum(a) /\ AmountsPaid(a)' = AmountsPaid(a)
<1> DEFINE f == [m \in PaymentIds |-> payments[m].amount]
           g == [m \in PaymentIds |-> payments'[m].amount]
           S == PaidOf(a)
<1>1. PaidOf(a)' = S
  BY NoAccountAssumption DEF PaidOf, Made
<1>2. S \subseteq PaymentIds /\ IsFiniteSet(S)
  BY IdsAssumption, FS_Subset DEF PaidOf, Made
<1>3. \A m \in S : f[m] \in Int /\ g[m] = f[m]
  BY <1>2 DEF Types, TypeOK, Payments, PaidOf
<1> HIDE DEF f, g, S
<1>4. SumOver(g, S) = SumOver(f, S)
  BY <1>2, <1>3, SumSame
<1>5. PaidSum(a)' = SumOver(g, S)
  BY <1>1 DEF PaidSum, g
<1>6. AmountsPaid(a)' = AmountsPaid(a)
  <2>1. \A m \in S : payments'[m].amount = payments[m].amount
    BY <1>2, <1>3 DEF f, g
  <2> QED
    BY <1>1, <2>1 DEF AmountsPaid, S
<1> QED
  BY <1>4, <1>5, <1>6 DEF PaidSum, f, S
-----------------------------------------------------------------------------
(* Only the call p moves.                                                  *)
Moves(p) ==
    /\ \A q \in Procs \ {p} : pc'[q] = pc[q] /\ call'[q] = call[q]
    /\ call' = [q \in Procs |-> call'[q]]
    /\ pc' \in [Procs -> {"idle", "write", "read", "sum", "store", "collect"}]
    /\ workload' = workload

Grows == Opened \subseteq Opened' /\ Made \subseteq Made'

LEMMA GoesTo ==
    ASSUME Types, UNCHANGED workload, NEW p \in Procs, NEW c,
           NEW step \in {"idle", "write", "read", "sum", "store", "collect"}, Goto(p, c, step)
    PROVE  Moves(p) /\ call'[p] = c /\ pc'[p] = step
  BY DEF Types, TypeOK, Goto, Moves

(* The calls stay good when only p moves, to a good one.                   *)
LEMMA CallsKept ==
    ASSUME Calls, NEW p \in Procs, Moves(p), Grows, GoodCall(call[p])', Computed(p)'
    PROVE  Calls'
<1>1. ASSUME NEW q \in Procs, q # p PROVE GoodCall(call[q])' /\ Computed(q)'
  <2>1. GoodCall(call[q]) /\ Computed(q) /\ call'[q] = call[q] /\ pc'[q] = pc[q]
    BY <1>1 DEF Calls, Moves
  <2>2. GoodCall(call[q])'
    BY <2>1 DEF GoodCall, Grows
  <2>3. Computed(q)'
    BY <2>1 DEF Computed, Grows, At
  <2> QED
    BY <2>2, <2>3
<1> QED
  BY <1>1 DEF Calls

(* One call at a time: the others are idle, and need nothing.              *)
LEMMA UndisturbedKept ==
    ASSUME Types, NEW p \in Procs, Moves(p),
           Alone => \A q \in Procs \ {p} : pc[q] = "idle",
           Alone => Approvals' /\ Current(p)'
    PROVE  Undisturbed'
<1> SUFFICES ASSUME Alone PROVE OneCall' /\ Approvals' /\ \A q \in Procs : Current(q)'
  BY DEF Undisturbed, Alone, Moves
<1>1. \A q \in Procs \ {p} : pc'[q] = "idle"
  BY DEF Moves
<1>2. OneCall'
  BY <1>1 DEF OneCall
<1>3. \A q \in Procs \ {p} : Current(q)'
  BY <1>1 DEF Current, At
<1> QED
  BY <1>2, <1>3

LEMMA OthersIdle ==
    ASSUME Undisturbed, NEW p \in Procs, pc[p] # "idle"
    PROVE  Alone => \A q \in Procs \ {p} : pc[q] = "idle"
  BY DEF Undisturbed, OneCall

LEMMA FirstAlone ==
    ASSUME Types, NEW p \in Procs, NEW c, NEW step, Begin(p, c, step)
    PROVE  Alone => \A q \in Procs : pc[q] = "idle"
<1> DEFINE busy == {q \in Procs : pc[q] # "idle"}
<1>1. IsFiniteSet(busy)
  BY ProcsAssumption, FS_Subset
<1>2. SUFFICES ASSUME Alone PROVE busy = {}
  OBVIOUS
<1>3. Cardinality(busy) < 1
  BY <1>2 DEF Begin, Alone
<1> HIDE DEF busy
<1>4. Cardinality(busy) \in Nat
  BY <1>1, FS_CardinalityType
<1> QED
  BY <1>1, <1>3, <1>4, FS_EmptySet

(* While no payment changes, an account tells its payments as long as its  *)
(* status and amount stay, or it is cancelled, or opened with none.        *)
LEMMA TellsKept ==
    ASSUME IInv, UNCHANGED payments,
           \A a \in Opened' \ stale' :
               \/ a \in Opened \ stale /\ accounts'[a].status = accounts[a].status
                    /\ accounts'[a].terms = accounts[a].terms
               \/ accounts'[a].status = "CANCELLED"
               \/ Right(a, accounts'[a].terms.amount, accounts'[a].status)
    PROVE  Tells'
<1>1. \A a : PaidSum(a)' = PaidSum(a) /\ Shortfalls(a)' = Shortfalls(a)
  BY DEF PaidSum, Shortfalls, AmountsPaid, PaidOf, Made
<1>2. ASSUME NEW a \in Opened' \ stale'
      PROVE  Cancelled(a)' \/ Right(a, Total(a), accounts[a].status)'
  <2>1. CASE /\ a \in Opened \ stale /\ accounts'[a].status = accounts[a].status
             /\ accounts'[a].terms = accounts[a].terms
    BY <1>1, <2>1 DEF IInv, Tells, Cancelled, Right, Total
  <2>2. CASE accounts'[a].status = "CANCELLED"
    BY <2>2 DEF Cancelled
  <2>3. CASE Right(a, accounts'[a].terms.amount, accounts'[a].status)
    BY <1>1, <2>3 DEF Right, Total
  <2> QED
    BY <1>2, <2>1, <2>2, <2>3
<1> QED
  BY <1>2 DEF Tells

(* A call that begins has read and checked, and written nothing.           *)
LEMMA BeginInv ==
    ASSUME IInv, UNCHANGED workload, NEW p \in Procs, NEW c, NEW step \in {"write", "collect"},
           Begin(p, c, step), GoodCall(c),
           c.op = "cancelOrder" => step = "collect" /\ Unpaid,
           c.op = "updateAccount" => c.read.terms = accounts[c.account].terms,
           c.op = "cancelAccount" => accounts[c.account].status = "OPEN"
    PROVE  IInv'
<1>1. /\ UNCHANGED <<order, invoice, accounts, payments, stale>>
      /\ Moves(p) /\ call'[p] = c /\ pc'[p] = step
  <2>1. Goto(p, c, step)
    BY DEF Begin, Goto
  <2> QED
    BY <2>1, GoesTo DEF Begin, Ledger, IInv
<1>2. Grows /\ Rows' /\ Types'
  BY <1>1 DEF Grows, Opened, Made, Rows, Types, TypeOK, Moves, IInv
<1>3. Calls'
  <2>1. GoodCall(call[p])'
    BY <1>1, <1>2 DEF GoodCall, Grows
  <2>2. Computed(p)'
    BY <1>1 DEF Computed, At
  <2> QED
    BY <1>1, <1>2, <2>1, <2>2, CallsKept DEF IInv
<1>4. Tells'
  BY <1>1, TellsKept DEF Opened
<1>5. Undisturbed'
  <2>1. Alone => \A q \in Procs \ {p} : pc[q] = "idle"
    BY FirstAlone DEF IInv
  <2>2. Alone => Approvals'
    BY <1>1 DEF IInv, Undisturbed, Approvals
  <2>3. Unpaid' = Unpaid
    BY <1>1 DEF Unpaid, OfInvoice, Existing, Opened, Made
  <2>4. Current(p)'
    BY <1>1, <2>3 DEF Current, At
  <2> QED
    BY <1>1, <2>1, <2>2, <2>4, UndisturbedKept DEF IInv
<1> QED
  BY <1>2, <1>3, <1>4, <1>5 DEF IInv

(* A call that ends leaves good rows behind.                               *)
LEMMA FinishInv ==
    ASSUME IInv, UNCHANGED workload, NEW p \in Procs, pc[p] # "idle", Finish(p),
           order' \in OrderStatus, invoice' \in [status: InvoiceStatus, removed: BOOLEAN],
           accounts' \in [AccountIds -> Accounts], payments' \in [PaymentIds -> Payments],
           stale' \subseteq Opened', Grows, Rows', Tells', Alone => Approvals'
    PROVE  IInv'
<1>1. Moves(p) /\ call'[p] = NoCall /\ pc'[p] = "idle"
  BY GoesTo DEF Finish, IInv
<1>2. Types'
  BY <1>1 DEF Types, TypeOK, Moves, IInv
<1>3. Calls'
  <2>1. GoodCall(call[p])' /\ Computed(p)'
    BY <1>1 DEF GoodCall, Computed, At, NoCall
  <2> QED
    BY <1>1, <2>1, CallsKept DEF IInv
<1>4. Undisturbed'
  <2>1. Current(p)'
    BY <1>1 DEF Current, At
  <2> QED
    BY <1>1, <2>1, OthersIdle, UndisturbedKept DEF IInv
<1> QED
  BY <1>2, <1>3, <1>4 DEF IInv
-----------------------------------------------------------------------------
Begins(p) ==
    \/ BeginCreateAccount(p) \/ BeginUpdateInvoice(p) \/ BeginRemoveInvoice(p)
    \/ BeginRestoreInvoice(p) \/ BeginUpdateAccount(p) \/ BeginCancelAccount(p)
    \/ BeginRemoveAccount(p) \/ BeginRestoreAccount(p) \/ BeginApprove(p) \/ BeginRevoke(p)
    \/ BeginCreatePayment(p) \/ BeginUpdatePayment(p) \/ BeginRemovePayment(p)
    \/ BeginRestorePayment(p) \/ BeginCancelOrder(p)

(* Every call carries what it should.                                      *)
LEMMA BeginSteps ==
    ASSUME IInv, UNCHANGED workload, NEW p \in Procs, Begins(p)
    PROVE  IInv'
<1> USE DEF IInv
<1>0. workload \in Workloads /\ Existing \subseteq Opened /\ Opened \subseteq AccountIds
  BY DEF Types, Existing, Opened
<1>1. CASE BeginCreateAccount(p)
  <2>1. PICK origin \in {"INVOICE", "MANUAL"}, terms \in FreshTerms :
            Begin(p, [op |-> "createAccount", origin |-> origin, terms |-> terms], "write")
    BY <1>1 DEF BeginCreateAccount
  <2>2. GoodCall([op |-> "createAccount", origin |-> origin, terms |-> terms])
    BY <1>0, FreshTermsTyped DEF GoodCall
  <2> QED
    BY <2>1, <2>2, BeginInv
<1>2. CASE BeginUpdateInvoice(p)
  <2>1. PICK s \in {"VALIDATED", "CANCELLED"}, terms \in FreshTerms :
            Begin(p, [op |-> "updateInvoice", status |-> s, terms |-> terms], "write")
    BY <1>2 DEF BeginUpdateInvoice
  <2>2. GoodCall([op |-> "updateInvoice", status |-> s, terms |-> terms])
    BY <1>0, FreshTermsTyped DEF GoodCall, InvoiceStatus
  <2> QED
    BY <2>1, <2>2, BeginInv
<1>3. CASE BeginRemoveInvoice(p) \/ BeginRestoreInvoice(p)
  <2>1. PICK op \in {"removeInvoice", "restoreInvoice"} : Begin(p, [op |-> op], "write")
    BY <1>3 DEF BeginRemoveInvoice, BeginRestoreInvoice
  <2>2. GoodCall([op |-> op])
    BY DEF GoodCall
  <2> QED
    BY <2>1, <2>2, BeginInv
<1>4. CASE BeginUpdateAccount(p)
  <2>1. PICK a \in Existing, sent \in Patches(FreshTerms) :
            /\ accounts[a].status = "OPEN"
            /\ Begin(p, [op |-> "updateAccount", account |-> a, read |-> accounts[a],
                         sent |-> sent], "write")
    BY <1>4 DEF BeginUpdateAccount
  <2>2. accounts[a].terms \in Terms
    BY <1>0 DEF Types, TypeOK, Accounts
  <2>3. \A f \in DOMAIN sent : sent[f] \in Nat
    BY <1>0, TermsSent
  <2>4. GoodCall([op |-> "updateAccount", account |-> a, read |-> accounts[a], sent |-> sent])
    BY <1>0, <2>1, <2>2, <2>3 DEF GoodCall
  <2> QED
    BY <2>1, <2>4, BeginInv
<1>5. CASE BeginCancelAccount(p)
  <2>1. PICK a \in Existing : /\ accounts[a].status = "OPEN"
                              /\ Begin(p, OnAccount("cancelAccount", a), "write")
    BY <1>5 DEF BeginCancelAccount
  <2>2. GoodCall(OnAccount("cancelAccount", a))
    BY <1>0 DEF GoodCall, OnAccount
  <2> QED
    BY <2>1, <2>2, BeginInv DEF OnAccount
<1>6. CASE BeginRemoveAccount(p) \/ BeginRestoreAccount(p) \/ BeginRevoke(p)
  <2>1. PICK a \in Opened, op \in {"removeAccount", "restoreAccount", "revoke"} :
            Begin(p, OnAccount(op, a), "write")
    BY <1>0, <1>6 DEF BeginRemoveAccount, BeginRestoreAccount, BeginRevoke
  <2>2. GoodCall(OnAccount(op, a))
    BY DEF GoodCall, OnAccount
  <2> QED
    BY <2>1, <2>2, BeginInv DEF OnAccount
<1>7. CASE BeginApprove(p)
  <2>1. PICK ids \in SUBSET Existing :
            Begin(p, [op |-> "approve",
                      accounts |-> {a \in ids : accounts[a].approved = Unapproved}], "write")
    BY <1>7 DEF BeginApprove
  <2>2. GoodCall([op |-> "approve", accounts |-> {a \in ids : accounts[a].approved = Unapproved}])
    BY <1>0 DEF GoodCall
  <2> QED
    BY <2>1, <2>2, BeginInv
<1>8. CASE BeginCreatePayment(p)
  <2>1. PICK a \in Existing, amount \in workload.amounts, s \in workload.statuses :
            Begin(p, [op |-> "createPayment", row |-> NewPayment(a, amount, s)], "write")
    BY <1>8 DEF BeginCreatePayment
  <2>2. amount \in Nat \ {0} /\ s \in PaymentStatus
    BY <1>0, WorkloadAssumption
  <2>3. /\ NewPayment(a, amount, s) \in Payments
        /\ NewPayment(a, amount, s).account \in Opened /\ NewPayment(a, amount, s).amount # 0
    BY <1>0, <2>2 DEF NewPayment, Payments
  <2>4. GoodCall([op |-> "createPayment", row |-> NewPayment(a, amount, s)])
    BY <2>3 DEF GoodCall
  <2> QED
    BY <2>1, <2>4, BeginInv
<1>9. CASE BeginUpdatePayment(p)
  <2>1. PICK m \in Kept, sent \in Patches([amount: workload.amounts, status: workload.statuses]) :
            Begin(p, [op |-> "updatePayment", payment |-> m, sent |-> sent], "write")
    BY <1>9 DEF BeginUpdatePayment
  <2>2. GoodCall([op |-> "updatePayment", payment |-> m, sent |-> sent])
    BY <1>0, PaymentSent DEF GoodCall, Kept
  <2> QED
    BY <2>1, <2>2, BeginInv
<1>10. CASE BeginRemovePayment(p) \/ BeginRestorePayment(p)
  <2>1. PICK m \in Made, op \in {"removePayment", "restorePayment"} :
            Begin(p, [op |-> op, payment |-> m], "write")
    BY <1>10 DEF BeginRemovePayment, BeginRestorePayment, Kept
  <2>2. GoodCall([op |-> op, payment |-> m])
    BY DEF GoodCall
  <2> QED
    BY <2>1, <2>2, BeginInv
<1>11. CASE BeginCancelOrder(p)
  <2>1. Unpaid /\ Begin(p, [op |-> "cancelOrder"], "collect")
    BY <1>11 DEF BeginCancelOrder
  <2>2. GoodCall([op |-> "cancelOrder"])
    BY DEF GoodCall
  <2> QED
    BY <2>1, <2>2, BeginInv
<1> QED
  BY <1>1, <1>2, <1>3, <1>4, <1>5, <1>6, <1>7, <1>8, <1>9, <1>10, <1>11 DEF Begins
-----------------------------------------------------------------------------
(* A call that ends and changes accounts only.                             *)
LEMMA AccountsInv ==
    ASSUME IInv, UNCHANGED <<workload, payments>>, NEW p \in Procs, pc[p] # "idle", Finish(p),
           order' \in OrderStatus, invoice' \in [status: InvoiceStatus, removed: BOOLEAN],
           accounts' \in [AccountIds -> Accounts], stale' \subseteq Opened',
           \A a \in AccountIds : accounts[a].origin # "none" => accounts'[a].origin # "none",
           Tells', Alone => Approvals'
    PROVE  IInv'
<1>1. Grows
  BY DEF Grows, Opened, Made
<1>2. Rows' /\ payments' \in [PaymentIds -> Payments]
  BY <1>1 DEF IInv, Types, TypeOK, Rows, Grows, Made
<1> QED
  BY <1>1, <1>2, FinishInv

(* Nothing paid is open, and only that is.                                 *)
LEMMA ZeroIsOpen ==
    ASSUME NEW a, NEW total
    PROVE  /\ PaidSum(a) = 0 => Right(a, total, "OPEN")
           /\ Right(a, total, "OPEN") => PaidSum(a) = 0
  BY DEF Right, StatusFor, Shortfalls

(* An account that is opened has no payment yet.                           *)
LEMMA FreshAccount ==
    ASSUME IInv, NEW a \in FreshAccounts, NEW origin \in {"INVOICE", "MANUAL"}, NEW terms \in Terms,
           UNCHANGED <<payments, stale>>, accounts' = [accounts EXCEPT ![a] = NewAccount(origin, terms)]
    PROVE  /\ accounts' \in [AccountIds -> Accounts] /\ stale' \subseteq Opened'
           /\ \A b \in AccountIds : accounts[b].origin # "none" => accounts'[b].origin # "none"
           /\ Tells' /\ (Alone => Approvals')
<1>1. a \in AccountIds \ Opened
  BY DEF FreshAccounts
<1>2. NewAccount(origin, terms) \in Accounts
  BY DEF NewAccount, Accounts, AccountStatus, Terms, Unapproved
<1>3. accounts' \in [AccountIds -> Accounts]
  BY <1>2 DEF IInv, Types, TypeOK
<1>4. /\ accounts'[a] = NewAccount(origin, terms)
      /\ \A b \in AccountIds \ {a} : accounts'[b] = accounts[b]
  BY <1>1 DEF IInv, Types, TypeOK
<1>5. Opened' = Opened \cup {a} /\ stale' \subseteq Opened'
  BY <1>1, <1>4 DEF Opened, NewAccount, IInv, Types, TypeOK
<1>6. PaidSum(a) = 0
  <2>1. PaidOf(a) = {}
    BY <1>1 DEF IInv, Rows, PaidOf
  <2> QED
    BY <2>1, PaidPositive DEF IInv
<1>7. Right(a, accounts'[a].terms.amount, accounts'[a].status)
  BY <1>4, <1>6, ZeroIsOpen DEF NewAccount
<1>8. Opened \subseteq AccountIds
  BY DEF Opened
<1>9. Tells'
  BY <1>4, <1>5, <1>7, <1>8, TellsKept
<1>10. Alone => Approvals'
  BY <1>4 DEF IInv, Undisturbed, Approvals, NewAccount
<1> QED
  BY <1>3, <1>4, <1>5, <1>9, <1>10 DEF NewAccount

LEMMA OpeningInv ==
    ASSUME IInv, UNCHANGED workload, NEW p \in Procs,
           CommitCreateAccount(p) \/ CommitUpdateInvoice(p)
    PROVE  IInv'
<1>1. GoodCall(call[p])
  BY DEF IInv, Calls
<1>2. CASE CommitCreateAccount(p)
  <2>1. PICK a \in FreshAccounts :
            accounts' = [accounts EXCEPT ![a] = NewAccount(call[p].origin, call[p].terms)]
    BY <1>2 DEF CommitCreateAccount
  <2>2. /\ call[p].origin \in {"INVOICE", "MANUAL"} /\ call[p].terms \in Terms
        /\ pc[p] # "idle" /\ Finish(p) /\ UNCHANGED <<order, invoice, payments, stale>>
    BY <1>1, <1>2 DEF CommitCreateAccount, GoodCall, At
  <2>3. order' \in OrderStatus /\ invoice' \in [status: InvoiceStatus, removed: BOOLEAN]
    BY <2>2 DEF IInv, Types, TypeOK
  <2> QED
    BY <2>1, <2>2, <2>3, FreshAccount, AccountsInv
<1>3. CASE CommitUpdateInvoice(p)
  <2>1. /\ call[p].status \in InvoiceStatus /\ call[p].terms \in Terms
        /\ pc[p] # "idle" /\ Finish(p) /\ UNCHANGED <<order, payments, stale>>
        /\ invoice' = [invoice EXCEPT !.status = call[p].status]
    BY <1>1, <1>3 DEF CommitUpdateInvoice, GoodCall, At
  <2>2. order' \in OrderStatus /\ invoice' \in [status: InvoiceStatus, removed: BOOLEAN]
    BY <2>1 DEF IInv, Types, TypeOK
  <2>3. CASE \E a \in FreshAccounts :
                 accounts' = [accounts EXCEPT ![a] = NewAccount("INVOICE", call[p].terms)]
    BY <2>1, <2>2, <2>3, FreshAccount, AccountsInv
  <2>4. CASE UNCHANGED accounts
    <3>1. accounts' \in [AccountIds -> Accounts] /\ stale' \subseteq Opened'
      BY <2>1, <2>4 DEF IInv, Types, TypeOK, Opened
    <3>2. Tells'
      BY <2>1, <2>4, TellsKept DEF Opened
    <3>3. Alone => Approvals'
      BY <2>4 DEF IInv, Undisturbed, Approvals
    <3> QED
      BY <2>1, <2>2, <2>4, <3>1, <3>2, <3>3, AccountsInv
  <2> QED
    BY <1>3, <2>3, <2>4 DEF CommitUpdateInvoice
<1> QED
  BY <1>2, <1>3

(* What writes neither an account nor a payment.                           *)
LEMMA InvoiceInv ==
    ASSUME IInv, UNCHANGED workload, NEW p \in Procs,
           CommitRemoveInvoice(p) \/ CommitRestoreInvoice(p) \/ Abort(p)
    PROVE  IInv'
<1>1. /\ pc[p] # "idle" /\ Finish(p) /\ UNCHANGED <<order, accounts, payments, stale>>
      /\ invoice' \in [status: InvoiceStatus, removed: BOOLEAN]
  BY DEF CommitRemoveInvoice, CommitRestoreInvoice, Abort, At, Ledger, IInv, Types, TypeOK
<1>2. /\ order' \in OrderStatus
      /\ accounts' \in [AccountIds -> Accounts] /\ stale' \subseteq Opened'
  BY <1>1 DEF IInv, Types, TypeOK, Opened
<1>3. Tells'
  BY <1>1, TellsKept DEF Opened
<1>4. Alone => Approvals'
  BY <1>1 DEF IInv, Undisturbed, Approvals
<1> QED
  BY <1>1, <1>2, <1>3, <1>4, AccountsInv
-----------------------------------------------------------------------------
(* An edit of an open account: only its terms and its approval change, and *)
(* whoever was overtaken by a recalculation leaves it stale.               *)
LEMMA UpdateAccountInv ==
    ASSUME IInv, UNCHANGED workload, NEW p \in Procs, CommitUpdateAccount(p)
    PROVE  IInv'
<1> DEFINE c == call[p]
           a == c.account
           new == Patched(accounts[a].terms, c.sent)
           mark == IF ApprovalLapses(c.read.terms, Patched(c.read.terms, c.sent))
                   THEN Unapproved ELSE accounts[a].approved
<1>1. /\ a \in Opened /\ c.read.status = "OPEN" /\ c.read.terms \in Terms
      /\ \A f \in DOMAIN c.sent : c.sent[f] \in Nat
      /\ At(p, "write", "updateAccount")
  BY DEF CommitUpdateAccount, At, IInv, Calls, GoodCall
<1>2. /\ pc[p] # "idle" /\ Finish(p) /\ UNCHANGED <<order, invoice, payments>>
      /\ accounts' = [accounts EXCEPT ![a].terms = new, ![a].approved = mark]
      /\ stale' = IF accounts[a].status = c.read.status THEN stale ELSE stale \cup {a}
  BY DEF CommitUpdateAccount, At
<1>3. a \in AccountIds /\ accounts \in [AccountIds -> Accounts] /\ accounts[a] \in Accounts
  BY <1>1 DEF IInv, Types, TypeOK, Opened
<1>4. accounts[a].terms \in Terms /\ accounts[a].approved \in Terms
  BY <1>3 DEF Accounts
<1>5. new \in Terms /\ mark \in Terms
  BY <1>1, <1>4, TermsPatched DEF Unapproved, Terms
<1> HIDE DEF new, mark, a, c
<1>6. /\ accounts'[a] = [accounts[a] EXCEPT !.terms = new, !.approved = mark]
      /\ \A b \in AccountIds \ {a} : accounts'[b] = accounts[b]
      /\ accounts' = [b \in AccountIds |-> accounts'[b]]
  BY <1>2, <1>3
<1>7. accounts'[a] \in Accounts
  BY <1>3, <1>5, <1>6 DEF Accounts
<1>8. accounts' \in [AccountIds -> Accounts]
  BY <1>3, <1>6, <1>7
<1>9. /\ accounts'[a].status = accounts[a].status /\ accounts'[a].origin = accounts[a].origin
      /\ accounts'[a].terms = new /\ accounts'[a].approved = mark
  BY <1>3, <1>6 DEF Accounts
<1>10. Opened' = Opened /\ stale' \subseteq Opened'
  BY <1>1, <1>2, <1>3, <1>6, <1>8, <1>9 DEF Opened, IInv, Types, TypeOK
<1>11. Tells'
  <2>1. ASSUME NEW b \in Opened' \ stale', b # a
        PROVE  b \in Opened \ stale /\ accounts'[b] = accounts[b]
    BY <1>2, <1>6, <1>10, <2>1 DEF Opened
  <2>2. ASSUME a \notin stale'
        PROVE  \/ accounts'[a].status = "CANCELLED"
               \/ Right(a, accounts'[a].terms.amount, accounts'[a].status)
    <3>1. a \notin stale /\ accounts[a].status = "OPEN"
      BY <1>1, <1>2, <2>2 DEF c
    <3>2. Right(a, Total(a), accounts[a].status)
      BY <1>1, <3>1 DEF IInv, Tells, Cancelled
    <3>3. PaidSum(a) = 0
      BY <3>1, <3>2, ZeroIsOpen
    <3> QED
      BY <1>9, <3>1, <3>3, ZeroIsOpen
  <2> QED
    BY <1>2, <2>1, <2>2, TellsKept
<1>12. Alone => Approvals'
  <2> SUFFICES ASSUME Alone PROVE Approvals'
    OBVIOUS
  <2>1. c.read.terms = accounts[a].terms /\ accounts[a].approved \in {Unapproved, accounts[a].terms}
    BY <1>1, <1>3 DEF IInv, Undisturbed, Current, Approvals, c, a
  <2>2. CASE mark = Unapproved
    BY <1>6, <1>9, <2>2 DEF IInv, Undisturbed, Approvals
  <2>3. CASE mark # Unapproved
    <3>1. mark = accounts[a].terms /\ ~ApprovalLapses(accounts[a].terms, new)
      BY <2>1, <2>3 DEF mark, new
    <3>2. new = accounts[a].terms
      BY <1>4, <1>5, <3>1 DEF ApprovalLapses, Terms
    <3> QED
      BY <1>6, <1>9, <3>1, <3>2 DEF IInv, Undisturbed, Approvals
  <2> QED
    BY <2>2, <2>3
<1>13. order' \in OrderStatus /\ invoice' \in [status: InvoiceStatus, removed: BOOLEAN]
  BY <1>2 DEF IInv, Types, TypeOK
<1> QED
  BY <1>2, <1>6, <1>8, <1>9, <1>10, <1>11, <1>12, <1>13, AccountsInv

(* A cancellation, the trash and a revoked approval change one field.      *)
LEMMA AccountFieldInv ==
    ASSUME IInv, UNCHANGED workload, NEW p \in Procs,
           CommitCancelAccount(p) \/ CommitTrashAccount(p) \/ CommitRevoke(p)
    PROVE  IInv'
<1> DEFINE a == call[p].account
<1>1. /\ pc[p] # "idle" /\ Finish(p) /\ UNCHANGED <<order, invoice, payments, stale>>
      /\ \/ accounts' = [accounts EXCEPT ![a].status = "CANCELLED"]
         \/ \E b \in BOOLEAN : accounts' = [accounts EXCEPT ![a].removed = b]
         \/ accounts' = [accounts EXCEPT ![a].approved = Unapproved]
  BY DEF CommitCancelAccount, CommitTrashAccount, CommitRevoke, At
<1>2. a \in Opened
  BY DEF CommitCancelAccount, CommitTrashAccount, CommitRevoke, At, IInv, Calls, GoodCall
<1>3. a \in AccountIds /\ accounts \in [AccountIds -> Accounts] /\ accounts[a] \in Accounts
  BY <1>2 DEF IInv, Types, TypeOK, Opened
<1> HIDE DEF a
<1>4. /\ accounts'[a] \in Accounts /\ accounts'[a].origin = accounts[a].origin
      /\ accounts'[a].terms = accounts[a].terms
      /\ accounts'[a].approved \in {Unapproved, accounts[a].approved}
      /\ accounts'[a].status \in {"CANCELLED", accounts[a].status}
      /\ \A b \in AccountIds \ {a} : accounts'[b] = accounts[b]
      /\ accounts' = [b \in AccountIds |-> accounts'[b]]
  <2>1. CASE accounts' = [accounts EXCEPT ![a].status = "CANCELLED"]
    BY <1>3, <2>1 DEF Accounts, AccountStatus
  <2>2. CASE \E b \in BOOLEAN : accounts' = [accounts EXCEPT ![a].removed = b]
    <3>1. PICK b \in BOOLEAN : accounts' = [accounts EXCEPT ![a].removed = b]
      BY <2>2
    <3>2. /\ accounts'[a] = [accounts[a] EXCEPT !.removed = b]
          /\ \A d \in AccountIds \ {a} : accounts'[d] = accounts[d]
          /\ accounts' = [d \in AccountIds |-> accounts'[d]]
      BY <1>3, <3>1
    <3>3. accounts'[a] \in Accounts
      BY <1>3, <3>2 DEF Accounts
    <3> QED
      BY <1>3, <3>2, <3>3 DEF Accounts
  <2>3. CASE accounts' = [accounts EXCEPT ![a].approved = Unapproved]
    BY <1>3, <2>3 DEF Accounts, Unapproved, Terms
  <2> QED
    BY <1>1, <2>1, <2>2, <2>3
<1>5. accounts' \in [AccountIds -> Accounts]
  BY <1>3, <1>4
<1>6. Opened' = Opened /\ stale' \subseteq Opened'
  BY <1>1, <1>4 DEF Opened, IInv, Types, TypeOK
<1>7. Tells'
  <2>1. ASSUME NEW b \in Opened' \ stale'
        PROVE  \/ b \in Opened \ stale /\ accounts'[b].status = accounts[b].status
                    /\ accounts'[b].terms = accounts[b].terms
               \/ accounts'[b].status = "CANCELLED"
    BY <1>1, <1>4, <1>6 DEF Opened
  <2> QED
    BY <1>1, <2>1, TellsKept
<1>8. Alone => Approvals'
  BY <1>4 DEF IInv, Undisturbed, Approvals
<1>9. order' \in OrderStatus /\ invoice' \in [status: InvoiceStatus, removed: BOOLEAN]
  BY <1>1 DEF IInv, Types, TypeOK
<1> QED
  BY <1>1, <1>4, <1>5, <1>6, <1>7, <1>8, <1>9, AccountsInv

(* An approval, and the cancellation of the order, change a set of them.   *)
LEMMA AccountSetInv ==
    ASSUME IInv, UNCHANGED workload, NEW p \in Procs,
           CommitApprove(p) \/ CommitCancelOrder(p)
    PROVE  IInv'
<1> DEFINE S == call[p].accounts
<1>1. /\ pc[p] # "idle" /\ Finish(p) /\ UNCHANGED <<payments, stale>>
      /\ \/ \A a \in AccountIds : accounts'[a] =
                IF a \in S THEN [accounts[a] EXCEPT !.approved = accounts[a].terms] ELSE accounts[a]
         \/ \A a \in AccountIds : accounts'[a] =
                IF a \in S THEN [accounts[a] EXCEPT !.status = "CANCELLED"] ELSE accounts[a]
      /\ accounts' = [a \in AccountIds |-> accounts'[a]]
  BY DEF CommitApprove, CommitCancelOrder, At
<1>2. S \subseteq Opened
  BY DEF CommitApprove, CommitCancelOrder, At, IInv, Calls, GoodCall, Computed
<1> HIDE DEF S
<1>3. ASSUME NEW a \in AccountIds
      PROVE  /\ accounts'[a] \in Accounts /\ accounts'[a].origin = accounts[a].origin
             /\ accounts'[a].terms = accounts[a].terms
             /\ accounts'[a].approved \in {accounts[a].terms, accounts[a].approved}
             /\ accounts'[a].status \in {"CANCELLED", accounts[a].status}
  <2>1. accounts[a] \in Accounts
    BY DEF IInv, Types, TypeOK
  <2>2. CASE a \notin S
    BY <1>1, <2>1, <2>2
  <2>3. CASE a \in S /\ accounts'[a] = [accounts[a] EXCEPT !.approved = accounts[a].terms]
    BY <2>1, <2>3 DEF Accounts
  <2>4. CASE a \in S /\ accounts'[a] = [accounts[a] EXCEPT !.status = "CANCELLED"]
    BY <2>1, <2>4 DEF Accounts, AccountStatus
  <2> QED
    BY <1>1, <2>2, <2>3, <2>4
<1>4. accounts' \in [AccountIds -> Accounts]
  BY <1>1, <1>3
<1>5. Opened' = Opened /\ stale' \subseteq Opened'
  BY <1>1, <1>3 DEF Opened, IInv, Types, TypeOK
<1>6. Tells'
  <2>1. ASSUME NEW b \in Opened' \ stale'
        PROVE  \/ b \in Opened \ stale /\ accounts'[b].status = accounts[b].status
                    /\ accounts'[b].terms = accounts[b].terms
               \/ accounts'[b].status = "CANCELLED"
    BY <1>1, <1>3, <1>5 DEF Opened
  <2> QED
    BY <1>1, <2>1, TellsKept
<1>7. Alone => Approvals'
  <2>1. SUFFICES ASSUME Alone, NEW a \in AccountIds
                 PROVE  accounts'[a].approved \in {Unapproved, accounts'[a].terms}
    BY DEF Approvals, Alone
  <2>2. accounts[a].approved \in {Unapproved, accounts[a].terms}
    BY <2>1 DEF IInv, Undisturbed, Approvals
  <2> QED
    BY <1>3, <2>2
<1>8. order' \in OrderStatus /\ invoice' \in [status: InvoiceStatus, removed: BOOLEAN]
  BY DEF CommitApprove, CommitCancelOrder, IInv, Types, TypeOK, OrderStatus, InvoiceStatus
<1> QED
  BY <1>1, <1>3, <1>4, <1>5, <1>6, <1>7, <1>8, AccountsInv
-----------------------------------------------------------------------------
(* A payment that is written keeps its account, which becomes stale; the   *)
(* sums of the others stay.                                                *)
LEMMA PaymentWritten ==
    ASSUME IInv, NEW m \in PaymentIds, NEW row \in Payments, row.account \in Opened,
           row.amount # 0, payments[m].account \in {NoAccount, row.account},
           payments' = [payments EXCEPT ![m] = row], stale' = stale \cup {row.account},
           UNCHANGED accounts
    PROVE  /\ payments' \in [PaymentIds -> Payments] /\ stale' \subseteq Opened'
           /\ Grows /\ Rows' /\ Tells' /\ (Alone => Approvals)
<1>1. payments \in [PaymentIds -> Payments] /\ Opened' = Opened /\ Opened \subseteq AccountIds
  BY DEF IInv, Types, TypeOK, Opened
<1>2. /\ payments' \in [PaymentIds -> Payments] /\ payments'[m] = row
      /\ \A n \in PaymentIds \ {m} : payments'[n] = payments[n]
  BY <1>1
<1>3. Made' = Made \cup {m}
  BY <1>1, <1>2, NoAccountAssumption DEF Made
<1>4. Rows'
  BY <1>1, <1>2, <1>3 DEF IInv, Rows, Made
<1>5. Tells'
  <2>1. ASSUME NEW a \in Opened' \ stale'
        PROVE  PaidSum(a)' = PaidSum(a) /\ AmountsPaid(a)' = AmountsPaid(a)
    <3>1. a \in AccountIds /\ a # row.account /\ a # NoAccount
      BY <1>1, <2>1, NoAccountAssumption
    <3>2. \A n \in PaymentIds : payments[n].account = a \/ payments'[n].account = a
                                    => payments'[n] = payments[n]
      BY <1>2, <3>1
    <3> QED
      BY <1>2, <3>1, <3>2, PaidKept DEF IInv
  <2> QED
    BY <1>1, <2>1 DEF IInv, Tells, Cancelled, Right, Shortfalls, Total
<1> QED
  BY <1>1, <1>2, <1>3, <1>4, <1>5 DEF Grows, IInv, Types, TypeOK, Undisturbed

LEMMA WriteInv ==
    ASSUME IInv, UNCHANGED workload, NEW p \in Procs, pc[p] # "idle",
           NEW m \in PaymentIds, NEW row \in Payments, row.account \in Opened,
           row.amount # 0, payments[m].account \in {NoAccount, row.account},
           WritePayment(p, m, row)
    PROVE  IInv'
<1> DEFINE c == [op |-> "recalculate", account |-> row.account]
<1>1. /\ payments' = [payments EXCEPT ![m] = row] /\ stale' = stale \cup {row.account}
      /\ UNCHANGED <<order, invoice, accounts>>
      /\ Moves(p) /\ call'[p] = c /\ pc'[p] = "read"
  BY GoesTo DEF WritePayment, IInv
<1>2. /\ payments' \in [PaymentIds -> Payments] /\ stale' \subseteq Opened'
      /\ Grows /\ Rows' /\ Tells' /\ (Alone => Approvals)
  BY <1>1, PaymentWritten
<1>3. Types'
  BY <1>1, <1>2 DEF IInv, Types, TypeOK, Moves
<1>4. Calls'
  <2>1. GoodCall(call[p])' /\ Computed(p)'
    BY <1>1, <1>2 DEF GoodCall, Computed, At, Grows
  <2> QED
    BY <1>1, <1>2, <2>1, CallsKept DEF IInv
<1>5. Undisturbed'
  <2>1. Current(p)' /\ (Alone => Approvals')
    BY <1>1, <1>2 DEF Current, At, Approvals
  <2> QED
    BY <1>1, <2>1, OthersIdle, UndisturbedKept DEF IInv
<1> QED
  BY <1>2, <1>3, <1>4, <1>5 DEF IInv

LEMMA PaymentsInv ==
    ASSUME IInv, UNCHANGED workload, NEW p \in Procs,
           CommitCreatePayment(p) \/ CommitUpdatePayment(p) \/ CommitRemovePayment(p)
    PROVE  IInv'
<1>1. payments \in [PaymentIds -> Payments] /\ Made \subseteq PaymentIds
  BY DEF IInv, Types, TypeOK, Made
<1>2. GoodCall(call[p])
  BY DEF IInv, Calls
<1>3. CASE CommitCreatePayment(p)
  <2>1. PICK m \in PaymentIds \ Made : WritePayment(p, m, call[p].row)
    BY <1>3 DEF CommitCreatePayment
  <2>2. /\ call[p].row \in Payments /\ call[p].row.account \in Opened /\ call[p].row.amount # 0
        /\ pc[p] # "idle"
    BY <1>2, <1>3 DEF CommitCreatePayment, At, GoodCall
  <2>3. payments[m].account = NoAccount
    BY <1>1, <2>1 DEF Made
  <2> QED
    BY <2>1, <2>2, <2>3, WriteInv
<1>4. CASE CommitUpdatePayment(p)
  <2> DEFINE m == call[p].payment
             row == Patched(payments[m], call[p].sent)
  <2>1. /\ m \in Made /\ pc[p] # "idle" /\ WritePayment(p, m, row)
        /\ \A f \in DOMAIN call[p].sent :
              \/ f = "amount" /\ call[p].sent[f] \in Nat \ {0}
              \/ f = "status" /\ call[p].sent[f] \in PaymentStatus
    BY <1>2, <1>4 DEF CommitUpdatePayment, At, GoodCall
  <2>2. payments[m] \in Payments /\ payments[m].account \in Opened /\ payments[m].amount # 0
    BY <1>1, <2>1 DEF IInv, Rows
  <2>3. row \in Payments /\ row.account = payments[m].account /\ row.amount # 0
    BY <2>1, <2>2, PaymentPatched
  <2> HIDE DEF row, m
  <2> QED
    BY <1>1, <2>1, <2>2, <2>3, WriteInv
<1>5. CASE CommitRemovePayment(p)
  <2> DEFINE m == call[p].payment
             row == [payments[m] EXCEPT !.removed = TRUE]
  <2>1. m \in Made /\ pc[p] # "idle" /\ WritePayment(p, m, row)
    BY <1>2, <1>5 DEF CommitRemovePayment, At, GoodCall
  <2>2. payments[m] \in Payments /\ payments[m].account \in Opened /\ payments[m].amount # 0
    BY <1>1, <2>1 DEF IInv, Rows
  <2>3. row \in Payments /\ row.account = payments[m].account /\ row.amount # 0
    BY <2>2 DEF Payments
  <2> HIDE DEF row, m
  <2> QED
    BY <1>1, <2>1, <2>2, <2>3, WriteInv
<1> QED
  BY <1>3, <1>4, <1>5

LEMMA RestorePaymentInv ==
    ASSUME IInv, UNCHANGED workload, NEW p \in Procs, CommitRestorePayment(p)
    PROVE  IInv'
<1> DEFINE m == call[p].payment
           row == [payments[m] EXCEPT !.removed = FALSE]
<1>1. /\ m \in Made /\ pc[p] # "idle" /\ Finish(p)
      /\ UNCHANGED <<order, invoice, accounts>>
  BY DEF CommitRestorePayment, At, IInv, Calls, GoodCall
<1>2. payments \in [PaymentIds -> Payments] /\ m \in PaymentIds
  BY <1>1 DEF IInv, Types, TypeOK, Made
<1>3. payments[m] \in Payments /\ payments[m].account \in Opened /\ payments[m].amount # 0
  BY <1>1, <1>2 DEF IInv, Rows
<1>4. row \in Payments /\ row.account = payments[m].account /\ row.amount # 0
  BY <1>3 DEF Payments
<1>5. payments' = [payments EXCEPT ![m] = row] /\ stale' = stale \cup {row.account}
  BY <1>4 DEF CommitRestorePayment
<1> HIDE DEF row, m
<1>6. /\ payments' \in [PaymentIds -> Payments] /\ stale' \subseteq Opened'
      /\ Grows /\ Rows' /\ Tells' /\ (Alone => Approvals)
  BY <1>1, <1>2, <1>3, <1>4, <1>5, PaymentWritten
<1>7. /\ order' \in OrderStatus /\ invoice' \in [status: InvoiceStatus, removed: BOOLEAN]
      /\ accounts' \in [AccountIds -> Accounts] /\ (Alone => Approvals')
  BY <1>1, <1>6 DEF IInv, Types, TypeOK, Approvals
<1> QED
  BY <1>1, <1>6, <1>7, FinishInv
-----------------------------------------------------------------------------
LEMMA StatusForTyped ==
    ASSUME NEW sum, NEW total, NEW short
    PROVE  StatusFor(sum, total, short) \in AccountStatus \ {"CANCELLED"}
  BY DEF StatusFor, AccountStatus

(* A recalculation that moves on writes nothing.                           *)
LEMMA RecalculateGoes ==
    ASSUME IInv, UNCHANGED <<order, invoice, accounts, payments, stale, workload>>,
           NEW p \in Procs, pc[p] # "idle", NEW c, NEW step \in {"sum", "store"},
           Goto(p, c, step), c.op = "recalculate", c.account \in Opened, Computed(p)'
    PROVE  IInv'
<1>1. Moves(p) /\ call'[p] = c /\ pc'[p] = step
  BY GoesTo DEF IInv
<1>2. Opened' = Opened /\ Made' = Made
  BY DEF Opened, Made
<1>3. Types'
  BY <1>1, <1>2 DEF IInv, Types, TypeOK, Moves
<1>4. Tells'
  BY <1>2, TellsKept
<1>5. (Alone => Approvals') /\ Rows' /\ Grows
  BY <1>2 DEF IInv, Undisturbed, Approvals, Rows, Grows
<1>6. GoodCall(call[p])' /\ Current(p)'
  BY <1>1, <1>2 DEF GoodCall, Current, At
<1> QED
  BY <1>1, <1>3, <1>4, <1>5, <1>6, CallsKept, OthersIdle, UndisturbedKept DEF IInv

LEMMA RecalculateReadInv ==
    ASSUME IInv, UNCHANGED workload, NEW p \in Procs, RecalculateRead(p)
    PROVE  IInv'
<1> DEFINE a == call[p].account
           c == [op |-> "recalculate", account |-> a, was |-> accounts[a].status,
                 total |-> accounts[a].terms.amount]
<1>1. /\ a \in Opened /\ pc[p] # "idle" /\ pc[p] # "store"
      /\ UNCHANGED <<order, invoice, accounts, payments, stale>>
      /\ Finish(p) \/ Goto(p, c, "sum")
  BY DEF RecalculateRead, At, IInv, Calls, GoodCall, Ledger
<1>2. CASE Finish(p)
  <2>1. Abort(p)
    BY <1>1, <1>2 DEF Abort, Ledger
  <2> QED
    BY <2>1, InvoiceInv
<1>3. CASE Goto(p, c, "sum")
  <2>1. Computed(p)'
    BY <1>3, GoesTo DEF Computed, At, IInv
  <2>2. c.op = "recalculate" /\ c.account \in Opened
    BY <1>1
  <2> HIDE DEF c
  <2> QED
    BY <1>1, <1>3, <2>1, <2>2, RecalculateGoes
<1> QED
  BY <1>1, <1>2, <1>3

(* A recalculation that finds what it expects settles the account, if the  *)
(* row is what it was; else it keeps what it has computed, with what it    *)
(* was computed from.                                                      *)
LEMMA RecalculateSumInv ==
    ASSUME IInv, UNCHANGED workload, NEW p \in Procs, RecalculateSum(p)
    PROVE  IInv'
<1> DEFINE a == call[p].account
           was == call[p].was
           total == call[p].total
<1>1. /\ a \in Opened /\ pc[p] # "idle" /\ UNCHANGED <<order, invoice, accounts, payments>>
  BY DEF RecalculateSum, At, IInv, Calls, GoodCall, Ledger
<1>2. PICK short \in Shortfalls(a) :
        \/ /\ StatusFor(PaidSum(a), total, short) = was /\ Finish(p)
           /\ stale' = IF accounts[a].status = was /\ Total(a) = total THEN stale \ {a} ELSE stale
        \/ /\ UNCHANGED stale
           /\ Goto(p, [op |-> "recalculate", account |-> a,
                       status |-> StatusFor(PaidSum(a), total, short),
                       basis |-> Basis(a, total)], "store")
  BY DEF RecalculateSum
<1> DEFINE status == StatusFor(PaidSum(a), total, short)
           c == [op |-> "recalculate", account |-> a, status |-> status, basis |-> Basis(a, total)]
<1>3. CASE /\ status = was /\ Finish(p)
           /\ stale' = IF accounts[a].status = was /\ Total(a) = total THEN stale \ {a} ELSE stale
  <2>1. Opened' = Opened /\ Made' = Made /\ stale' \subseteq stale
    BY <1>1, <1>3 DEF Opened, Made
  <2>2. /\ order' \in OrderStatus /\ invoice' \in [status: InvoiceStatus, removed: BOOLEAN]
        /\ accounts' \in [AccountIds -> Accounts] /\ stale' \subseteq Opened'
    BY <1>1, <2>1 DEF IInv, Types, TypeOK
  <2>3. Tells'
    <3>1. ASSUME NEW b \in Opened' \ stale'
          PROVE  \/ b \in Opened \ stale
                 \/ Right(b, accounts'[b].terms.amount, accounts'[b].status)
      <4>1. CASE b \in stale
        <5>1. b = a /\ accounts[a].status = status /\ Total(a) = total
          BY <1>3, <3>1, <4>1
        <5> QED
          BY <1>1, <1>2, <5>1 DEF Right, Total
      <4> QED
        BY <2>1, <3>1, <4>1
    <3> QED
      BY <1>1, <3>1, TellsKept
  <2>4. Alone => Approvals'
    BY <1>1 DEF IInv, Undisturbed, Approvals
  <2> QED
    BY <1>1, <1>3, <2>2, <2>3, <2>4, AccountsInv
<1>4. CASE UNCHANGED stale /\ Goto(p, c, "store")
  <2>1. call'[p] = c /\ pc'[p] = "store"
    BY <1>4, GoesTo DEF IInv
  <2>2. /\ c.status = status /\ c.basis.sum = PaidSum(a) /\ c.basis.total = total
        /\ c.basis.amounts = AmountsPaid(a) /\ c.op = "recalculate" /\ c.account = a
    BY DEF Basis
  <2> HIDE DEF c
  <2>3. Computed(p)'
    BY <1>2, <2>1, <2>2 DEF Computed, At, Shortfalls
  <2> QED
    BY <1>1, <1>4, <2>2, <2>3, RecalculateGoes
<1> QED
  BY <1>2, <1>3, <1>4

(* What it then writes is right when the payments and the amount are those *)
(* that it read.                                                           *)
LEMMA RecalculateStoreInv ==
    ASSUME IInv, UNCHANGED workload, NEW p \in Procs, RecalculateStore(p)
    PROVE  IInv'
<1> DEFINE a == call[p].account
           status == call[p].status
           basis == call[p].basis
<1>1. /\ a \in Opened /\ pc[p] # "idle" /\ Finish(p) /\ UNCHANGED <<order, invoice, payments>>
      /\ accounts' = [accounts EXCEPT ![a].status = status]
      /\ stale' = IF Basis(a, Total(a)) = basis THEN stale \ {a} ELSE stale \cup {a}
      /\ \E short \in IF basis.amounts \in Inexact THEN BOOLEAN ELSE {FALSE} :
            status = StatusFor(basis.sum, basis.total, short)
  BY DEF RecalculateStore, At, IInv, Calls, GoodCall, Computed
<1>2. status \in AccountStatus
  BY <1>1, StatusForTyped
<1>3. a \in AccountIds /\ accounts \in [AccountIds -> Accounts] /\ accounts[a] \in Accounts
  BY <1>1 DEF IInv, Types, TypeOK, Opened
<1>4. LET b == Basis(a, Total(a)) IN
        b.sum = PaidSum(a) /\ b.total = accounts[a].terms.amount /\ b.amounts = AmountsPaid(a)
  BY DEF Basis, Total
<1>5. a \notin stale' => Right(a, accounts[a].terms.amount, status)
  <2> SUFFICES ASSUME a \notin stale' PROVE Right(a, accounts[a].terms.amount, status)
    OBVIOUS
  <2>1. basis = Basis(a, Total(a))
    BY <1>1
  <2> HIDE DEF a, status, basis
  <2> QED
    BY <1>1, <1>4, <2>1 DEF Right, Shortfalls
<1> HIDE DEF a, status, basis
<1>6. /\ accounts'[a] = [accounts[a] EXCEPT !.status = status]
      /\ \A b \in AccountIds \ {a} : accounts'[b] = accounts[b]
      /\ accounts' = [b \in AccountIds |-> accounts'[b]]
  BY <1>1, <1>3
<1>7. /\ accounts'[a] \in Accounts /\ accounts'[a].status = status
      /\ accounts'[a].origin = accounts[a].origin /\ accounts'[a].terms = accounts[a].terms
      /\ accounts'[a].approved = accounts[a].approved
  BY <1>2, <1>3, <1>6 DEF Accounts
<1>8. accounts' \in [AccountIds -> Accounts]
  BY <1>3, <1>6, <1>7
<1>9. Opened' = Opened /\ stale' \subseteq Opened'
  BY <1>1, <1>6, <1>7 DEF Opened, IInv, Types, TypeOK
<1>10. Tells'
  <2>1. ASSUME NEW b \in Opened' \ stale'
        PROVE  \/ b \in Opened \ stale /\ accounts'[b].status = accounts[b].status
                    /\ accounts'[b].terms = accounts[b].terms
               \/ Right(b, accounts'[b].terms.amount, accounts'[b].status)
    <3>1. CASE b = a
      BY <1>5, <1>7, <2>1, <3>1
    <3>2. CASE b # a
      BY <1>1, <1>6, <1>9, <2>1, <3>2 DEF Opened
    <3> QED
      BY <3>1, <3>2
  <2> QED
    BY <1>1, <2>1, TellsKept
<1>11. Alone => Approvals'
  BY <1>6, <1>7 DEF IInv, Undisturbed, Approvals
<1>12. order' \in OrderStatus /\ invoice' \in [status: InvoiceStatus, removed: BOOLEAN]
  BY <1>1 DEF IInv, Types, TypeOK
<1> QED
  BY <1>1, <1>6, <1>7, <1>8, <1>9, <1>10, <1>11, <1>12, AccountsInv

(* The second transaction of the cancellation knows what it will cancel.   *)
LEMMA CollectInv ==
    ASSUME IInv, UNCHANGED workload, NEW p \in Procs, CollectCancelOrder(p)
    PROVE  IInv'
<1> DEFINE S == {a \in OfInvoice : accounts[a].status = "OPEN"}
           flag == ~invoice.removed /\ invoice.status # "CANCELLED"
           c == [op |-> "cancelOrder", accounts |-> S, invoice |-> flag]
<1>1. /\ At(p, "collect", "cancelOrder") /\ pc[p] # "idle"
      /\ UNCHANGED <<order, invoice, accounts, payments, stale>>
      /\ Moves(p) /\ call'[p] = c /\ pc'[p] = "write"
  BY GoesTo DEF CollectCancelOrder, At, Ledger, IInv
<1>2. /\ Opened' = Opened /\ Made' = Made /\ OfInvoice' = OfInvoice /\ Unpaid' = Unpaid
      /\ S \subseteq Opened
  BY <1>1 DEF Opened, Made, OfInvoice, Existing, Unpaid
<1>3. Types' /\ Rows' /\ Grows
  BY <1>1, <1>2 DEF IInv, Types, TypeOK, Moves, Rows, Grows
<1>4. Tells'
  BY <1>1, <1>2, TellsKept
<1>5. GoodCall(call[p])' /\ Computed(p)'
  BY <1>1, <1>2 DEF GoodCall, Computed, At
<1>6. Alone => Approvals' /\ Current(p)'
  <2> SUFFICES ASSUME Alone PROVE Approvals' /\ Current(p)'
    OBVIOUS
  <2>1. Unpaid /\ Approvals
    BY <1>1 DEF IInv, Undisturbed, Current, At
  <2>2. Approvals'
    BY <1>1, <2>1 DEF Approvals
  <2>3. call'[p].accounts = {a \in OfInvoice' : accounts'[a].status = "OPEN"}
    BY <1>1, <1>2
  <2>4. call'[p].invoice <=> ~invoice'.removed /\ invoice'.status # "CANCELLED"
    <3>1. flag = (~invoice'.removed /\ invoice'.status # "CANCELLED")
      BY <1>1
    <3> HIDE DEF flag, S
    <3>2. call'[p].invoice = flag
      BY <1>1
    <3> QED
      BY <3>1, <3>2
  <2>5. Current(p)'
    BY <1>1, <1>2, <2>1, <2>3, <2>4 DEF Current, At
  <2> QED
    BY <2>2, <2>5
<1> QED
  BY <1>1, <1>3, <1>4, <1>5, <1>6, CallsKept, OthersIdle, UndisturbedKept DEF IInv
-----------------------------------------------------------------------------
LEMMA InitInv == Init => IInv
<1> SUFFICES ASSUME Init PROVE IInv
  OBVIOUS
<1>1. Opened = {} /\ Made = {}
  BY DEF Init, Opened, Made, AbsentAccount, NewAccount, AbsentPayment, NewPayment
<1>2. AbsentAccount \in Accounts /\ AbsentPayment \in Payments
  BY DEF AbsentAccount, NewAccount, Accounts, AccountStatus, Terms, Unapproved,
         AbsentPayment, NewPayment, Payments, PaymentStatus
<1>3. Types
  BY <1>2 DEF Init, Types, TypeOK, OrderStatus, InvoiceStatus
<1>4. Rows /\ Calls /\ Tells
  BY <1>1 DEF Init, Rows, Calls, Tells, GoodCall, Computed, At, NoCall
<1>5. Undisturbed
  BY DEF Init, Undisturbed, OneCall, Approvals, Current, At, AbsentAccount, NewAccount
<1> QED
  BY <1>3, <1>4, <1>5 DEF IInv

LEMMA NextInv == IInv /\ [Next]_vars => IInv'
<1> SUFFICES ASSUME IInv, [Next]_vars PROVE IInv'
  OBVIOUS
<1>1. CASE UNCHANGED vars
  <2>1. Tells'
    BY <1>1, TellsKept DEF vars, Opened
  <2>2. Types' /\ Rows'
    BY <1>1 DEF vars, IInv, Types, TypeOK, Rows, Opened, Made
  <2>3. Calls'
    <3>1. UNCHANGED <<pc, call>> /\ Opened' = Opened /\ Made' = Made
      BY <1>1 DEF vars, Opened, Made
    <3>2. ASSUME NEW p \in Procs PROVE GoodCall(call[p])' /\ Computed(p)'
      <4>1. GoodCall(call[p]) /\ Computed(p)
        BY DEF IInv, Calls
      <4>2. GoodCall(call[p])'
        BY <3>1, <4>1 DEF GoodCall
      <4>3. Computed(p)'
        BY <3>1, <4>1 DEF Computed, At
      <4> QED
        BY <4>2, <4>3
    <3> QED
      BY <3>2 DEF Calls
  <2>4. Undisturbed'
    BY <1>1 DEF vars, IInv, Undisturbed, Alone, OneCall, Approvals, Current, At, Unpaid,
                OfInvoice, Existing, Opened, Made
  <2> QED
    BY <2>1, <2>2, <2>3, <2>4 DEF IInv
<1>2. ASSUME UNCHANGED workload, NEW p \in Procs, Step(p) PROVE IInv'
  BY <1>2, BeginSteps, OpeningInv, InvoiceInv, UpdateAccountInv, AccountFieldInv, AccountSetInv,
     PaymentsInv, RestorePaymentInv, RecalculateReadInv, RecalculateSumInv, RecalculateStoreInv, CollectInv
     DEF Step, Begins
<1> QED
  BY <1>1, <1>2 DEF Next

LEMMA SpecInv == Spec => []IInv
  BY InitInv, NextInv, PTL DEF Spec

(* The rows of the finance module keep the shape of the schema, for any    *)
(* number of requests, rows and amounts.                                   *)
THEOREM TypeCorrect == Spec => []TypeOK
<1>1. IInv => TypeOK
  BY DEF IInv, Types
<1> QED
  BY <1>1, SpecInv, PTL

(* Whoever reads an account whose last recalculation was not left out,     *)
(* lost or overtaken finds what its payments add up to: open without a     *)
(* payment, paid when they reach the amount, but for the amounts that      *)
(* doubles fall short of (recalculateStatus), with any number of calls     *)
(* under way.                                                              *)
THEOREM StatusIsThatOfThePayments == Spec => []StatusTellsPayments
<1>1. IInv => StatusTellsPayments
  <2> SUFFICES ASSUME IInv, NEW a \in Existing \ stale, accounts[a].status # "CANCELLED"
               PROVE  /\ accounts[a].status = "OPEN" <=> PaidOf(a) = {}
                      /\ accounts[a].status = "PAID" => PaidSum(a) >= Total(a)
                      /\ PaidSum(a) > Total(a) => accounts[a].status = "PAID"
                      /\ PaidOf(a) # {} /\ PaidSum(a) = Total(a) =>
                            \/ accounts[a].status = "PAID"
                            \/ accounts[a].status = "PARTIAL" /\ AmountsPaid(a) \in Inexact
    BY DEF StatusTellsPayments
  <2>1. a \in Opened \ stale
    BY DEF Existing
  <2>2. PICK short \in Shortfalls(a) : accounts[a].status = StatusFor(PaidSum(a), Total(a), short)
    BY <2>1 DEF IInv, Tells, Cancelled, Right
  <2>3. PaidSum(a) \in Nat /\ (PaidSum(a) = 0 <=> PaidOf(a) = {})
    BY PaidPositive DEF IInv
  <2>4. Total(a) \in Nat
    BY <2>1 DEF IInv, Types, TypeOK, Total, Opened, Accounts, Terms
  <2>5. short => AmountsPaid(a) \in Inexact
    BY <2>2 DEF Shortfalls
  <2> QED
    BY <2>2, <2>3, <2>4, <2>5 DEF StatusFor
<1> QED
  BY <1>1, SpecInv, PTL

(* An approval is of the amount and the due date that the account has now, *)
(* whatever was edited since (mudouOQueFoiLiberado), as long as the calls  *)
(* come one at a time.                                                     *)
THEOREM ApprovalIsOfPresentTerms == Spec => []ApprovedAsItStands
<1>1. IInv => ApprovedAsItStands
  BY DEF IInv, Undisturbed, Approvals, ApprovedAsItStands
<1> QED
  BY <1>1, SpecInv, PTL
-----------------------------------------------------------------------------
(* An account that is open tells that nothing of it is paid.               *)
LEMMA OpenIsUnpaid ==
    ASSUME IInv, NEW a \in Opened, accounts[a].status = "OPEN"
    PROVE  a \in stale \/ PaidOf(a) = {}
<1> SUFFICES ASSUME a \notin stale PROVE PaidOf(a) = {}
  OBVIOUS
<1>1. Right(a, Total(a), accounts[a].status)
  BY DEF IInv, Tells, Cancelled
<1>2. PaidSum(a) = 0
  BY <1>1, ZeroIsOpen
<1> QED
  BY <1>2, PaidPositive DEF IInv

(* An account turns cancelled only by the two cancellations, and from open.*)
LEMMA CancelledFromOpen ==
    ASSUME IInv, UNCHANGED workload, Alone, NEW p \in Procs, Step(p),
           NEW a \in AccountIds, ~Cancelled(a), Cancelled(a)'
    PROVE  a \in Opened /\ accounts[a].status = "OPEN"
<1>1. accounts \in [AccountIds -> Accounts] /\ GoodCall(call[p]) /\ Computed(p) /\ Current(p)
  BY DEF IInv, Types, TypeOK, Calls, Undisturbed
<1>2. accounts[a].status # "CANCELLED" /\ accounts'[a].status = "CANCELLED"
  BY DEF Cancelled
<1>3. ~UNCHANGED accounts
  BY <1>2
<1>4. CASE CommitCreateAccount(p) \/ CommitUpdateInvoice(p)
  <2>1. PICK b \in FreshAccounts, origin \in {call[p].origin, "INVOICE"} :
            accounts' = [accounts EXCEPT ![b] = NewAccount(origin, call[p].terms)]
    BY <1>3, <1>4 DEF CommitCreateAccount, CommitUpdateInvoice
  <2> QED
    BY <1>1, <1>2, <2>1 DEF NewAccount
<1>5. CASE CommitUpdateAccount(p) \/ CommitTrashAccount(p) \/ CommitApprove(p) \/ CommitRevoke(p)
  <2>1. accounts'[a].status = accounts[a].status
    <3>1. CASE CommitUpdateAccount(p)
      <4> DEFINE b == call[p].account
                 new == Patched(accounts[b].terms, call[p].sent)
                 mark == IF ApprovalLapses(call[p].read.terms,
                                           Patched(call[p].read.terms, call[p].sent))
                         THEN Unapproved ELSE accounts[b].approved
      <4>1. b \in AccountIds
        BY <1>1, <3>1 DEF CommitUpdateAccount, At, GoodCall, Opened
      <4>2. accounts' = [accounts EXCEPT ![b].terms = new, ![b].approved = mark]
        BY <3>1 DEF CommitUpdateAccount
      <4> HIDE DEF b, new, mark
      <4>3. \/ accounts'[a] = accounts[a]
            \/ accounts'[a] = [accounts[a] EXCEPT !.terms = new, !.approved = mark]
        BY <1>1, <4>1, <4>2
      <4> QED
        BY <1>1, <4>3 DEF Accounts
    <3>2. CASE CommitTrashAccount(p)
      <4>1. PICK b \in BOOLEAN : accounts' = [accounts EXCEPT ![call[p].account].removed = b]
        BY <3>2 DEF CommitTrashAccount
      <4>2. accounts'[a] = accounts[a] \/ accounts'[a] = [accounts[a] EXCEPT !.removed = b]
        BY <1>1, <4>1
      <4> QED
        BY <1>1, <4>2 DEF Accounts
    <3>3. CASE CommitApprove(p)
      <4>1. \/ accounts'[a] = accounts[a]
            \/ accounts'[a] = [accounts[a] EXCEPT !.approved = accounts[a].terms]
        BY <3>3 DEF CommitApprove
      <4> QED
        BY <1>1, <4>1 DEF Accounts
    <3>4. CASE CommitRevoke(p)
      <4>1. \/ accounts'[a] = accounts[a]
            \/ accounts'[a] = [accounts[a] EXCEPT !.approved = Unapproved]
        BY <1>1, <3>4 DEF CommitRevoke
      <4> QED
        BY <1>1, <4>1 DEF Accounts
    <3> QED
      BY <1>5, <3>1, <3>2, <3>3, <3>4
  <2> QED
    BY <1>2, <2>1
<1>6. CASE CommitCancelAccount(p)
  <2>1. /\ call[p].account \in Opened /\ accounts[call[p].account].status = "OPEN"
        /\ accounts' = [accounts EXCEPT ![call[p].account].status = "CANCELLED"]
    BY <1>1, <1>6 DEF CommitCancelAccount, Current, GoodCall, At
  <2>2. a = call[p].account
    BY <1>1, <1>2, <2>1
  <2> QED
    BY <2>1, <2>2
<1>7. CASE CommitCancelOrder(p)
  <2>1. a \in call[p].accounts
    BY <1>2, <1>7 DEF CommitCancelOrder
  <2> QED
    BY <1>1, <1>7, <2>1 DEF CommitCancelOrder, Current, OfInvoice, Existing
<1>8. CASE RecalculateStore(p)
  <2>1. call[p].status # "CANCELLED"
    BY <1>1, <1>8, StatusForTyped DEF RecalculateStore, Computed, At
  <2>2. \/ accounts'[a] = accounts[a]
        \/ accounts'[a] = [accounts[a] EXCEPT !.status = call[p].status]
    BY <1>1, <1>8 DEF RecalculateStore
  <2> QED
    BY <1>1, <1>2, <2>1, <2>2 DEF Accounts
<1>9. CASE \/ CommitRemoveInvoice(p) \/ CommitRestoreInvoice(p) \/ CommitCreatePayment(p)
           \/ CommitUpdatePayment(p) \/ CommitRemovePayment(p) \/ CommitRestorePayment(p)
           \/ RecalculateRead(p) \/ RecalculateSum(p) \/ CollectCancelOrder(p) \/ Abort(p)
  BY <1>3, <1>9 DEF CommitRemoveInvoice, CommitRestoreInvoice, CommitCreatePayment, WritePayment,
     CommitUpdatePayment, CommitRemovePayment, CommitRestorePayment, RecalculateRead,
     RecalculateSum, CollectCancelOrder, Abort, Ledger
<1>10. CASE Begins(p)
  BY <1>3, <1>10 DEF Begins, Begin, Ledger, BeginCreateAccount, BeginUpdateInvoice,
     BeginRemoveInvoice, BeginRestoreInvoice, BeginUpdateAccount, BeginCancelAccount,
     BeginRemoveAccount, BeginRestoreAccount, BeginApprove, BeginRevoke, BeginCreatePayment,
     BeginUpdatePayment, BeginRemovePayment, BeginRestorePayment, BeginCancelOrder
<1> QED
  BY <1>4, <1>5, <1>6, <1>7, <1>8, <1>9, <1>10 DEF Step, Begins

(* No account with money paid turns cancelled, by hand or with its order   *)
(* (updateStatus, cancel), when the calls come one at a time.              *)
THEOREM PaidStaysUncancelled == Spec => PaidIsNotCancelled
<1> DEFINE A == Alone => \A a \in AccountIds :
                    ~Cancelled(a) /\ Cancelled(a)' => a \in stale \/ PaidOf(a) = {}
<1>1. IInv /\ [Next]_vars => [A]_vars
  BY CancelledFromOpen, OpenIsUnpaid DEF Next
<1> HIDE DEF A
<1>2. Spec => [][A]_vars
  BY <1>1, SpecInv, PTL DEF Spec
<1> QED
  BY <1>2 DEF A, PaidIsNotCancelled

(* The cancellation of an order cancels all that its invoice owes, and no  *)
(* payment was made of it or is under way (cancel and its cascade), when   *)
(* the calls come one at a time.                                           *)
THEOREM CancelledOrderOwesNothing == Spec => CancelSettlesOrder
<1> DEFINE A == Alone /\ order # order' =>
                   /\ \A a \in OfInvoice : Cancelled(a)'
                   /\ \A m \in Kept : payments[m].account \in OfInvoice
                                         => payments[m].status = "REFUNDED"
                   /\ invoice'.removed \/ invoice'.status = "CANCELLED"
<1>1. ASSUME IInv, Next, Alone, order # order' PROVE A
  <2>1. PICK p \in Procs : Step(p)
    BY <1>1 DEF Next
  <2>2. CommitCancelOrder(p)
    BY <1>1, <2>1 DEF Step, Goto, Finish, Begin, Ledger, BeginCreateAccount, BeginUpdateInvoice,
       BeginRemoveInvoice, BeginRestoreInvoice, BeginUpdateAccount, BeginCancelAccount,
       BeginRemoveAccount, BeginRestoreAccount, BeginApprove, BeginRevoke, BeginCreatePayment,
       BeginUpdatePayment, BeginRemovePayment, BeginRestorePayment, BeginCancelOrder,
       CommitCreateAccount, CommitUpdateInvoice, CommitRemoveInvoice, CommitRestoreInvoice,
       CommitUpdateAccount, CommitCancelAccount, CommitTrashAccount, CommitApprove, CommitRevoke,
       CommitCreatePayment, CommitUpdatePayment, CommitRemovePayment, WritePayment,
       CommitRestorePayment, RecalculateRead, RecalculateSum, RecalculateStore,
       CollectCancelOrder, Abort
  <2>3. /\ Unpaid
        /\ call[p].accounts = {a \in OfInvoice : accounts[a].status = "OPEN"}
        /\ call[p].invoice <=> ~invoice.removed /\ invoice.status # "CANCELLED"
    BY <1>1, <2>2 DEF IInv, Undisturbed, Current, CommitCancelOrder, At
  <2>4. ASSUME NEW a \in OfInvoice PROVE Cancelled(a)'
    <3>1. a \in AccountIds /\ accounts[a] \in Accounts /\ accounts[a].status \in {"OPEN", "CANCELLED"}
      BY <1>1, <2>3 DEF Unpaid, OfInvoice, Existing, Opened, IInv, Types, TypeOK, Accounts, AccountStatus
    <3>2. accounts'[a] = IF a \in call[p].accounts THEN [accounts[a] EXCEPT !.status = "CANCELLED"]
                                                   ELSE accounts[a]
      BY <2>2, <3>1 DEF CommitCancelOrder
    <3> QED
      BY <2>3, <3>1, <3>2 DEF Cancelled, Accounts
  <2>5. invoice'.removed \/ invoice'.status = "CANCELLED"
    <3>1. invoice' = IF call[p].invoice THEN [invoice EXCEPT !.status = "CANCELLED"] ELSE invoice
      BY <2>2 DEF CommitCancelOrder
    <3> QED
      BY <1>1, <2>3, <3>1 DEF IInv, Types, TypeOK
  <2> QED
    BY <2>3, <2>4, <2>5 DEF Unpaid, Kept
<1>2. IInv /\ [Next]_vars => [A]_vars
  BY <1>1
<1> HIDE DEF A
<1>3. Spec => [][A]_vars
  BY <1>2, SpecInv, PTL DEF Spec
<1> QED
  BY <1>3 DEF A, CancelSettlesOrder
=============================================================================
