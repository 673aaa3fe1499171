----------------------------- MODULE MCPayables -----------------------------
(* Small instances of Payables.                                            *)
EXTENDS Payables, TLC

Symmetry == Permutations(Procs) \cup Permutations(AccountIds) \cup Permutations(PaymentIds)

PaymentOps == {"createPayment", "updatePayment", "removePayment", "restorePayment"}
AccountOps == {"createAccount", "updateAccount", "cancelAccount", "removeAccount",
               "restoreAccount"}
InvoiceOps == {"updateInvoice", "removeInvoice", "restoreInvoice", "cancelOrder"}

(* One call at a time: an account and two payments of any status, in units *)
(* of ten cents; two accounts, with and without the invoice, and one       *)
(* payment; two accounts that are approved and edited.                     *)
Instalments == [calls |-> 1, ops |-> PaymentOps \cup AccountOps \cup {"cancelOrder"},
                accounts |-> 1, payments |-> 2, amounts |-> {1, 7, 8}, dates |-> {1},
                statuses |-> {"PENDING", "PAID", "REFUNDED"}]
Invoicing == [calls |-> 1, ops |-> (PaymentOps \cup AccountOps \cup InvoiceOps) \ {"updateAccount"},
              accounts |-> 2, payments |-> 1, amounts |-> {1}, dates |-> {1},
              statuses |-> {"PROCESSING", "PAID"}]
Approving == [calls |-> 1,
              ops |-> {"createAccount", "updateAccount", "approve", "revoke", "createPayment"},
              accounts |-> 2, payments |-> 1, amounts |-> {1, 2}, dates |-> {1, 2},
              statuses |-> {"PAID"}]
(* Two calls on the payments of one account.                               *)
Racing == [calls |-> 2, ops |-> PaymentOps \cup {"createAccount", "updateAccount", "cancelAccount"},
           accounts |-> 1, payments |-> 2, amounts |-> {1, 2}, dates |-> {1},
           statuses |-> {"PAID"}]
(* 0.10 + 0.70 is less than 0.80.                                          *)
Tenths == {{1, 7}}

Loads == {Instalments, Invoicing, Approving, Racing}
=============================================================================
