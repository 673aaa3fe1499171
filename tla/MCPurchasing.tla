---------------------------- MODULE MCPurchasing ----------------------------
(* Small instances of Procurement: the purchases of a line by two orders,  *)
(* and the life of the request, its rows, its value and its approval.      *)
EXTENDS ProcurementLedger, TLC

VARIABLE workload

Symmetry == Permutations(Procs) \cup Permutations(OrderIds) \cup Permutations(ItemIds)

(* Two calls and two orders over one row; two calls, while rows of one     *)
(* unit come and go and an order takes them; one call, while orders also   *)
(* go to the trash and back; or one call, over the whole life of the       *)
(* request and up to larger values.                                        *)
BalanceOps == {"create", "reline", "patch", "updateStatus",
               "setItemStock", "editItem"}

LinesOps == {"create", "cancelOrder", "updateStatus", "updateDraft", "addItems",
             "removeItem", "setItemStock", "editItem"}

OrdersOps == LinesOps \cup {"removeOrder", "restoreOrder"}

LifeOps == {"updateStatus", "updateDraft", "addItems", "removeItem",
                "setItemStock", "editItem", "updateQuote", "removeRequest",
                "restoreRequest"}

AllOps == BalanceOps \cup OrdersOps \cup LifeOps

Busy == {p \in Procs : pc[p] # "idle"}
Used == {o \in OrderIds : \/ orders[o].status # "NONE"
                          \/ \E p \in Procs : call[p].op = "create" /\ call[p].order = o}

Calling(ops) == \A p \in Procs : call[p].op \in ops \cup {"none"}
Unpriced == \A i \in ItemIds : items[i].price = 0

UnitRows ==
    /\ \A i \in ItemIds : items[i].quantity <= 1
    /\ \A p \in Procs : call[p].op = "create" => \A i \in ItemIds : call[p].lines[i] <= 1

(* What comes after an order that counts again unchecked is not explored   *)
(* with two orders: the properties promise nothing there.                  *)
Bound ==
    /\ workload = "balance" => ~revived /\ Unpriced /\ Calling(BalanceOps)
                                  /\ Cardinality(Existing(items)) <= 1
    /\ workload # "balance" => Cardinality(Used) <= 1
    /\ workload \in {"lines", "orders"} => UnitRows /\ Unpriced
    /\ workload = "lines" => Calling(LinesOps)
    /\ workload = "orders" => Calling(OrdersOps) /\ Cardinality(Busy) <= 1
    /\ workload = "life" => Calling(LifeOps) /\ Cardinality(Busy) <= 1

MCInit == Init /\ workload \in {"balance", "lines", "orders", "life"} /\ Bound

MCSpec == MCInit /\ [][Next /\ UNCHANGED workload /\ Bound']_<<vars, workload>>
=============================================================================
