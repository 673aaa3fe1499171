---------------------------- MODULE Procurement ----------------------------
(***************************************************************************)
(* One purchase request (solicitação), its lines, and the purchase orders  *)
(* emitted for it, under concurrent HTTP requests.                         *)
(*                                                                         *)
(* PostgreSQL runs at READ COMMITTED, so every Prisma call sees what is    *)
(* committed when it runs, and nothing a handler read stays true by        *)
(* itself.  What serialises the handlers that buy or change lines is       *)
(* SELECT ... FOR UPDATE on the request's row (rowLock).  The same lock    *)
(* also blocks any statement that writes that row or inserts a child of it *)
(* (its foreign key check takes a key-share lock on the row).              *)
(*                                                                         *)
(* A handler is: Begin... (its first reads and checks), possibly           *)
(* AcquireLock and ReadBalance, and the step that writes and commits.      *)
(* A refusal and a failure are Abort: nothing is written, the transaction  *)
(* rolls back and the lock is released.                                    *)
(***************************************************************************)
EXTENDS Naturals, FiniteSets, Sums, Fulfillment

CONSTANTS
    Procs,          \* concurrent HTTP requests being served
    ItemIds,        \* ids of request lines
    OrderIds,       \* ids of purchase orders
    MaxQty,         \* bound on a quantity typed by a user
    Prices,         \* net unit prices; 0 stands for "not quoted"
    LiveStatuses,   \* the order statuses other than CANCELLED
    Threshold,      \* purchaseApprovalThreshold, 0 = no threshold
    Ops,            \* the operations the clients of this instance call
    Free            \* rowLock when nobody holds it

ASSUME MaxQtyAssumption == MaxQty \in Nat
ASSUME PricesAssumption == Prices \subseteq Nat /\ 0 \in Prices
ASSUME FiniteAssumption == IsFiniteSet(ItemIds) /\ IsFiniteSet(OrderIds)
ASSUME FreeAssumption == Free \notin Procs
ASSUME StatusAssumption ==
    /\ LiveStatuses \subseteq {"OPEN", "ISSUED", "RECEIVED"}
    /\ LiveStatuses # {}

VARIABLES
    status,     \* PurchaseRequest.status
    removed,    \* PurchaseRequest.deletedAt is set
    items,      \* the rows of PurchaseRequestItem
    orders,     \* PurchaseOrder with its PurchaseOrderItem quantities
    rowLock,    \* who holds FOR UPDATE on the PurchaseRequest row
    pc,         \* where each HTTP request is
    call,       \* what it was asked to do
    seen,       \* what it has read and will decide from
    approved,   \* history: the rows the approving call evaluated
    revived     \* history: an order came back into the count unchecked

vars == <<status, removed, items, orders, rowLock, pc, call, seen, approved, revived>>
procVars == <<pc, call, seen>>
requestVars == <<status, removed, items, approved>>

RequestStatus == {"DRAFT", "PENDING", "QUOTING", "APPROVED", "CANCELLED"}
OrderStatus == LiveStatuses \cup {"CANCELLED"}

ALLOWED_TRANSITIONS ==
    [ DRAFT     |-> {"PENDING", "CANCELLED"},
      PENDING   |-> {"QUOTING", "CANCELLED"},
      QUOTING   |-> {"APPROVED", "CANCELLED"},
      APPROVED  |-> {"CANCELLED"},
      CANCELLED |-> {} ]

ITENS_ALTERAVEIS == {"PENDING", "QUOTING", "APPROVED"}

(* A PurchaseRequestItem row, or NoRow where there is none.  price is the  *)
(* net unit price: 0 while not quoted or marked unavailable.               *)
Rows == [exists: {TRUE}, quantity: 1..MaxQty, price: Prices, inStock: BOOLEAN]
NoRow == [exists |-> FALSE, quantity |-> 0, price |-> 0, inStock |-> FALSE]
NoRows == [i \in ItemIds |-> NoRow]

(* A set of rows as a client types it: nothing is in stock yet.            *)
Drafts == [ItemIds -> {r \in Rows : ~r.inStock} \cup {NoRow}]
Lines == [ItemIds -> 0..MaxQty]
NoLines == [i \in ItemIds |-> 0]

(* An id not used yet has status NONE.                                     *)
Orders == [status: OrderStatus \cup {"NONE"}, deleted: BOOLEAN, lines: Lines]
NoOrder == [status |-> "NONE", deleted |-> FALSE, lines |-> NoLines]

NoCall == [op |-> "none"]
Calls == {NoCall}
    \cup [op: {"create"}, order: OrderIds, lines: Lines, status: OrderStatus]
    \cup [op: {"reline"}, order: OrderIds, lines: Lines,
          status: OrderStatus \cup {"KEEP"}]
    \cup [op: {"patch"}, order: OrderIds, status: OrderStatus]
    \cup [op: {"cancelOrder", "removeOrder", "restoreOrder"}, order: OrderIds]
    \cup [op: {"updateStatus"}, to: RequestStatus, approver: BOOLEAN]
    \cup [op: {"removeItem", "editItem"}, item: ItemIds]
    \cup [op: {"setItemStock"}, item: ItemIds, inStock: BOOLEAN]
    \cup [op: {"updateDraft", "addItems", "updateQuote", "removeRequest",
               "restoreRequest"}]

LockingOps == {"create", "reline", "removeItem", "setItemStock", "editItem"}

NothingSeen == [rows |-> NoRows, bought |-> NoLines]
-----------------------------------------------------------------------------
(* Reads.                                                                  *)

(* ORDENS_QUE_CONTAM: neither cancelled nor deleted.                       *)
Counts(order) == order.status \in LiveStatuses /\ ~order.deleted

(* entriesByItem over the orders os, one element per unit bought, so that  *)
(* the quantity bought of a line is the number of its elements.            *)
UnitsOf(os, i, excluded) ==
    {u \in (OrderIds \ excluded) \X (1..MaxQty) :
        Counts(os[u[1]]) /\ u[2] <= os[u[1]].lines[i]}

Bought(i, excluded) == Cardinality(UnitsOf(orders, i, excluded))

(* excludePurchaseOrderId: an order being edited does not count against    *)
(* itself; an order being created is not there yet.                        *)
Excluded(c) == IF c.op = "reline" THEN {c.order} ELSE {}

Existing(rows) == {i \in ItemIds : rows[i].exists}

(* calculateQuoteTotals over net prices: rows not quoted or in stock are   *)
(* out of the sum.                                                         *)
Total(rows) ==
    SumOver([i \in ItemIds |-> rows[i].quantity * rows[i].price],
            {i \in Existing(rows) : ~rows[i].inStock})

(* assertWithinPurchaseThreshold.                                          *)
WithinPurchaseThreshold(amount, approver) ==
    Threshold = 0 \/ amount <= Threshold \/ approver

(* A line some order points at, whatever the order's status: the foreign   *)
(* key is Restrict, so such a row cannot be deleted.                       *)
Referenced(i) == \E o \in OrderIds : orders[o].lines[i] > 0

(* Ids that p may give to new rows: not in the table and not named by a    *)
(* call in flight, as a new uuid would be.                                 *)
FreshFor(p, i) ==
    \A q \in Procs \ {p} :
        /\ call[q].op \in {"create", "reline"} => call[q].lines[i] = 0
        /\ call[q].op \in {"removeItem", "editItem", "setItemStock"} => call[q].item # i
        /\ ~seen[q].rows[i].exists
-----------------------------------------------------------------------------
(* The steps every handler is made of.                                     *)

Start(p, c, next) ==
    /\ pc[p] = "idle"
    /\ c.op \in Ops
    /\ call' = [call EXCEPT ![p] = c]
    /\ pc' = [pc EXCEPT ![p] = next]

At(p, op) == pc[p] = "write" /\ call[p].op = op

(* The call answers; a transaction that held the row lock releases it.     *)
Finish(p) ==
    /\ pc' = [pc EXCEPT ![p] = "idle"]
    /\ call' = [call EXCEPT ![p] = NoCall]
    /\ seen' = [seen EXCEPT ![p] = NothingSeen]
    /\ rowLock' = IF rowLock = p THEN Free ELSE rowLock

(* Refusal, database error or transaction timeout.                         *)
Abort(p) == pc[p] # "idle" /\ Finish(p) /\ UNCHANGED <<requestVars, orders>>

(* Mutant: the lock is taken without waiting for its holder.               *)
AcquireLockNoWait(p) ==
    /\ pc[p] = "lock"
    /\ rowLock' = p
    /\ pc' = [pc EXCEPT ![p] = "locked"]
    /\ UNCHANGED <<requestVars, orders, call, seen>>

(* lockRequest: SELECT ... FOR UPDATE waits while another transaction holds *)
(* the row.                                                                *)
AcquireLock(p) ==
    /\ pc[p] = "lock" /\ rowLock = Free
    /\ rowLock' = p
    /\ pc' = [pc EXCEPT ![p] = "locked"]
    /\ UNCHANGED <<requestVars, orders, call, seen>>

(* Inside the lock: entriesByItem and the rows of the request.             *)
ReadBalance(p) ==
    /\ pc[p] = "locked"
    /\ seen' = [seen EXCEPT ![p] =
                   [rows   |-> items,
                    bought |-> [i \in ItemIds |-> Bought(i, Excluded(call[p]))]]]
    /\ pc' = [pc EXCEPT ![p] = "write"]
    /\ UNCHANGED <<requestVars, orders, rowLock, call>>
-----------------------------------------------------------------------------
(* PurchaseOrdersService.                                                  *)

(* create: the request is read as APPROVED and the lines are resolved      *)
(* before the transaction; neither is read again inside it.                *)
BeginCreate(p) ==
    /\ status = "APPROVED" /\ ~removed
    /\ \E o \in OrderIds, ls \in Lines \ {NoLines}, st \in OrderStatus :
        /\ orders[o].status = "NONE"
        /\ \A q \in Procs : call[q].op = "create" => call[q].order # o
        /\ \A i \in ItemIds : ls[i] > 0 => items[i].exists
        /\ Start(p, [op |-> "create", order |-> o, lines |-> ls, status |-> st], "lock")
    /\ UNCHANGED <<requestVars, orders, rowLock, seen>>

(* Mutant: the stock mark is not looked at.                                *)
WithinPendingAnyStock(c, rows, bought) ==
    \A i \in ItemIds : c.lines[i] > 0 =>
        rows[i].exists /\ c.lines[i] <= pendingOf(rows[i].quantity, bought[i])

(* assertWithinPending over what was read under the lock.                  *)
WithinPending(c, rows, bought) ==
    \A i \in ItemIds : c.lines[i] > 0 =>
        /\ rows[i].exists
        /\ ~rows[i].inStock
        /\ c.lines[i] <= pendingOf(rows[i].quantity, bought[i])

CommitCreate(p) ==
    /\ At(p, "create")
    /\ WithinPending(call[p], seen[p].rows, seen[p].bought)
    /\ orders' = [orders EXCEPT ![call[p].order] =
                     [status |-> call[p].status, deleted |-> FALSE, lines |-> call[p].lines]]
    /\ Finish(p) /\ UNCHANGED requestVars

Present(o) == orders[o].status # "NONE" /\ ~orders[o].deleted

(* update with items: the lines are replaced under the lock; the status is *)
(* whatever the body brings, or stays.                                     *)
BeginReline(p) ==
    /\ ~removed
    /\ \E o \in OrderIds, ls \in Lines \ {NoLines}, st \in OrderStatus \cup {"KEEP"} :
        /\ Present(o)
        /\ \A i \in ItemIds : ls[i] > 0 => items[i].exists
        /\ Start(p, [op |-> "reline", order |-> o, lines |-> ls, status |-> st], "lock")
    /\ UNCHANGED <<requestVars, orders, rowLock, seen>>

CommitReline(p) ==
    /\ At(p, "reline")
    /\ WithinPending(call[p], seen[p].rows, seen[p].bought)
    /\ LET o  == call[p].order
           st == IF call[p].status = "KEEP" THEN orders[o].status ELSE call[p].status
       IN  orders' = [orders EXCEPT ![o] =
                         [@ EXCEPT !.status = st, !.lines = call[p].lines]]
    /\ Finish(p) /\ UNCHANGED requestVars

Overwrite(p, o, new) ==
    /\ orders' = [orders EXCEPT ![o] = new]
    /\ Finish(p) /\ UNCHANGED requestVars

(* update without items, cancel, remove and the restore from the trash:    *)
(* the order is read, then written without the request's lock.  That       *)
(* invoices or payments refuse a cancel or a removal is an Abort here.     *)
BeginPatch(p) ==
    /\ \E o \in OrderIds, st \in OrderStatus :
        Present(o) /\ Start(p, [op |-> "patch", order |-> o, status |-> st], "write")
    /\ UNCHANGED <<requestVars, orders, rowLock, seen>>

CommitPatch(p) ==
    /\ At(p, "patch")
    /\ LET o == call[p].order
       IN  Overwrite(p, o, [orders[o] EXCEPT !.status = call[p].status])

BeginCancelOrder(p) ==
    /\ \E o \in OrderIds :
        /\ Present(o) /\ orders[o].status # "CANCELLED"
        /\ Start(p, [op |-> "cancelOrder", order |-> o], "write")
    /\ UNCHANGED <<requestVars, orders, rowLock, seen>>

CommitCancelOrder(p) ==
    /\ At(p, "cancelOrder")
    /\ LET o == call[p].order
       IN  Overwrite(p, o, [orders[o] EXCEPT !.status = "CANCELLED"])

BeginRemoveOrder(p) ==
    /\ \E o \in OrderIds :
        Present(o) /\ Start(p, [op |-> "removeOrder", order |-> o], "write")
    /\ UNCHANGED <<requestVars, orders, rowLock, seen>>

CommitRemoveOrder(p) ==
    /\ At(p, "removeOrder")
    /\ LET o == call[p].order
       IN  Overwrite(p, o, [orders[o] EXCEPT !.deleted = TRUE])

BeginRestoreOrder(p) ==
    /\ \E o \in OrderIds :
        orders[o].deleted /\ Start(p, [op |-> "restoreOrder", order |-> o], "write")
    /\ UNCHANGED <<requestVars, orders, rowLock, seen>>

CommitRestoreOrder(p) ==
    /\ At(p, "restoreOrder")
    /\ LET o == call[p].order
       IN  Overwrite(p, o, [orders[o] EXCEPT !.deleted = FALSE])
-----------------------------------------------------------------------------
(* PurchaseRequestsService.                                                *)

(* updateStatus: the status is read once, the total is read for an         *)
(* approval, and the target is then written over whatever is there.        *)
BeginUpdateStatus(p) ==
    /\ ~removed
    /\ \E to \in ALLOWED_TRANSITIONS[status], approver \in BOOLEAN :
        Start(p, [op |-> "updateStatus", to |-> to, approver |-> approver],
              IF to = "APPROVED" THEN "total" ELSE "write")
    /\ UNCHANGED <<requestVars, orders, rowLock, seen>>

ReadTotal(p) ==
    /\ pc[p] = "total"
    /\ WithinPurchaseThreshold(Total(items), call[p].approver)
    /\ seen' = [seen EXCEPT ![p].rows = items]
    /\ pc' = [pc EXCEPT ![p] = "write"]
    /\ UNCHANGED <<requestVars, orders, rowLock, call>>

CommitUpdateStatus(p) ==
    /\ At(p, "updateStatus") /\ rowLock = Free
    /\ status' = call[p].to
    /\ approved' = IF call[p].to = "APPROVED" THEN seen[p].rows ELSE NoRows
    /\ Finish(p) /\ UNCHANGED <<removed, items, orders>>

(* update: a draft's rows are deleted and created again.                   *)
BeginUpdateDraft(p) ==
    /\ ~removed /\ status = "DRAFT"
    /\ Start(p, [op |-> "updateDraft"], "write")
    /\ UNCHANGED <<requestVars, orders, rowLock, seen>>

CommitUpdateDraft(p) ==
    /\ At(p, "updateDraft") /\ rowLock = Free
    /\ \A i \in Existing(items) : ~Referenced(i)
    /\ \E rows \in Drafts \ {NoRows} :
        /\ \A i \in Existing(rows) : FreshFor(p, i)
        /\ items' = rows
    /\ Finish(p) /\ UNCHANGED <<status, removed, approved, orders>>

(* addItems: rows are added to a request not approved yet, as far as the   *)
(* handler has read.                                                       *)
BeginAddItems(p) ==
    /\ ~removed /\ status \in {"PENDING", "QUOTING"}
    /\ Start(p, [op |-> "addItems"], "write")
    /\ UNCHANGED <<requestVars, orders, rowLock, seen>>

CommitAddItems(p) ==
    /\ At(p, "addItems") /\ rowLock = Free
    /\ \E rows \in Drafts \ {NoRows} :
        /\ \A i \in Existing(rows) : ~items[i].exists /\ FreshFor(p, i)
        /\ items' = [i \in ItemIds |-> IF rows[i].exists THEN rows[i] ELSE items[i]]
    /\ Finish(p) /\ UNCHANGED <<status, removed, approved, orders>>

(* removeItem and setItemStock check the status before the lock.           *)
BeginRemoveItem(p) ==
    /\ ~removed /\ status \in ITENS_ALTERAVEIS
    /\ \E i \in ItemIds : Start(p, [op |-> "removeItem", item |-> i], "lock")
    /\ UNCHANGED <<requestVars, orders, rowLock, seen>>

(* Mutant: only a line bought in full is protected.                        *)
NotPurchasedInFull(i, bought) == bought[i] < items[i].quantity

(* assertNotPurchased.                                                     *)
NotPurchased(i, bought) == bought[i] = 0

(* Mutant: the last row may go.                                            *)
CommitRemoveItemLast(p) ==
    /\ At(p, "removeItem")
    /\ LET i == call[p].item
       IN  /\ i \in Existing(seen[p].rows)
           /\ NotPurchased(i, seen[p].bought)
           /\ ~Referenced(i)
           /\ items' = [items EXCEPT ![i] = NoRow]
    /\ Finish(p) /\ UNCHANGED <<status, removed, approved, orders>>

CommitRemoveItem(p) ==
    /\ At(p, "removeItem")
    /\ LET i == call[p].item
       IN  /\ i \in Existing(seen[p].rows)
           /\ NotPurchased(i, seen[p].bought)
           /\ Existing(seen[p].rows) # {i}
           /\ ~Referenced(i)
           /\ items' = [items EXCEPT ![i] = NoRow]
    /\ Finish(p) /\ UNCHANGED <<status, removed, approved, orders>>

BeginSetItemStock(p) ==
    /\ ~removed /\ status \in ITENS_ALTERAVEIS
    /\ \E i \in ItemIds, b \in BOOLEAN :
        Start(p, [op |-> "setItemStock", item |-> i, inStock |-> b], "lock")
    /\ UNCHANGED <<requestVars, orders, rowLock, seen>>

(* Marking clears the quote of the line; unmarking brings it back without. *)
CommitSetItemStock(p) ==
    /\ At(p, "setItemStock")
    /\ LET i == call[p].item
           b == call[p].inStock
       IN  /\ i \in Existing(seen[p].rows)
           /\ seen[p].rows[i].inStock # b
           /\ b => NotPurchased(i, seen[p].bought)
           /\ items' = [items EXCEPT ![i] =
                           [@ EXCEPT !.inStock = b,
                                     !.price = IF b THEN 0 ELSE items[i].price]]
    /\ Finish(p) /\ UNCHANGED <<status, removed, approved, orders>>

(* updateItem checks the status under the lock, and sends an approved      *)
(* request back to quoting when its value may change.                      *)
BeginEditItem(p) ==
    /\ ~removed
    /\ \E i \in ItemIds : Start(p, [op |-> "editItem", item |-> i], "lock")
    /\ UNCHANGED <<requestVars, orders, rowLock, seen>>

(* Mutant: only another material reopens the approval.                     *)
ReopensMaterialOnly(row, otherMaterial, quantity) ==
    status = "APPROVED" /\ ~row.inStock /\ otherMaterial

Reopens(row, otherMaterial, quantity) ==
    /\ status = "APPROVED"
    /\ ~row.inStock
    /\ otherMaterial \/ quantity # row.quantity

CommitEditItem(p) ==
    /\ At(p, "editItem")
    /\ ~removed /\ status \in ITENS_ALTERAVEIS
    /\ call[p].item \in Existing(seen[p].rows)
    /\ NotPurchased(call[p].item, seen[p].bought)
    /\ \E quantity \in 1..MaxQty, otherMaterial \in BOOLEAN :
        LET i == call[p].item
            back == Reopens(seen[p].rows[i], otherMaterial, quantity)
        IN  /\ items' = [items EXCEPT ![i] =
                            [@ EXCEPT !.quantity = quantity,
                                      !.price = IF otherMaterial THEN 0 ELSE items[i].price]]
            /\ status' = IF back THEN "QUOTING" ELSE status
            /\ approved' = IF back THEN NoRows ELSE approved
    /\ Finish(p) /\ UNCHANGED <<removed, orders>>

(* updateQuote: prices for the rows the handler has read.                  *)
BeginUpdateQuote(p) ==
    /\ ~removed /\ status \in {"PENDING", "QUOTING"}
    /\ Start(p, [op |-> "updateQuote"], "write")
    /\ seen' = [seen EXCEPT ![p].rows = items]
    /\ UNCHANGED <<requestVars, orders, rowLock>>

CommitUpdateQuote(p) ==
    /\ At(p, "updateQuote") /\ rowLock = Free
    /\ LET quotable == {i \in Existing(seen[p].rows) : ~seen[p].rows[i].inStock}
       IN  \E sent \in SUBSET quotable : \E price \in [sent -> Prices] :
            /\ \E i \in sent : price[i] # 0
            /\ \A i \in sent : items[i].exists
            /\ items' = [i \in ItemIds |->
                            IF i \in sent THEN [items[i] EXCEPT !.price = price[i]]
                            ELSE items[i]]
    /\ Finish(p) /\ UNCHANGED <<status, removed, approved, orders>>

(* remove and the restore from the trash.                                  *)
BeginRemoveRequest(p) ==
    /\ ~removed /\ Start(p, [op |-> "removeRequest"], "write")
    /\ UNCHANGED <<requestVars, orders, rowLock, seen>>

BeginRestoreRequest(p) ==
    /\ removed /\ Start(p, [op |-> "restoreRequest"], "write")
    /\ UNCHANGED <<requestVars, orders, rowLock, seen>>

CommitRemoveRequest(p) ==
    /\ At(p, "removeRequest") /\ rowLock = Free
    /\ removed' = TRUE
    /\ Finish(p) /\ UNCHANGED <<status, items, approved, orders>>

CommitRestoreRequest(p) ==
    /\ At(p, "restoreRequest") /\ rowLock = Free
    /\ removed' = FALSE
    /\ Finish(p) /\ UNCHANGED <<status, items, approved, orders>>
-----------------------------------------------------------------------------
(* create of PurchaseRequestsService: a draft with at least one row.       *)
Init ==
    /\ status = "DRAFT" /\ removed = FALSE
    /\ items \in Drafts \ {NoRows}
    /\ orders = [o \in OrderIds |-> NoOrder]
    /\ rowLock = Free
    /\ pc = [p \in Procs |-> "idle"]
    /\ call = [p \in Procs |-> NoCall]
    /\ seen = [p \in Procs |-> NothingSeen]
    /\ approved = NoRows
    /\ revived = FALSE

OrderStep(p) ==
    \/ BeginCreate(p) \/ CommitCreate(p)
    \/ BeginReline(p) \/ CommitReline(p)
    \/ BeginPatch(p) \/ CommitPatch(p)
    \/ BeginCancelOrder(p) \/ CommitCancelOrder(p)
    \/ BeginRemoveOrder(p) \/ CommitRemoveOrder(p)
    \/ BeginRestoreOrder(p) \/ CommitRestoreOrder(p)

RequestStep(p) ==
    \/ BeginUpdateStatus(p) \/ ReadTotal(p) \/ CommitUpdateStatus(p)
    \/ BeginUpdateDraft(p) \/ CommitUpdateDraft(p)
    \/ BeginAddItems(p) \/ CommitAddItems(p)
    \/ BeginRemoveItem(p) \/ CommitRemoveItem(p)
    \/ BeginSetItemStock(p) \/ CommitSetItemStock(p)
    \/ BeginEditItem(p) \/ CommitEditItem(p)
    \/ BeginUpdateQuote(p) \/ CommitUpdateQuote(p)
    \/ BeginRemoveRequest(p) \/ CommitRemoveRequest(p)
    \/ BeginRestoreRequest(p) \/ CommitRestoreRequest(p)

(* An order cancelled or deleted counts again, by a PATCH of its status or  *)
(* from the trash, and nobody has compared it with the balance.            *)
Revives ==
    /\ \E p \in Procs : (At(p, "patch") \/ At(p, "restoreOrder")) /\ pc'[p] = "idle"
    /\ \E o \in OrderIds : ~Counts(orders[o]) /\ Counts(orders'[o])

Next ==
    /\ \E p \in Procs :
        AcquireLock(p) \/ ReadBalance(p) \/ Abort(p) \/ OrderStep(p) \/ RequestStep(p)
    /\ revived' = (revived \/ Revives)

Spec == Init /\ [][Next]_vars
-----------------------------------------------------------------------------
(* Correctness.                                                            *)

(* Every variable has its shape.                                           *)
TypeOK ==
    /\ status \in RequestStatus
    /\ removed \in BOOLEAN
    /\ items \in [ItemIds -> Rows \cup {NoRow}]
    /\ orders \in [OrderIds -> Orders]
    /\ rowLock \in Procs \cup {Free}
    /\ pc \in [Procs -> {"idle", "lock", "locked", "total", "write"}]
    /\ call \in [Procs -> Calls]
    /\ seen \in [Procs -> [rows: [ItemIds -> Rows \cup {NoRow}], bought: [ItemIds -> Nat]]]
    /\ approved \in [ItemIds -> Rows \cup {NoRow}]
    /\ revived \in BOOLEAN

(* Per line, the orders that count never buy more than was asked, and what *)
(* is in stock is not bought at all (the rule above assertWithinPending).  *)
WithinRequested ==
    \A i \in ItemIds :
        /\ Bought(i, {}) <= items[i].quantity
        /\ items[i].inStock => Bought(i, {}) = 0

(* It holds as long as every order that counts was compared with the       *)
(* balance: however the calls interleave, the lock keeps lines within it.  *)
CheckedWithinRequested == ~revived => WithinRequested

(* What a handler has read under the lock is still a safe basis when it    *)
(* writes: its rows are the current ones, and no purchase has come in but  *)
(* by an order that counts again unchecked.                                *)
ReadStaysValid ==
    \A p \in Procs : pc[p] = "write" /\ call[p].op \in LockingOps =>
        /\ rowLock = p
        /\ seen[p].rows = items
        /\ ~revived => \A i \in ItemIds : Bought(i, Excluded(call[p])) <= seen[p].bought[i]

(* A line that some order is buying is not removed, resized or marked as   *)
(* in stock by any step, under the same condition.                         *)
BoughtLineIsFrozen ==
    [][\A i \in ItemIds : ~revived /\ Bought(i, {}) > 0 =>
          /\ items'[i].exists
          /\ items'[i].quantity = items[i].quantity
          /\ ~items'[i].inStock]_vars

(* A request is never left without rows: desistir do pedido inteiro is to  *)
(* cancel it.                                                              *)
RequestKeepsARow == Existing(items) # {}

(* The status shown for the request is FULFILLED exactly when no order     *)
(* whatsoever would be accepted for it.                                    *)
FulfilledMeansNothingToBuy ==
    LET bought == [i \in ItemIds |-> Bought(i, {})]
        shown  == aggregateFulfillment([i \in Existing(items) |->
                      buildItemFulfillment(items[i].quantity, bought[i], items[i].inStock)])
    IN  shown.status = "FULFILLED" <=>
            \A ls \in Lines \ {NoLines} : ~WithinPending([lines |-> ls], items, bought)

(* The value of an approved request never exceeds the value the approval   *)
(* was given on.                                                           *)
ApprovalCoversTotal == status = "APPROVED" => Total(items) <= Total(approved)
=============================================================================
