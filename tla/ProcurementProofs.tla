-------------------------- MODULE ProcurementProofs --------------------------
(***************************************************************************)
(* The balance of a purchase request, for every number of calls, lines,    *)
(* orders and quantities: until an order comes back into the count         *)
(* unchecked, the lock on the request keeps every line within what was     *)
(* requested, and the handlers together implement the atomic ledger.  What *)
(* is shown as fulfilled is what cannot be bought any more, and, one call  *)
(* at a time, an approval covers what the request is worth.                *)
(***************************************************************************)
EXTENDS ProcurementLedger, SumTheorems, TLAPS

-----------------------------------------------------------------------------
(* Counting the units bought of a line.                                    *)

LEMMA UnitsFinite ==
    ASSUME NEW os, NEW i, NEW excluded
    PROVE  /\ IsFiniteSet(UnitsOf(os, i, excluded))
           /\ Cardinality(UnitsOf(os, i, excluded)) \in Nat
<1>1. IsFiniteSet(1..MaxQty)
  BY FS_Interval, MaxQtyAssumption
<1>2. IsFiniteSet(OrderIds \ excluded)
  BY FS_Difference, FiniteAssumption
<1>3. IsFiniteSet((OrderIds \ excluded) \X (1..MaxQty))
  BY <1>1, <1>2, FS_Product
<1>4. UnitsOf(os, i, excluded) \in SUBSET ((OrderIds \ excluded) \X (1..MaxQty))
  BY DEF UnitsOf
<1> QED
  BY <1>3, <1>4, FS_Subset, FS_CardinalityType

(* When orders outside `excluded` count and buy no more than they did, the *)
(* quantity bought does not grow.                                          *)
LEMMA UnitsShrink ==
    ASSUME NEW os, NEW ns, NEW i, NEW excluded, NEW wider,
           wider \subseteq excluded,
           \A o \in OrderIds \ excluded : Counts(ns[o]) =>
               Counts(os[o]) /\ ns[o].lines[i] = os[o].lines[i]
    PROVE  Cardinality(UnitsOf(ns, i, excluded)) <= Cardinality(UnitsOf(os, i, wider))
<1>1. UnitsOf(ns, i, excluded) \in SUBSET UnitsOf(os, i, wider)
  BY DEF UnitsOf
<1> QED
  BY <1>1, UnitsFinite, FS_Subset

(* An order that takes n of the line adds at most n to what the others     *)
(* have taken.                                                             *)
LEMMA UnitsGrow ==
    ASSUME NEW os, NEW ns, NEW i, NEW o \in OrderIds, NEW n \in Nat,
           ns[o].lines[i] = n,
           \A other \in OrderIds \ {o} : ns[other] = os[other]
    PROVE  Cardinality(UnitsOf(ns, i, {})) <= Cardinality(UnitsOf(os, i, {o})) + n
<1> DEFINE Own == {o} \X (1..n)
<1>1. IsFiniteSet({o}) /\ Cardinality({o}) = 1
  BY FS_Singleton
<1>2. IsFiniteSet(1..n) /\ Cardinality(1..n) = n
  BY FS_Interval
<1>3. IsFiniteSet(Own) /\ Cardinality(Own) = n
  <2>1. /\ IsFiniteSet({o} \X (1..n))
        /\ Cardinality({o} \X (1..n)) = Cardinality({o}) * Cardinality(1..n)
    BY ONLY <1>1, <1>2, FS_Product
  <2> QED
    BY <1>1, <1>2, <2>1
<1>4. UnitsOf(ns, i, {}) \in SUBSET (UnitsOf(os, i, {o}) \cup Own)
  BY MaxQtyAssumption DEF UnitsOf
<1>5. /\ IsFiniteSet(UnitsOf(os, i, {o}) \cup Own)
      /\ Cardinality(UnitsOf(os, i, {o}) \cup Own)
           = Cardinality(UnitsOf(os, i, {o})) + Cardinality(Own)
               - Cardinality(UnitsOf(os, i, {o}) \cap Own)
  BY <1>3, UnitsFinite, FS_Union
<1>6. IsFiniteSet(UnitsOf(os, i, {o}) \cap Own)
  BY <1>3, FS_Intersection
<1>7. Cardinality(UnitsOf(os, i, {o}) \cap Own) \in Nat
  BY <1>6, FS_CardinalityType
<1>8. Cardinality(UnitsOf(ns, i, {})) <= Cardinality(UnitsOf(os, i, {o}) \cup Own)
  BY <1>4, <1>5, FS_Subset
<1> QED
  BY <1>3, <1>5, <1>7, <1>8, UnitsFinite

(* A line no order points at is not bought.                                *)
LEMMA UnitsOfUnreferenced ==
    ASSUME NEW os, NEW i, \A o \in OrderIds : ~(os[o].lines[i] > 0),
           \A o \in OrderIds : os[o].lines[i] \in Nat
    PROVE  Cardinality(UnitsOf(os, i, {})) = 0
<1>1. UnitsOf(os, i, {}) = {}
  BY MaxQtyAssumption DEF UnitsOf
<1> QED
  BY <1>1, FS_EmptySet
-----------------------------------------------------------------------------
(* Types.                                                                  *)

ProcType ==
    /\ rowLock \in Procs \cup {Free}
    /\ pc \in [Procs -> {"idle", "lock", "locked", "total", "write"}]
    /\ call \in [Procs -> Calls]
    /\ seen \in [Procs -> [rows: [ItemIds -> Rows \cup {NoRow}], bought: [ItemIds -> Nat]]]

RequestType ==
    /\ status \in RequestStatus
    /\ removed \in BOOLEAN
    /\ items \in [ItemIds -> Rows \cup {NoRow}]
    /\ approved \in [ItemIds -> Rows \cup {NoRow}]

OrderType == orders \in [OrderIds -> Orders]

Typed == ProcType /\ RequestType /\ OrderType

(* Where each call is, and what the lock protects: the rows that a handler *)
(* read under it are the current ones.                                     *)
Locked(p) == pc[p] = "locked" \/ (pc[p] = "write" /\ call[p].op \in LockingOps)
Decides(p) == pc[p] = "write" /\ call[p].op \in LockingOps

Stages ==
    \A p \in Procs :
        /\ Locked(p) => rowLock = p
        /\ pc[p] = "total" => call[p].op = "updateStatus"
        /\ Decides(p) => seen[p].rows = items

Base == Typed /\ Stages

(* The balance, and the one that a handler read: it can only have grown.   *)
BalanceRead ==
    \A p \in Procs : Decides(p) =>
        \A i \in ItemIds : Bought(i, Excluded(call[p])) <= seen[p].bought[i]

Balance == BalanceRead /\ WithinRequested

(* What every action does.                                                 *)
Preserved == Base' /\ (Balance /\ ~Revives => Balance')

LEMMA TypedIsTypeOK == Typed /\ revived \in BOOLEAN => TypeOK
BY DEF Typed, TypeOK, ProcType, RequestType, OrderType

(* The arguments that each operation carries.                              *)
LEMMA CallShape ==
    ASSUME NEW c \in Calls
    PROVE  /\ c.op \in {"create", "reline"} => c.order \in OrderIds /\ c.lines \in Lines
           /\ c.op = "create" => c.status \in OrderStatus
           /\ c.op = "reline" => c.status \in OrderStatus \cup {"KEEP"}
           /\ c.op = "patch" => c.order \in OrderIds /\ c.status \in OrderStatus
           /\ c.op \in {"cancelOrder", "removeOrder", "restoreOrder"} => c.order \in OrderIds
           /\ c.op = "updateStatus" => c.to \in RequestStatus
           /\ c.op \in {"removeItem", "editItem", "setItemStock"} => c.item \in ItemIds
           /\ c.op = "setItemStock" => c.inStock \in BOOLEAN
BY DEF Calls, NoCall

LEMMA NothingTyped ==
    /\ NoRows \in [ItemIds -> Rows \cup {NoRow}]
    /\ NoLines \in Lines /\ NoLines \in [ItemIds -> Nat]
    /\ NothingSeen \in [rows: [ItemIds -> Rows \cup {NoRow}], bought: [ItemIds -> Nat]]
    /\ NoOrder \in Orders
    /\ Drafts \subseteq [ItemIds -> Rows \cup {NoRow}]
BY MaxQtyAssumption DEF NoRows, NoLines, Lines, NothingSeen, NoOrder, Orders, Drafts

LEMMA RowShape ==
    ASSUME NEW r \in Rows \cup {NoRow}
    PROVE  /\ r.exists \in BOOLEAN
           /\ r.exists => r \in Rows
           /\ ~r.exists => r.quantity = 0 /\ ~r.inStock
           /\ r.quantity \in Nat
<1>1. CASE r \in Rows
  <2>1. r.exists = TRUE /\ r.quantity \in 1..MaxQty
    BY <1>1 DEF Rows
  <2>2. r.quantity \in Nat
    BY <2>1, MaxQtyAssumption
  <2> QED
    BY <1>1, <2>1, <2>2
<1>2. CASE r = NoRow
  BY <1>2 DEF NoRow
<1> QED
  BY <1>1, <1>2

LEMMA FinishType ==
    ASSUME ProcType, NEW p \in Procs, Finish(p)
    PROVE  ProcType'
BY NothingTyped DEF ProcType, Finish, Calls

(* A call that begins touches nothing but its own process.                 *)
LEMMA StartType ==
    ASSUME Base, NEW p \in Procs, NEW c \in Calls,
           NEW next \in {"lock", "total", "write"},
           next = "write" => c.op \notin LockingOps,
           next = "total" => c.op = "updateStatus",
           Start(p, c, next), UNCHANGED <<requestVars, orders, rowLock, seen>>
    PROVE  Preserved
<1>1. Typed'
  BY DEF Base, Typed, ProcType, RequestType, OrderType, Start, requestVars
<1>2. \A q \in Procs : /\ q # p => pc'[q] = pc[q] /\ call'[q] = call[q]
                       /\ q = p => pc'[q] = next /\ call'[q] = c
  BY DEF Base, Typed, ProcType, Start
<1>3. Stages'
  BY <1>2 DEF Base, Stages, Locked, Decides, requestVars
<1>4. Balance => Balance'
  BY <1>2 DEF Balance, BalanceRead, WithinRequested, Decides, Bought, requestVars
<1> QED
  BY <1>1, <1>3, <1>4 DEF Preserved, Base

(* Writing an order of the right shape.                                    *)
LEMMA OneOrderType ==
    ASSUME OrderType, NEW o \in OrderIds, NEW new \in Orders,
           orders' = [orders EXCEPT ![o] = new]
    PROVE  OrderType'
BY DEF OrderType

LEMMA InitBase == Init => Base
<1> SUFFICES ASSUME Init PROVE Base
  OBVIOUS
<1>1. items \in [ItemIds -> Rows \cup {NoRow}]
  BY NothingTyped DEF Init
<1>2. ProcType
  BY NothingTyped DEF Init, ProcType, Calls
<1>3. OrderType
  BY NothingTyped DEF Init, OrderType
<1> QED
  BY <1>1, <1>2, <1>3, NothingTyped
  DEF Init, Base, Typed, RequestType, RequestStatus, Stages, Locked, Decides

-----------------------------------------------------------------------------
(* One lemma per group of actions.                                         *)

LEMMA BeginOrderType ==
    ASSUME Base, NEW p \in Procs,
           \/ BeginCreate(p) \/ BeginReline(p) \/ BeginPatch(p)
           \/ BeginCancelOrder(p) \/ BeginRemoveOrder(p) \/ BeginRestoreOrder(p)
    PROVE  Preserved
<1>1. CASE BeginCreate(p)
  <2>1. PICK o \in OrderIds, ls \in Lines, st \in OrderStatus :
           Start(p, [op |-> "create", order |-> o, lines |-> ls, status |-> st], "lock")
    BY <1>1 DEF BeginCreate
  <2>2. [op |-> "create", order |-> o, lines |-> ls, status |-> st] \in Calls
    BY DEF Calls
  <2>3. UNCHANGED <<requestVars, orders, rowLock, seen>>
    BY <1>1 DEF BeginCreate
  <2> QED
    BY <2>1, <2>2, <2>3, StartType DEF LockingOps
<1>2. CASE BeginReline(p)
  <2>1. PICK o \in OrderIds, ls \in Lines, st \in OrderStatus \cup {"KEEP"} :
           Start(p, [op |-> "reline", order |-> o, lines |-> ls, status |-> st], "lock")
    BY <1>2 DEF BeginReline
  <2>2. [op |-> "reline", order |-> o, lines |-> ls, status |-> st] \in Calls
    BY DEF Calls
  <2>3. UNCHANGED <<requestVars, orders, rowLock, seen>>
    BY <1>2 DEF BeginReline
  <2> QED
    BY <2>1, <2>2, <2>3, StartType DEF LockingOps
<1>3. CASE BeginPatch(p)
  <2>1. PICK o \in OrderIds, st \in OrderStatus :
           Start(p, [op |-> "patch", order |-> o, status |-> st], "write")
    BY <1>3 DEF BeginPatch
  <2>2. [op |-> "patch", order |-> o, status |-> st] \in Calls
    BY DEF Calls
  <2>3. UNCHANGED <<requestVars, orders, rowLock, seen>>
    BY <1>3 DEF BeginPatch
  <2> QED
    BY <2>1, <2>2, <2>3, StartType DEF LockingOps
<1>4. CASE BeginCancelOrder(p)
  <2>1. PICK o \in OrderIds :
           Start(p, [op |-> "cancelOrder", order |-> o], "write")
    BY <1>4 DEF BeginCancelOrder
  <2>2. [op |-> "cancelOrder", order |-> o] \in Calls
    BY DEF Calls
  <2>3. UNCHANGED <<requestVars, orders, rowLock, seen>>
    BY <1>4 DEF BeginCancelOrder
  <2> QED
    BY <2>1, <2>2, <2>3, StartType DEF LockingOps
<1>5. CASE BeginRemoveOrder(p)
  <2>1. PICK o \in OrderIds :
           Start(p, [op |-> "removeOrder", order |-> o], "write")
    BY <1>5 DEF BeginRemoveOrder
  <2>2. [op |-> "removeOrder", order |-> o] \in Calls
    BY DEF Calls
  <2>3. UNCHANGED <<requestVars, orders, rowLock, seen>>
    BY <1>5 DEF BeginRemoveOrder
  <2> QED
    BY <2>1, <2>2, <2>3, StartType DEF LockingOps
<1>6. CASE BeginRestoreOrder(p)
  <2>1. PICK o \in OrderIds :
           Start(p, [op |-> "restoreOrder", order |-> o], "write")
    BY <1>6 DEF BeginRestoreOrder
  <2>2. [op |-> "restoreOrder", order |-> o] \in Calls
    BY DEF Calls
  <2>3. UNCHANGED <<requestVars, orders, rowLock, seen>>
    BY <1>6 DEF BeginRestoreOrder
  <2> QED
    BY <2>1, <2>2, <2>3, StartType DEF LockingOps
<1> QED
  BY <1>1, <1>2, <1>3, <1>4, <1>5, <1>6

LEMMA BeginRequestType ==
    ASSUME Base, NEW p \in Procs,
           \/ BeginUpdateStatus(p) \/ BeginUpdateDraft(p) \/ BeginAddItems(p)
           \/ BeginRemoveItem(p) \/ BeginSetItemStock(p) \/ BeginEditItem(p)
           \/ BeginUpdateQuote(p) \/ BeginRemoveRequest(p) \/ BeginRestoreRequest(p)
    PROVE  Preserved
<1>1. CASE BeginUpdateDraft(p)
  <2>1. Start(p, [op |-> "updateDraft"], "write")
    BY <1>1 DEF BeginUpdateDraft
  <2>2. [op |-> "updateDraft"] \in Calls
    BY DEF Calls
  <2>3. UNCHANGED <<requestVars, orders, rowLock, seen>>
    BY <1>1 DEF BeginUpdateDraft
  <2> QED
    BY <2>1, <2>2, <2>3, StartType DEF LockingOps
<1>2. CASE BeginAddItems(p)
  <2>1. Start(p, [op |-> "addItems"], "write")
    BY <1>2 DEF BeginAddItems
  <2>2. [op |-> "addItems"] \in Calls
    BY DEF Calls
  <2>3. UNCHANGED <<requestVars, orders, rowLock, seen>>
    BY <1>2 DEF BeginAddItems
  <2> QED
    BY <2>1, <2>2, <2>3, StartType DEF LockingOps
<1>3. CASE BeginRemoveItem(p)
  <2>1. PICK i \in ItemIds :
           Start(p, [op |-> "removeItem", item |-> i], "lock")
    BY <1>3 DEF BeginRemoveItem
  <2>2. [op |-> "removeItem", item |-> i] \in Calls
    BY DEF Calls
  <2>3. UNCHANGED <<requestVars, orders, rowLock, seen>>
    BY <1>3 DEF BeginRemoveItem
  <2> QED
    BY <2>1, <2>2, <2>3, StartType DEF LockingOps
<1>4. CASE BeginSetItemStock(p)
  <2>1. PICK i \in ItemIds, b \in BOOLEAN :
           Start(p, [op |-> "setItemStock", item |-> i, inStock |-> b], "lock")
    BY <1>4 DEF BeginSetItemStock
  <2>2. [op |-> "setItemStock", item |-> i, inStock |-> b] \in Calls
    BY DEF Calls
  <2>3. UNCHANGED <<requestVars, orders, rowLock, seen>>
    BY <1>4 DEF BeginSetItemStock
  <2> QED
    BY <2>1, <2>2, <2>3, StartType DEF LockingOps
<1>5. CASE BeginEditItem(p)
  <2>1. PICK i \in ItemIds :
           Start(p, [op |-> "editItem", item |-> i], "lock")
    BY <1>5 DEF BeginEditItem
  <2>2. [op |-> "editItem", item |-> i] \in Calls
    BY DEF Calls
  <2>3. UNCHANGED <<requestVars, orders, rowLock, seen>>
    BY <1>5 DEF BeginEditItem
  <2> QED
    BY <2>1, <2>2, <2>3, StartType DEF LockingOps
<1>6. CASE BeginRemoveRequest(p)
  <2>1. Start(p, [op |-> "removeRequest"], "write")
    BY <1>6 DEF BeginRemoveRequest
  <2>2. [op |-> "removeRequest"] \in Calls
    BY DEF Calls
  <2>3. UNCHANGED <<requestVars, orders, rowLock, seen>>
    BY <1>6 DEF BeginRemoveRequest
  <2> QED
    BY <2>1, <2>2, <2>3, StartType DEF LockingOps
<1>7. CASE BeginRestoreRequest(p)
  <2>1. Start(p, [op |-> "restoreRequest"], "write")
    BY <1>7 DEF BeginRestoreRequest
  <2>2. [op |-> "restoreRequest"] \in Calls
    BY DEF Calls
  <2>3. UNCHANGED <<requestVars, orders, rowLock, seen>>
    BY <1>7 DEF BeginRestoreRequest
  <2> QED
    BY <2>1, <2>2, <2>3, StartType DEF LockingOps
<1>8. CASE BeginUpdateStatus(p)
  <2>1. PICK to \in ALLOWED_TRANSITIONS[status], approver \in BOOLEAN :
           Start(p, [op |-> "updateStatus", to |-> to, approver |-> approver],
                 IF to = "APPROVED" THEN "total" ELSE "write")
    BY <1>8 DEF BeginUpdateStatus
  <2>2. to \in RequestStatus
    BY DEF Base, Typed, RequestType, RequestStatus, ALLOWED_TRANSITIONS
  <2>3. [op |-> "updateStatus", to |-> to, approver |-> approver] \in Calls
    BY <2>2 DEF Calls
  <2>4. UNCHANGED <<requestVars, orders, rowLock, seen>>
    BY <1>8 DEF BeginUpdateStatus
  <2>5. CASE to = "APPROVED"
    BY <2>1, <2>3, <2>4, <2>5, StartType
  <2>6. CASE to # "APPROVED"
    BY <2>1, <2>3, <2>4, <2>6, StartType DEF LockingOps
  <2> QED
    BY <2>5, <2>6
<1>9. CASE BeginUpdateQuote(p)
  <2>1. [op |-> "updateQuote"] \in Calls
    BY DEF Calls
  <2>2. RequestType' /\ OrderType'
    BY <1>9 DEF BeginUpdateQuote, Base, Typed, RequestType, OrderType, requestVars
  <2>3. ProcType'
    BY <1>9, <2>1 DEF BeginUpdateQuote, Start, Base, Typed, ProcType, RequestType
  <2>4. \A q \in Procs :
           /\ q # p => pc'[q] = pc[q] /\ call'[q] = call[q] /\ seen'[q] = seen[q]
           /\ q = p => pc'[q] = "write" /\ call'[q].op \notin LockingOps
    BY <1>9 DEF BeginUpdateQuote, Start, Base, Typed, ProcType, LockingOps
  <2>5. Stages'
    BY <1>9, <2>4 DEF BeginUpdateQuote, Base, Stages, Locked, Decides, requestVars
  <2>6. Balance => Balance'
    BY <1>9, <2>4
    DEF BeginUpdateQuote, Balance, BalanceRead, WithinRequested, Decides, Bought, requestVars
  <2> QED
    BY <2>2, <2>3, <2>5, <2>6 DEF Typed, Base, Preserved
<1> QED
  BY <1>1, <1>2, <1>3, <1>4, <1>5, <1>6, <1>7, <1>8, <1>9

(* The steps that lock and read.                                           *)
LEMMA ReadType ==
    ASSUME Base, NEW p \in Procs, AcquireLock(p) \/ ReadBalance(p) \/ ReadTotal(p)
    PROVE  Preserved
<1>1. CASE AcquireLock(p)
  <2>1. Typed'
    BY <1>1 DEF AcquireLock, Base, Typed, ProcType, RequestType, OrderType, requestVars
  <2>2. \A q \in Procs : /\ ~Locked(q)
                         /\ q # p => pc'[q] = pc[q]
                         /\ q = p => pc'[q] = "locked"
    BY <1>1, FreeAssumption DEF AcquireLock, Base, Typed, ProcType, Stages, Locked
  <2>3. Stages'
    BY <1>1, <2>2 DEF AcquireLock, Base, Stages, Locked, Decides, requestVars
  <2>4. Balance => Balance'
    BY <1>1, <2>2
    DEF AcquireLock, Balance, BalanceRead, WithinRequested, Decides, Bought, requestVars
  <2> QED
    BY <2>1, <2>3, <2>4 DEF Preserved, Base
<1>2. CASE ReadBalance(p)
  <2> DEFINE read == [rows   |-> items,
                      bought |-> [i \in ItemIds |-> Bought(i, Excluded(call[p]))]]
  <2>1. \A i \in ItemIds : Bought(i, Excluded(call[p])) \in Nat
    BY UnitsFinite DEF Bought
  <2>2. read \in [rows: [ItemIds -> Rows \cup {NoRow}], bought: [ItemIds -> Nat]]
    BY <2>1 DEF Base, Typed, RequestType
  <2>3. Typed'
    BY <1>2, <2>2 DEF ReadBalance, Base, Typed, ProcType, RequestType, OrderType, requestVars
  <2>4. /\ \A q \in Procs \ {p} : pc'[q] = pc[q] /\ seen'[q] = seen[q]
        /\ pc'[p] = "write"
        /\ seen'[p].rows = items
        /\ \A i \in ItemIds : seen'[p].bought[i] = Bought(i, Excluded(call[p]))
    BY <1>2 DEF ReadBalance, Base, Typed, ProcType
  <2>5. rowLock = p /\ rowLock' = rowLock /\ call' = call /\ items' = items /\ orders' = orders
    BY <1>2 DEF ReadBalance, Base, Stages, Locked, requestVars
  <2>6. Stages'
    BY <2>4, <2>5 DEF Base, Stages, Locked, Decides
  <2>7. ASSUME Balance PROVE Balance'
    <3>1. ASSUME NEW q \in Procs, Decides(q)', NEW i \in ItemIds
          PROVE  (Bought(i, Excluded(call[q])) <= seen[q].bought[i])'
      <4>1. CASE q = p
        BY <2>1, <2>4, <2>5, <4>1 DEF Bought
      <4>2. CASE q # p
        BY <2>4, <2>5, <2>7, <3>1, <4>2 DEF Balance, BalanceRead, Decides, Bought
      <4> QED
        BY <4>1, <4>2
    <3> QED
      BY <2>5, <2>7, <3>1 DEF Balance, BalanceRead, WithinRequested, Bought
  <2> QED
    BY <2>3, <2>6, <2>7 DEF Preserved, Base
<1>3. CASE ReadTotal(p)
  <2>1. Typed'
    BY <1>3 DEF ReadTotal, Base, Typed, ProcType, RequestType, OrderType, requestVars
  <2>2. \A q \in Procs : /\ q # p => pc'[q] = pc[q] /\ seen'[q] = seen[q]
                         /\ q = p => pc'[q] = "write" /\ call[q].op \notin LockingOps
    BY <1>3 DEF ReadTotal, Base, Typed, ProcType, Stages, LockingOps
  <2>3. Stages'
    BY <1>3, <2>2 DEF ReadTotal, Base, Stages, Locked, Decides, requestVars
  <2>4. Balance => Balance'
    BY <1>3, <2>2
    DEF ReadTotal, Balance, BalanceRead, WithinRequested, Decides, Bought, requestVars
  <2> QED
    BY <2>1, <2>3, <2>4 DEF Preserved, Base
<1> QED
  BY <1>1, <1>2, <1>3

-----------------------------------------------------------------------------
(* A call that ends.                                                       *)

LEMMA FinishFrame ==
    ASSUME Base, NEW p \in Procs, Finish(p)
    PROVE  \A q \in Procs :
             /\ q = p => pc'[q] = "idle"
             /\ q # p => /\ pc'[q] = pc[q] /\ call'[q] = call[q] /\ seen'[q] = seen[q]
                         /\ rowLock = q => rowLock' = q
BY DEF Base, Typed, ProcType, Finish

(* Only the holder of the lock, or nobody, decides while the rows change.  *)
LEMMA FinishStages ==
    ASSUME Base, NEW p \in Procs, Finish(p), rowLock \in {p, Free} \/ items' = items
    PROVE  Stages'
<1>1. \A q \in Procs : q # p => (Locked(q)' => Locked(q)) /\ (Decides(q)' => Decides(q))
  BY FinishFrame DEF Locked, Decides
<1>2. \A q \in Procs : ~Locked(p)' /\ ~Decides(p)' /\ pc'[p] # "total"
  BY FinishFrame DEF Locked, Decides
<1>3. \A q \in Procs : Decides(q) => Locked(q)
  BY DEF Locked, Decides
<1>4. \A q \in Procs : q # p /\ Decides(q) => items' = items
  BY <1>3, FreeAssumption DEF Base, Stages
<1> QED
  BY <1>1, <1>2, <1>4, FinishFrame DEF Base, Stages

LEMMA ExcludedTyped ==
    ASSUME Typed, NEW p \in Procs
    PROVE  Excluded(call[p]) \in SUBSET OrderIds
BY CallShape DEF Typed, ProcType, Excluded

LEMMA FinishBalanceRead ==
    ASSUME Base, BalanceRead, NEW p \in Procs, Finish(p),
           \/ rowLock \in {p, Free}
           \/ \A i \in ItemIds, X \in SUBSET OrderIds :
                Cardinality(UnitsOf(orders', i, X)) <= Cardinality(UnitsOf(orders, i, X))
    PROVE  BalanceRead'
<1> SUFFICES ASSUME NEW q \in Procs, Decides(q)', NEW i \in ItemIds
             PROVE  (Bought(i, Excluded(call[q])) <= seen[q].bought[i])'
  BY DEF BalanceRead
<1>1. q # p /\ Decides(q) /\ call'[q] = call[q] /\ seen'[q] = seen[q]
  BY FinishFrame DEF Decides
<1>2. rowLock \notin {p, Free}
  BY <1>1, FreeAssumption DEF Base, Stages, Locked, Decides
<1>3. Excluded(call[q]) \in SUBSET OrderIds
  BY ExcludedTyped DEF Base
<1>4. Cardinality(UnitsOf(orders', i, Excluded(call[q]))) <= Bought(i, Excluded(call[q]))
  BY <1>2, <1>3 DEF Bought
<1>5. Bought(i, Excluded(call[q])) <= seen[q].bought[i]
  BY <1>1 DEF BalanceRead
<1>6. seen[q].bought[i] \in Nat
  BY DEF Base, Typed, ProcType
<1>7. Cardinality(UnitsOf(orders', i, Excluded(call[q]))) <= seen[q].bought[i]
  BY <1>4, <1>5, <1>6, UnitsFinite DEF Bought
<1> QED
  BY <1>1, <1>7 DEF Bought
(* No purchase is added: the balance stands.                               *)
LEMMA ShrinkBalance ==
    ASSUME Base, Balance, NEW p \in Procs, Finish(p), items' = items,
           \A o \in OrderIds : Counts(orders'[o]) =>
               Counts(orders[o]) /\ orders'[o].lines = orders[o].lines
    PROVE  Balance'
<1>1. \A i \in ItemIds, X \in SUBSET OrderIds :
          Cardinality(UnitsOf(orders', i, X)) <= Cardinality(UnitsOf(orders, i, X))
  BY UnitsShrink
<1>2. BalanceRead'
  BY <1>1, FinishBalanceRead DEF Balance
<1>3. \A i \in ItemIds : Cardinality(UnitsOf(orders', i, {})) <= Bought(i, {})
  BY <1>1 DEF Bought
<1>4. \A i \in ItemIds : items[i].quantity \in Nat
  BY RowShape DEF Base, Typed, RequestType
<1>5. WithinRequested'
  BY <1>3, <1>4, UnitsFinite DEF Balance, WithinRequested, Bought
<1> QED
  BY <1>2, <1>5 DEF Balance

(* An order that takes its lines after a balance read under the lock.      *)
LEMMA TakeBalance ==
    ASSUME Base, Balance, NEW p \in Procs, Decides(p), Finish(p), items' = items,
           NEW o \in OrderIds, NEW new \in Orders,
           Excluded(call[p]) \subseteq {o},
           call[p].lines \in Lines, new.lines = call[p].lines,
           WithinPending(call[p], seen[p].rows, seen[p].bought),
           orders' = [orders EXCEPT ![o] = new]
    PROVE  Balance'
<1>1. rowLock = p /\ seen[p].rows = items
  BY DEF Base, Stages, Locked, Decides
<1>2. BalanceRead'
  BY <1>1, FinishBalanceRead DEF Balance
<1>3. ASSUME NEW i \in ItemIds
      PROVE  /\ Cardinality(UnitsOf(orders', i, {})) <= items[i].quantity
             /\ items[i].inStock => Cardinality(UnitsOf(orders', i, {})) = 0
  <2> DEFINE n      == new.lines[i]
             others == Cardinality(UnitsOf(orders, i, {o}))
             now    == Cardinality(UnitsOf(orders', i, {}))
  <2>1. n \in Nat
    BY MaxQtyAssumption DEF Lines
  <2>2. /\ orders'[o] = new
        /\ \A other \in OrderIds \ {o} : orders'[other] = orders[other]
    BY DEF Base, Typed, OrderType
  <2>3. now <= others + n
    BY <2>1, <2>2, UnitsGrow
  <2>4. others <= Bought(i, Excluded(call[p]))
    BY UnitsShrink DEF Bought
  <2>5. Bought(i, Excluded(call[p])) <= seen[p].bought[i]
    BY DEF Balance, BalanceRead
  <2>6. others <= Bought(i, {})
    BY UnitsShrink DEF Bought
  <2>7. /\ Bought(i, {}) <= items[i].quantity
        /\ items[i].inStock => Bought(i, {}) = 0
    BY DEF Balance, WithinRequested
  <2>8. /\ now \in Nat /\ others \in Nat /\ Bought(i, {}) \in Nat
        /\ Bought(i, Excluded(call[p])) \in Nat
    BY UnitsFinite DEF Bought
  <2>9. items[i].quantity \in Nat /\ seen[p].bought[i] \in Nat
    BY RowShape DEF Base, Typed, ProcType, RequestType
  <2>10. CASE n = 0
    BY <2>3, <2>6, <2>7, <2>8, <2>9, <2>10
  <2>11. CASE n > 0
    <3>1. ~items[i].inStock /\ n <= pendingOf(items[i].quantity, seen[p].bought[i])
      BY <1>1, <2>11 DEF WithinPending
    <3>2. n + seen[p].bought[i] <= items[i].quantity
      BY <2>1, <2>9, <2>11, <3>1 DEF pendingOf
    <3> QED
      BY <2>1, <2>3, <2>4, <2>5, <2>8, <2>9, <3>1, <3>2
  <2> QED
    BY <2>1, <2>10, <2>11
<1> QED
  BY <1>2, <1>3 DEF Balance, WithinRequested, Bought

(* A row changes only while nobody is buying it.                           *)
LEMMA RowsBalance ==
    ASSUME Base, Balance, NEW p \in Procs, Finish(p), rowLock \in {p, Free},
           orders' = orders, RequestType',
           \A i \in ItemIds :
               \/ items'[i].quantity = items[i].quantity /\ items'[i].inStock = items[i].inStock
               \/ Bought(i, {}) = 0
    PROVE  Balance'
<1>1. BalanceRead'
  BY FinishBalanceRead DEF Balance
<1>2. \A i \in ItemIds : items'[i].quantity \in Nat
  BY RowShape DEF RequestType
<1>3. WithinRequested'
  BY <1>2 DEF Balance, WithinRequested, Bought
<1> QED
  BY <1>1, <1>3 DEF Balance

LEMMA AbortStep ==
    ASSUME Base, NEW p \in Procs, Abort(p)
    PROVE  Preserved
<1>1. Finish(p) /\ items' = items /\ orders' = orders
  BY DEF Abort, requestVars
<1>2. Typed'
  BY <1>1, FinishType DEF Abort, Base, Typed, RequestType, OrderType, requestVars
<1>3. Stages'
  BY <1>1, FinishStages
<1>4. Balance => Balance'
  BY <1>1, ShrinkBalance
<1> QED
  BY <1>2, <1>3, <1>4 DEF Preserved, Base

-----------------------------------------------------------------------------
(* The steps that write an order.                                          *)

LEMMA WriteOrder ==
    ASSUME Base, NEW p \in Procs,
           NEW o \in OrderIds, NEW new \in Orders,
           Finish(p), UNCHANGED requestVars, orders' = [orders EXCEPT ![o] = new]
    PROVE  Base'
<1>1. Typed'
  BY FinishType, OneOrderType DEF Base, Typed, RequestType, requestVars
<1>2. Stages'
  BY FinishStages DEF requestVars
<1> QED
  BY <1>1, <1>2 DEF Base

(* Without the lock: an order that begins to count revives.                *)
LEMMA OverwriteStep ==
    ASSUME Base, NEW p \in Procs, NEW o \in OrderIds, NEW new \in Orders,
           new.lines = orders[o].lines, Overwrite(p, o, new),
           ~Counts(new) \/ At(p, "patch") \/ At(p, "restoreOrder")
    PROVE  Preserved
<1>1. Base'
  BY WriteOrder DEF Overwrite
<1>2. ASSUME Balance, ~Revives PROVE Balance'
  <2>1. Counts(new) => Counts(orders[o])
    <3>1. pc'[p] = "idle"
      BY FinishFrame DEF Overwrite
    <3>2. orders'[o] = new
      BY DEF Overwrite, Base, Typed, OrderType
    <3> QED
      BY <1>2, <3>1, <3>2 DEF Revives
  <2>2. \A other \in OrderIds : Counts(orders'[other]) =>
            Counts(orders[other]) /\ orders'[other].lines = orders[other].lines
    BY <2>1 DEF Overwrite, Base, Typed, OrderType
  <2> QED
    BY <1>2, <2>2, ShrinkBalance DEF Overwrite, requestVars
<1> QED
  BY <1>1, <1>2 DEF Preserved

LEMMA WriteOrderStep ==
    ASSUME Base, NEW p \in Procs,
           \/ CommitCreate(p) \/ CommitReline(p) \/ CommitPatch(p)
           \/ CommitCancelOrder(p) \/ CommitRemoveOrder(p) \/ CommitRestoreOrder(p)
    PROVE  Preserved
<1> DEFINE c == call[p]
<1>1. c \in Calls
  BY DEF Base, Typed, ProcType
<1>2. orders \in [OrderIds -> Orders]
  BY DEF Base, Typed, OrderType
<1>3. CASE CommitCreate(p)
  <2> DEFINE new == [status |-> c.status, deleted |-> FALSE, lines |-> c.lines]
  <2>1. c.op = "create" /\ Decides(p)
    BY <1>3 DEF CommitCreate, At, Decides, LockingOps
  <2>2. c.order \in OrderIds /\ c.lines \in Lines /\ c.status \in OrderStatus
    BY <1>1, <2>1, CallShape
  <2>3. new \in Orders
    BY <2>2 DEF Orders
  <2>4. /\ orders' = [orders EXCEPT ![c.order] = new]
        /\ Finish(p) /\ UNCHANGED requestVars
        /\ WithinPending(c, seen[p].rows, seen[p].bought)
    BY <1>3 DEF CommitCreate
  <2>5. Base'
    BY <2>2, <2>3, <2>4, WriteOrder
  <2>6. Excluded(c) \subseteq {c.order}
    BY DEF Excluded
  <2>7. Balance => Balance'
    BY <2>1, <2>2, <2>3, <2>4, <2>6, TakeBalance DEF requestVars
  <2> QED
    BY <2>5, <2>7 DEF Preserved
<1>4. CASE CommitReline(p)
  <2>1. c.op = "reline" /\ Decides(p)
    BY <1>4 DEF CommitReline, At, Decides, LockingOps
  <2>2. c.order \in OrderIds /\ c.lines \in Lines /\ c.status \in OrderStatus \cup {"KEEP"}
    BY <1>1, <2>1, CallShape
  <2>3. PICK st \in OrderStatus \cup {"NONE"} :
            orders' = [orders EXCEPT ![c.order] =
                          [orders[c.order] EXCEPT !.status = st, !.lines = c.lines]]
    BY <1>2, <1>4, <2>2 DEF CommitReline, Orders
  <2> DEFINE new == [orders[c.order] EXCEPT !.status = st, !.lines = c.lines]
  <2>4. new \in Orders /\ new.lines = c.lines
    BY <1>2, <2>2 DEF Orders
  <2>5. /\ Finish(p) /\ UNCHANGED requestVars
        /\ WithinPending(c, seen[p].rows, seen[p].bought)
    BY <1>4 DEF CommitReline
  <2>6. Base'
    BY <2>2, <2>3, <2>4, <2>5, WriteOrder
  <2>7. Excluded(c) \subseteq {c.order}
    BY DEF Excluded
  <2>8. Balance => Balance'
    BY <2>1, <2>2, <2>3, <2>4, <2>5, <2>7, TakeBalance DEF requestVars
  <2> QED
    BY <2>6, <2>8 DEF Preserved
<1>5. CASE CommitPatch(p)
  <2> DEFINE new == [orders[c.order] EXCEPT !.status = c.status]
  <2>1. c.order \in OrderIds /\ c.status \in OrderStatus
    BY <1>5, <1>1, CallShape DEF CommitPatch, At
  <2>2. new \in Orders /\ new.lines = orders[c.order].lines
    BY <2>1, <1>2 DEF Orders, OrderStatus
  <2>3. Overwrite(p, c.order, new) /\ At(p, "patch")
    BY <1>5 DEF CommitPatch
  <2> QED
    BY <2>1, <2>2, <2>3, OverwriteStep
<1>6. CASE CommitCancelOrder(p)
  <2> DEFINE new == [orders[c.order] EXCEPT !.status = "CANCELLED"]
  <2>1. c.order \in OrderIds
    BY <1>6, <1>1, CallShape DEF CommitCancelOrder, At
  <2>2. new \in Orders /\ new.lines = orders[c.order].lines
    BY <2>1, <1>2 DEF Orders, OrderStatus
  <2>3. Overwrite(p, c.order, new) /\ ~Counts(new)
    BY <1>2, <1>6, <2>1, StatusAssumption DEF CommitCancelOrder, Counts, Orders
  <2> QED
    BY <2>1, <2>2, <2>3, OverwriteStep
<1>7. CASE CommitRemoveOrder(p)
  <2> DEFINE new == [orders[c.order] EXCEPT !.deleted = TRUE]
  <2>1. c.order \in OrderIds
    BY <1>7, <1>1, CallShape DEF CommitRemoveOrder, At
  <2>2. new \in Orders /\ new.lines = orders[c.order].lines
    BY <2>1, <1>2 DEF Orders, OrderStatus
  <2>3. Overwrite(p, c.order, new) /\ ~Counts(new)
    BY <1>2, <1>7, <2>1 DEF CommitRemoveOrder, Counts, Orders
  <2> QED
    BY <2>1, <2>2, <2>3, OverwriteStep
<1>8. CASE CommitRestoreOrder(p)
  <2> DEFINE new == [orders[c.order] EXCEPT !.deleted = FALSE]
  <2>1. c.order \in OrderIds
    BY <1>8, <1>1, CallShape DEF CommitRestoreOrder, At
  <2>2. new \in Orders /\ new.lines = orders[c.order].lines
    BY <2>1, <1>2 DEF Orders, OrderStatus
  <2>3. Overwrite(p, c.order, new) /\ At(p, "restoreOrder")
    BY <1>8 DEF CommitRestoreOrder
  <2> QED
    BY <2>1, <2>2, <2>3, OverwriteStep
<1> QED
  BY <1>3, <1>4, <1>5, <1>6, <1>7, <1>8
-----------------------------------------------------------------------------
(* The steps that write the request or its rows.                           *)

LEMMA RowsStep ==
    ASSUME Base, NEW p \in Procs, Finish(p), rowLock \in {p, Free},
           orders' = orders, RequestType',
           Balance => \A i \in ItemIds :
               \/ items'[i].quantity = items[i].quantity /\ items'[i].inStock = items[i].inStock
               \/ Bought(i, {}) = 0
    PROVE  Preserved
<1>1. Typed'
  BY FinishType DEF Base, Typed, OrderType
<1>2. Stages'
  BY FinishStages
<1>3. Balance => Balance'
  BY RowsBalance
<1> QED
  BY <1>1, <1>2, <1>3 DEF Preserved, Base

(* A row that is not there, or that no order points at, is not bought.     *)
LEMMA NotBought ==
    ASSUME Base, NEW i \in ItemIds
    PROVE  /\ Balance /\ ~items[i].exists => Bought(i, {}) = 0
           /\ ~Referenced(i) => Bought(i, {}) = 0
<1>1. ASSUME Balance, ~items[i].exists PROVE Bought(i, {}) = 0
  <2>1. items[i].quantity = 0
    BY <1>1, RowShape DEF Base, Typed, RequestType
  <2>2. Bought(i, {}) <= 0 /\ Bought(i, {}) \in Nat
    BY <1>1, <2>1, UnitsFinite DEF Balance, WithinRequested, Bought
  <2> QED
    BY <2>2
<1>2. ASSUME ~Referenced(i) PROVE Bought(i, {}) = 0
  <2>1. \A o \in OrderIds : orders[o].lines[i] \in Nat
    BY MaxQtyAssumption DEF Base, Typed, OrderType, Orders, Lines
  <2> QED
    BY <1>2, <2>1, UnitsOfUnreferenced DEF Referenced, Bought
<1> QED
  BY <1>1, <1>2

(* What a handler that decides under the lock knows.                       *)
LEMMA UnderLock ==
    ASSUME Base, NEW p \in Procs, Decides(p), call[p].op # "reline"
    PROVE  /\ rowLock = p
           /\ seen[p].rows = items
           /\ Balance => \A i \in ItemIds :
                NotPurchased(i, seen[p].bought) => Bought(i, {}) = 0
<1>1. rowLock = p /\ seen[p].rows = items
  BY DEF Base, Stages, Locked, Decides
<1>2. ASSUME Balance, NEW i \in ItemIds, seen[p].bought[i] = 0
      PROVE  Bought(i, {}) = 0
  <2>1. Bought(i, {}) <= 0
    BY <1>2 DEF Balance, BalanceRead, Excluded
  <2> QED
    BY <2>1, UnitsFinite DEF Bought
<1> QED
  BY <1>1, <1>2 DEF NotPurchased

LEMMA StatusStep ==
    ASSUME Base, NEW p \in Procs,
           CommitUpdateStatus(p) \/ CommitRemoveRequest(p) \/ CommitRestoreRequest(p)
    PROVE  Preserved
<1>1. Finish(p) /\ rowLock = Free /\ orders' = orders /\ items' = items
  BY DEF CommitUpdateStatus, CommitRemoveRequest, CommitRestoreRequest
<1>2. CASE CommitUpdateStatus(p)
  <2>1. call[p].to \in RequestStatus
    BY <1>2, CallShape DEF CommitUpdateStatus, At, Base, Typed, ProcType
  <2>2. RequestType'
    BY <1>1, <1>2, <2>1, NothingTyped
    DEF CommitUpdateStatus, Base, Typed, ProcType, RequestType
  <2> QED
    BY <1>1, <2>2, RowsStep
<1>3. CASE CommitRemoveRequest(p) \/ CommitRestoreRequest(p)
  <2>1. RequestType'
    BY <1>1, <1>3 DEF CommitRemoveRequest, CommitRestoreRequest, Base, Typed, RequestType
  <2> QED
    BY <1>1, <2>1, RowsStep
<1> QED
  BY <1>2, <1>3

LEMMA NewRowsStep ==
    ASSUME Base, NEW p \in Procs, CommitUpdateDraft(p) \/ CommitAddItems(p)
    PROVE  Preserved
<1>1. /\ Finish(p) /\ rowLock = Free /\ orders' = orders
      /\ UNCHANGED <<status, removed, approved>>
  BY DEF CommitUpdateDraft, CommitAddItems
<1>2. CASE CommitUpdateDraft(p)
  <2>1. RequestType'
    BY <1>1, <1>2, NothingTyped DEF CommitUpdateDraft, Base, Typed, RequestType
  <2>2. Balance => \A i \in ItemIds : Bought(i, {}) = 0
    BY <1>2, NotBought DEF CommitUpdateDraft, Existing
  <2> QED
    BY <1>1, <2>1, <2>2, RowsStep
<1>3. CASE CommitAddItems(p)
  <2>1. PICK rows \in Drafts :
           /\ \A i \in Existing(rows) : ~items[i].exists
           /\ items' = [i \in ItemIds |-> IF rows[i].exists THEN rows[i] ELSE items[i]]
    BY <1>3 DEF CommitAddItems
  <2>2. RequestType'
    BY <1>1, <2>1, NothingTyped DEF Base, Typed, RequestType
  <2>3. \A i \in ItemIds : items'[i] = items[i] \/ ~items[i].exists
    BY <2>1 DEF Existing
  <2>4. Balance => \A i \in ItemIds :
           \/ items'[i].quantity = items[i].quantity /\ items'[i].inStock = items[i].inStock
           \/ Bought(i, {}) = 0
    BY <2>3, NotBought
  <2> QED
    BY <1>1, <2>2, <2>4, RowsStep
<1> QED
  BY <1>2, <1>3

LEMMA OneRowStep ==
    ASSUME Base, NEW p \in Procs,
           CommitRemoveItem(p) \/ CommitSetItemStock(p) \/ CommitEditItem(p)
    PROVE  Preserved
<1> DEFINE i == call[p].item
<1>1. Finish(p) /\ orders' = orders /\ removed' = removed
  BY DEF CommitRemoveItem, CommitSetItemStock, CommitEditItem
<1>2. Decides(p) /\ call[p].op # "reline" /\ i \in ItemIds
  BY CallShape DEF CommitRemoveItem, CommitSetItemStock, CommitEditItem, At, Decides,
                   LockingOps, Base, Typed, ProcType
<1>3. /\ rowLock = p
      /\ seen[p].rows = items
      /\ Balance /\ NotPurchased(i, seen[p].bought) => Bought(i, {}) = 0
  BY <1>2, UnderLock
<1>4. items \in [ItemIds -> Rows \cup {NoRow}]
  BY DEF Base, Typed, RequestType
<1>5. CASE CommitRemoveItem(p)
  <2>1. items' = [items EXCEPT ![i] = NoRow] /\ NotPurchased(i, seen[p].bought)
    BY <1>5 DEF CommitRemoveItem
  <2>2. RequestType'
    BY <1>1, <1>2, <1>4, <1>5, <2>1 DEF CommitRemoveItem, Base, Typed, RequestType
  <2> QED
    BY <1>1, <1>2, <1>3, <1>4, <2>1, <2>2, RowsStep
<1>6. CASE CommitSetItemStock(p)
  <2> DEFINE b   == call[p].inStock
             row == [items[i] EXCEPT !.inStock = b, !.price = IF b THEN 0 ELSE items[i].price]
  <2>1. /\ items' = [items EXCEPT ![i] = row]
        /\ items[i] \in Rows
        /\ items[i].inStock # b
        /\ b => NotPurchased(i, seen[p].bought)
    BY <1>2, <1>3, <1>4, <1>6, RowShape DEF CommitSetItemStock, Existing
  <2>2. b \in BOOLEAN
    BY <1>6, CallShape DEF CommitSetItemStock, At, Base, Typed, ProcType
  <2>3. row \in Rows /\ row.inStock = b
    BY <2>1, <2>2, PricesAssumption DEF Rows
  <2>4. RequestType'
    BY <1>1, <1>2, <1>4, <1>6, <2>1, <2>3 DEF CommitSetItemStock, Base, Typed, RequestType
  <2>5. Balance => Bought(i, {}) = 0
    BY <1>2, <1>3, <2>1, <2>2 DEF Balance, WithinRequested, Rows
  <2> QED
    BY <1>1, <1>2, <1>3, <1>4, <2>1, <2>4, <2>5, RowsStep
<1>7. CASE CommitEditItem(p)
  <2>1. PICK quantity \in 1..MaxQty, otherMaterial \in BOOLEAN :
           items' = [items EXCEPT ![i] =
                        [items[i] EXCEPT !.quantity = quantity,
                             !.price = IF otherMaterial THEN 0 ELSE items[i].price]]
    BY <1>7, <1>2, <1>4 DEF CommitEditItem
  <2> DEFINE row == [items[i] EXCEPT !.quantity = quantity,
                         !.price = IF otherMaterial THEN 0 ELSE items[i].price]
  <2>2. items[i] \in Rows /\ NotPurchased(i, seen[p].bought)
    BY <1>2, <1>3, <1>4, <1>7, RowShape DEF CommitEditItem, Existing
  <2>3. row \in Rows
    BY <2>2, PricesAssumption DEF Rows
  <2>4. status' \in RequestStatus /\ approved' \in [ItemIds -> Rows \cup {NoRow}]
    BY <1>7, NothingTyped DEF CommitEditItem, Base, Typed, RequestType, RequestStatus
  <2>5. RequestType'
    BY <1>1, <1>2, <1>4, <2>1, <2>3, <2>4 DEF Base, Typed, RequestType
  <2> QED
    BY <1>1, <1>2, <1>3, <1>4, <2>1, <2>2, <2>5, RowsStep
<1> QED
  BY <1>5, <1>6, <1>7

LEMMA QuoteStep ==
    ASSUME Base, NEW p \in Procs, CommitUpdateQuote(p)
    PROVE  Preserved
<1>1. /\ Finish(p) /\ rowLock = Free /\ orders' = orders
      /\ UNCHANGED <<status, removed, approved>>
  BY DEF CommitUpdateQuote
<1>2. PICK sent \in SUBSET ItemIds : \E price \in [sent -> Prices] :
          /\ \A i \in sent : items[i].exists
          /\ items' = [i \in ItemIds |->
                          IF i \in sent THEN [items[i] EXCEPT !.price = price[i]] ELSE items[i]]
  BY DEF CommitUpdateQuote, Existing
<1>3. PICK price \in [sent -> Prices] :
          /\ \A i \in sent : items[i].exists
          /\ items' = [i \in ItemIds |->
                          IF i \in sent THEN [items[i] EXCEPT !.price = price[i]] ELSE items[i]]
  BY <1>2
<1>4. \A i \in sent : items[i] \in Rows
  BY <1>3, RowShape DEF Base, Typed, RequestType
<1>5. \A i \in sent : /\ items'[i] \in Rows
                      /\ items'[i].quantity = items[i].quantity
                      /\ items'[i].inStock = items[i].inStock
  BY <1>3, <1>4 DEF Rows
<1>6. \A i \in ItemIds \ sent : items'[i] = items[i]
  BY <1>3
<1>7. RequestType'
  BY <1>1, <1>3, <1>5, <1>6 DEF Base, Typed, RequestType
<1> QED
  BY <1>1, <1>5, <1>6, <1>7, RowsStep
-----------------------------------------------------------------------------
(* The invariant.                                                          *)

LEMMA InitBalance == Init => Balance
<1> SUFFICES ASSUME Init PROVE Balance
  OBVIOUS
<1>1. \A o \in OrderIds : \A i \in ItemIds : orders[o].lines[i] = 0
  BY DEF Init, NoOrder, NoLines
<1>2. \A i \in ItemIds : Bought(i, {}) = 0
  BY <1>1, UnitsOfUnreferenced DEF Bought
<1>3. \A i \in ItemIds : items[i].quantity \in Nat
  BY InitBase, RowShape DEF Base, Typed, RequestType
<1>4. WithinRequested
  BY <1>2, <1>3 DEF WithinRequested
<1>5. BalanceRead
  BY DEF Init, BalanceRead, Decides
<1> QED
  BY <1>4, <1>5 DEF Balance

LEMMA NextStep ==
    ASSUME Base, [Next]_vars
    PROVE  /\ Base'
           /\ revived \in BOOLEAN => revived' \in BOOLEAN
           /\ (~revived => Balance) => (~revived => Balance)'
<1>1. CASE UNCHANGED vars
  <2>1. Base'
    BY <1>1 DEF vars, Base, Typed, ProcType, RequestType, OrderType, Stages, Locked, Decides
  <2>2. revived' = revived /\ (Balance => Balance')
    BY <1>1 DEF vars, Balance, BalanceRead, Decides, WithinRequested, Bought
  <2> QED
    BY <2>1, <2>2
<1>2. ASSUME NEW p \in Procs,
             AcquireLock(p) \/ ReadBalance(p) \/ Abort(p) \/ OrderStep(p) \/ RequestStep(p)
      PROVE  Preserved
  <2>1. CASE AcquireLock(p) \/ ReadBalance(p) \/ ReadTotal(p)
    BY <2>1, ReadType
  <2>2. CASE Abort(p)
    BY <2>2, AbortStep
  <2>3. CASE OrderStep(p)
    BY <2>3, BeginOrderType, WriteOrderStep DEF OrderStep
  <2>4. CASE RequestStep(p)
    BY <2>1, <2>4, BeginRequestType, StatusStep, NewRowsStep, OneRowStep, QuoteStep
    DEF RequestStep
  <2> QED
    BY <1>2, <2>1, <2>2, <2>3, <2>4
<1>3. CASE Next
  <2>1. Preserved /\ revived' = (revived \/ Revives)
    BY <1>2, <1>3 DEF Next
  <2> QED
    BY <2>1 DEF Preserved
<1> QED
  BY <1>1, <1>3

(* Every variable keeps its shape, whatever the handlers do and in         *)
(* whatever order their steps come.                                        *)
THEOREM TypeCorrect == Spec => []TypeOK
<1> DEFINE Inv == Base /\ revived \in BOOLEAN
<1>1. Init => Inv
  BY InitBase DEF Init
<1>2. Inv /\ [Next]_vars => Inv'
  BY NextStep
<1>3. Inv => TypeOK
  BY TypedIsTypeOK DEF Base
<1> QED
  BY <1>1, <1>2, <1>3, PTL DEF Spec

(* The inductive invariant: the balance holds until an order revives.      *)
IInv == Base /\ (~revived => Balance)

LEMMA InvariantHolds == Spec => []IInv
<1>1. Init => IInv
  BY InitBase, InitBalance DEF IInv
<1>2. IInv /\ [Next]_vars => IInv'
  BY NextStep DEF IInv
<1> QED
  BY <1>1, <1>2, PTL DEF Spec

(* The orders that count never buy more of a line than its quantity, nor   *)
(* anything of a line in stock: the lock on the request is enough, until   *)
(* an order comes back into the count without a balance check.             *)
THEOREM LineWithinRequested == Spec => []CheckedWithinRequested
<1>1. IInv => CheckedWithinRequested
  BY DEF IInv, Balance, CheckedWithinRequested
<1> QED
  BY <1>1, InvariantHolds, PTL

(* A handler that read the balance under the lock writes over the rows it  *)
(* read, and over no more purchases than it read.                          *)
THEOREM ReadUnderLockStaysValid == Spec => []ReadStaysValid
<1>1. IInv => ReadStaysValid
  BY DEF IInv, Base, Balance, BalanceRead, Stages, Locked, Decides, ReadStaysValid
<1> QED
  BY <1>1, InvariantHolds, PTL

-----------------------------------------------------------------------------
(* What a step does to the rows.                                           *)

(* No row is lost altogether, and a row that some order is buying keeps    *)
(* its quantity and stays out of stock.                                    *)
KeepsRows ==
    /\ Existing(items) # {} => Existing(items') # {}
    /\ Balance => \A i \in ItemIds : Bought(i, {}) > 0 =>
          /\ items'[i].exists
          /\ items'[i].quantity = items[i].quantity
          /\ ~items'[i].inStock

LEMMA BoughtRow ==
    ASSUME Base, Balance, NEW i \in ItemIds, Bought(i, {}) > 0
    PROVE  items[i].exists /\ ~items[i].inStock
<1>1. Bought(i, {}) # 0
  OBVIOUS
<1> QED
  BY <1>1, NotBought DEF Balance, WithinRequested

LEMMA SameRows ==
    ASSUME Base, items' = items
    PROVE  KeepsRows
BY BoughtRow DEF KeepsRows

LEMMA NewRowsKeep ==
    ASSUME Base, NEW p \in Procs, CommitUpdateDraft(p) \/ CommitAddItems(p)
    PROVE  KeepsRows
<1>1. CASE CommitUpdateDraft(p)
  <2>1. PICK rows \in Drafts \ {NoRows} : items' = rows
    BY <1>1 DEF CommitUpdateDraft
  <2>2. \E i \in ItemIds : rows[i] # NoRow
    BY <2>1 DEF Drafts, NoRows
  <2>3. \A i \in ItemIds : rows[i] # NoRow => rows[i].exists
    BY <2>1 DEF Drafts, Rows
  <2>4. Existing(items') # {}
    BY <2>1, <2>2, <2>3 DEF Existing
  <2>5. Balance => \A i \in ItemIds : ~(Bought(i, {}) > 0)
    <3>1. \A i \in ItemIds : Bought(i, {}) = 0 => ~(Bought(i, {}) > 0)
      OBVIOUS
    <3> QED
      BY <1>1, <3>1, NotBought DEF CommitUpdateDraft, Existing
  <2> QED
    BY <2>4, <2>5 DEF KeepsRows
<1>2. CASE CommitAddItems(p)
  <2>1. PICK rows \in Drafts :
           /\ \A i \in Existing(rows) : ~items[i].exists
           /\ items' = [i \in ItemIds |-> IF rows[i].exists THEN rows[i] ELSE items[i]]
    BY <1>2 DEF CommitAddItems
  <2>2. \A i \in ItemIds : items[i].exists => items'[i] = items[i]
    BY <2>1 DEF Existing
  <2> QED
    BY <2>2, BoughtRow DEF KeepsRows, Existing
<1> QED
  BY <1>1, <1>2

LEMMA OneRowKeeps ==
    ASSUME Base, NEW p \in Procs,
           CommitRemoveItem(p) \/ CommitSetItemStock(p) \/ CommitEditItem(p)
    PROVE  KeepsRows
<1> DEFINE i == call[p].item
<1>1. Decides(p) /\ call[p].op # "reline" /\ i \in ItemIds
  BY CallShape DEF CommitRemoveItem, CommitSetItemStock, CommitEditItem, At, Decides,
                   LockingOps, Base, Typed, ProcType
<1>2. /\ seen[p].rows = items
      /\ Balance /\ NotPurchased(i, seen[p].bought) => Bought(i, {}) = 0
  BY <1>1, UnderLock
<1>3. items \in [ItemIds -> Rows \cup {NoRow}]
  BY DEF Base, Typed, RequestType
<1>4. i \in Existing(items)
  BY <1>1, <1>2 DEF CommitRemoveItem, CommitSetItemStock, CommitEditItem
<1>5. \A j \in ItemIds : j # i => items'[j] = items[j]
  BY <1>1, <1>3 DEF CommitRemoveItem, CommitSetItemStock, CommitEditItem
<1>6. Existing(items') # {}
  <2>1. CASE CommitRemoveItem(p)
    BY <1>2, <1>4, <1>5, <2>1 DEF CommitRemoveItem, Existing
  <2>2. CASE CommitSetItemStock(p)
    BY <1>1, <1>3, <1>4, <2>2, RowShape DEF CommitSetItemStock, Existing, Rows
  <2>3. CASE CommitEditItem(p)
    <3>1. PICK quantity \in 1..MaxQty, otherMaterial \in BOOLEAN :
             items' = [items EXCEPT ![i] =
                          [items[i] EXCEPT !.quantity = quantity,
                               !.price = IF otherMaterial THEN 0 ELSE items[i].price]]
      BY <1>1, <1>3, <2>3 DEF CommitEditItem
    <3>2. items[i] \in Rows
      BY <1>1, <1>3, <1>4, RowShape DEF Existing
    <3>3. items'[i].exists
      BY <1>1, <1>3, <3>1, <3>2 DEF Rows
    <3> QED
      BY <1>1, <3>3 DEF Existing
  <2> QED
    BY <2>1, <2>2, <2>3
<1>7. ASSUME Balance PROVE Bought(i, {}) = 0
  <2>1. CASE CommitRemoveItem(p) \/ CommitEditItem(p)
    BY <1>2, <1>7, <2>1 DEF CommitRemoveItem, CommitEditItem
  <2>2. CASE CommitSetItemStock(p)
    <3>1. call[p].inStock \in BOOLEAN
      BY <2>2, CallShape DEF CommitSetItemStock, At, Base, Typed, ProcType
    <3>2. items[i].inStock \/ NotPurchased(i, seen[p].bought)
      BY <1>1, <1>2, <1>3, <2>2, <3>1, RowShape DEF CommitSetItemStock, Existing, Rows
    <3> QED
      BY <1>1, <1>2, <1>7, <3>2 DEF Balance, WithinRequested
  <2> QED
    BY <2>1, <2>2
<1>8. Balance => ~(Bought(i, {}) > 0)
  BY <1>7
<1> QED
  BY <1>5, <1>6, <1>8, BoughtRow DEF KeepsRows

LEMMA QuoteKeeps ==
    ASSUME Base, NEW p \in Procs, CommitUpdateQuote(p)
    PROVE  KeepsRows
<1>1. PICK sent \in SUBSET ItemIds : \E price \in [sent -> Prices] :
          /\ \A i \in sent : items[i].exists
          /\ items' = [i \in ItemIds |->
                          IF i \in sent THEN [items[i] EXCEPT !.price = price[i]] ELSE items[i]]
  BY DEF CommitUpdateQuote, Existing
<1>2. \A i \in sent : items[i] \in Rows
  BY <1>1, RowShape DEF Base, Typed, RequestType
<1>3. \A i \in ItemIds : /\ items'[i].exists = items[i].exists
                         /\ items'[i].quantity = items[i].quantity
                         /\ items'[i].inStock = items[i].inStock
  BY <1>1, <1>2 DEF Rows
<1> QED
  BY <1>3, BoughtRow DEF KeepsRows, Existing

(* Rows are written by these handlers of the request alone, and no order   *)
(* with them.                                                              *)
LEMMA RowsOrOrders ==
    ASSUME Base, NEW p \in Procs,
           AcquireLock(p) \/ ReadBalance(p) \/ Abort(p) \/ OrderStep(p) \/ RequestStep(p)
    PROVE  KeepsRows /\ (items' = items \/ orders' = orders)
<1>1. CASE RequestStep(p)
  <2>1. CASE CommitUpdateDraft(p) \/ CommitAddItems(p)
    BY <2>1, NewRowsKeep DEF CommitUpdateDraft, CommitAddItems
  <2>2. CASE CommitRemoveItem(p) \/ CommitSetItemStock(p) \/ CommitEditItem(p)
    BY <2>2, OneRowKeeps DEF CommitRemoveItem, CommitSetItemStock, CommitEditItem
  <2>3. CASE CommitUpdateQuote(p)
    BY <2>3, QuoteKeeps DEF CommitUpdateQuote
  <2>4. CASE \/ BeginUpdateStatus(p) \/ ReadTotal(p) \/ CommitUpdateStatus(p)
             \/ BeginUpdateDraft(p) \/ BeginAddItems(p)
             \/ BeginRemoveItem(p) \/ BeginSetItemStock(p)
             \/ BeginEditItem(p) \/ BeginUpdateQuote(p)
             \/ BeginRemoveRequest(p) \/ CommitRemoveRequest(p)
             \/ BeginRestoreRequest(p) \/ CommitRestoreRequest(p)
    <3>1. items' = items
      BY <2>4 DEF BeginUpdateStatus, ReadTotal, CommitUpdateStatus, BeginUpdateDraft,
                  BeginAddItems, BeginRemoveItem, BeginSetItemStock, BeginEditItem,
                  BeginUpdateQuote, BeginRemoveRequest, CommitRemoveRequest,
                  BeginRestoreRequest, CommitRestoreRequest, requestVars
    <3> QED
      BY <3>1, SameRows
  <2> QED
    BY <1>1, <2>1, <2>2, <2>3, <2>4 DEF RequestStep
<1>2. CASE AcquireLock(p) \/ ReadBalance(p) \/ Abort(p) \/ OrderStep(p)
  <2>1. items' = items
    BY <1>2 DEF AcquireLock, ReadBalance, Abort, OrderStep, requestVars, Overwrite,
                BeginCreate, CommitCreate, BeginReline, CommitReline, BeginPatch, CommitPatch,
                BeginCancelOrder, CommitCancelOrder, BeginRemoveOrder, CommitRemoveOrder,
                BeginRestoreOrder, CommitRestoreOrder
  <2> QED
    BY <2>1, SameRows
<1> QED
  BY <1>1, <1>2

LEMMA NextKeepsRows ==
    ASSUME Base, [Next]_vars
    PROVE  KeepsRows
<1>1. CASE UNCHANGED vars
  BY <1>1, SameRows DEF vars
<1>2. CASE Next
  BY <1>2, RowsOrOrders DEF Next
<1> QED
  BY <1>1, <1>2

(* A row that some order is buying is not removed, resized or marked as in *)
(* stock by any handler, whatever runs beside it (removeItem, updateItem   *)
(* and setItemStock look under the lock, update and addItems by keys).     *)
THEOREM BoughtRowsAreFrozen == Spec => BoughtLineIsFrozen
<1>1. IInv /\ [Next]_vars =>
        [\A i \in ItemIds : ~revived /\ Bought(i, {}) > 0 =>
            /\ items'[i].exists
            /\ items'[i].quantity = items[i].quantity
            /\ ~items'[i].inStock]_vars
  BY NextKeepsRows DEF IInv, KeepsRows
<1>2. Spec => [][Next]_vars
  BY DEF Spec
<1> QED
  BY <1>1, <1>2, InvariantHolds, PTL DEF BoughtLineIsFrozen

(* A request always keeps a row: the last one can only be cancelled with   *)
(* the request, however many calls remove rows at once (removeItem).       *)
THEOREM LastRowStays == Spec => []RequestKeepsARow
<1>1. Init => RequestKeepsARow
  <2> SUFFICES ASSUME Init PROVE RequestKeepsARow
    OBVIOUS
  <2>1. items \in Drafts \ {NoRows}
    BY DEF Init
  <2>2. \E i \in ItemIds : items[i] # NoRow
    BY <2>1 DEF Drafts, NoRows
  <2>3. \A i \in ItemIds : items[i] # NoRow => items[i].exists
    BY <2>1 DEF Drafts, Rows
  <2> QED
    BY <2>2, <2>3 DEF RequestKeepsARow, Existing
<1>2. IInv /\ RequestKeepsARow /\ [Next]_vars => RequestKeepsARow'
  <2> SUFFICES ASSUME IInv, RequestKeepsARow, [Next]_vars PROVE RequestKeepsARow'
    OBVIOUS
  <2>1. KeepsRows
    BY NextKeepsRows DEF IInv
  <2> QED
    BY <2>1 DEF KeepsRows, RequestKeepsARow, Existing
<1> QED
  BY <1>1, <1>2, InvariantHolds, PTL DEF Spec

-----------------------------------------------------------------------------
(* The refinement of the atomic ledger.                                    *)

LEMMA RowQuantity ==
    ASSUME NEW r \in Rows \cup {NoRow}
    PROVE  r.quantity \in 0..MaxQty
<1>1. CASE r \in Rows
  <2>1. r.quantity \in 1..MaxQty
    BY <1>1 DEF Rows
  <2> QED
    BY <2>1, MaxQtyAssumption
<1>2. CASE r = NoRow
  <2>1. r.quantity = 0
    BY <1>2 DEF NoRow
  <2> QED
    BY <2>1, MaxQtyAssumption
<1> QED
  BY <1>1, <1>2

(* What an order has taken in the ledger are its units that count.         *)
LEMMA TakenIsBought ==
    ASSUME OrderType, NEW o \in OrderIds, NEW i \in ItemIds
    PROVE  Ledger!TakenByOthers(o, i) = Cardinality(UnitsOf(orders, i, {o}))
<1>1. ASSUME NEW u \in (OrderIds \ {o}) \X (1..MaxQty)
      PROVE  u[2] <= bought[u[1]][i] <=> Counts(orders[u[1]]) /\ u[2] <= orders[u[1]].lines[i]
  <2>1. u[1] \in OrderIds /\ u[2] \in 1..MaxQty
    OBVIOUS
  <2>2. CASE Counts(orders[u[1]])
    BY <2>1, <2>2 DEF bought
  <2>3. CASE ~Counts(orders[u[1]])
    <3>1. bought[u[1]][i] = 0
      BY <2>1, <2>3 DEF bought, NoLines
    <3>2. ~(u[2] <= 0)
      BY <2>1, MaxQtyAssumption
    <3> QED
      BY <2>3, <3>1, <3>2
  <2> QED
    BY <2>2, <2>3
<1>2. {u \in (OrderIds \ {o}) \X (1..MaxQty) : u[2] <= bought[u[1]][i]}
        = UnitsOf(orders, i, {o})
  BY <1>1 DEF UnitsOf
<1> QED
  BY <1>2 DEF Ledger!TakenByOthers, Ledger!Cardinality, Cardinality

(* A line that an order holds in the ledger is bought.                     *)
LEMMA HeldIsBought ==
    ASSUME OrderType, NEW o \in OrderIds, NEW i \in ItemIds, bought[o][i] > 0
    PROVE  Bought(i, {}) > 0
<1>1. Counts(orders[o]) /\ orders[o].lines[i] > 0
  BY DEF bought, NoLines
<1>2. orders[o].lines[i] \in 1..MaxQty
  BY <1>1, MaxQtyAssumption DEF OrderType, Orders, Lines
<1>3. <<o, 1>> \in UnitsOf(orders, i, {})
  BY <1>1, <1>2, MaxQtyAssumption DEF UnitsOf
<1>4. Cardinality(UnitsOf(orders, i, {})) # 0
  BY <1>3, UnitsFinite, FS_EmptySet
<1> QED
  BY <1>4, UnitsFinite DEF Bought

LEMMA WantedType ==
    ASSUME RequestType
    PROVE  wanted \in [ItemIds -> 0..MaxQty]
BY RowQuantity, MaxQtyAssumption DEF RequestType, wanted

(* Rows change: the ledger revises the lines that nobody holds.            *)
LEMMA RowsRevise ==
    ASSUME Base, Balance, KeepsRows, RequestType', orders' = orders
    PROVE  Ledger!Revise
<1>1. wanted' \in [ItemIds -> 0..MaxQty]
  BY RowQuantity, MaxQtyAssumption DEF RequestType, wanted
<1>2. ASSUME NEW i \in ItemIds, NEW o \in OrderIds, bought[o][i] > 0
      PROVE  wanted'[i] = wanted[i]
  <2>1. Bought(i, {}) > 0
    BY <1>2, HeldIsBought DEF Base, Typed
  <2>2. ~items[i].inStock
    BY <2>1, BoughtRow
  <2>3. items'[i].quantity = items[i].quantity /\ ~items'[i].inStock
    BY <2>1 DEF KeepsRows
  <2> QED
    BY <2>2, <2>3 DEF wanted
<1>3. bought' = bought
  BY DEF bought
<1> QED
  BY <1>1, <1>2, <1>3 DEF Ledger!Revise

(* One order is written: it takes, gives back, or holds what it held.      *)
LEMMA OrderTakes ==
    ASSUME OrderType, NEW o \in OrderIds, NEW new \in Orders,
           orders' = [orders EXCEPT ![o] = new], items' = items,
           Counts(new) => \A i \in ItemIds : new.lines[i] > 0 =>
               Cardinality(UnitsOf(orders, i, {o})) + new.lines[i] <= wanted[i]
    PROVE  Ledger!Buy(o) \/ Ledger!Release(o)
<1>1. wanted' = wanted
  BY DEF wanted
<1>2. CASE Counts(new)
  <2>1. bought' = [bought EXCEPT ![o] = new.lines]
    BY <1>2 DEF bought, OrderType
  <2>2. new.lines \in [ItemIds -> 0..MaxQty]
    BY DEF Orders, Lines
  <2>3. \A i \in ItemIds : new.lines[i] > 0 =>
            Ledger!TakenByOthers(o, i) + new.lines[i] <= wanted[i]
    BY <1>2, TakenIsBought
  <2> QED
    BY <1>1, <2>1, <2>2, <2>3 DEF Ledger!Buy
<1>3. CASE ~Counts(new)
  <2>1. bought' = [bought EXCEPT ![o] = NoLines]
    BY <1>3 DEF bought, OrderType
  <2>2. Ledger!Nothing = NoLines
    BY DEF Ledger!Nothing, NoLines
  <2> QED
    BY <1>1, <2>1, <2>2 DEF Ledger!Release
<1> QED
  BY <1>2, <1>3

(* A purchase decided under the lock is within what the ledger has left.   *)
LEMMA CheckedTakes ==
    ASSUME Base, Balance, NEW p \in Procs, Decides(p),
           NEW o \in OrderIds, Excluded(call[p]) \subseteq {o}, call[p].lines \in Lines,
           WithinPending(call[p], seen[p].rows, seen[p].bought)
    PROVE  \A i \in ItemIds : call[p].lines[i] > 0 =>
               Cardinality(UnitsOf(orders, i, {o})) + call[p].lines[i] <= wanted[i]
<1> SUFFICES ASSUME NEW i \in ItemIds, call[p].lines[i] > 0
             PROVE  Cardinality(UnitsOf(orders, i, {o})) + call[p].lines[i] <= wanted[i]
  OBVIOUS
<1> DEFINE n      == call[p].lines[i]
           others == Cardinality(UnitsOf(orders, i, {o}))
<1>1. seen[p].rows = items
  BY DEF Base, Stages, Decides
<1>2. ~items[i].inStock /\ n <= pendingOf(items[i].quantity, seen[p].bought[i])
  BY <1>1 DEF WithinPending
<1>3. others <= Bought(i, Excluded(call[p]))
  BY UnitsShrink DEF Bought
<1>4. Bought(i, Excluded(call[p])) <= seen[p].bought[i]
  BY DEF Balance, BalanceRead
<1>5. n \in Nat /\ n > 0
  BY MaxQtyAssumption DEF Lines
<1>6. /\ others \in Nat /\ Bought(i, Excluded(call[p])) \in Nat
      /\ items[i].quantity \in Nat /\ seen[p].bought[i] \in Nat
  BY UnitsFinite, RowShape DEF Base, Typed, ProcType, RequestType, Bought
<1>7. n + seen[p].bought[i] <= items[i].quantity
  BY <1>2, <1>5, <1>6 DEF pendingOf
<1>8. others + n <= items[i].quantity
  BY <1>3, <1>4, <1>5, <1>6, <1>7
<1> QED
  BY <1>2, <1>8 DEF wanted

LedgerStep == [Ledger!Next]_<<wanted, bought>>

(* An overwritten order goes on counting, or gives back what it took.      *)
LEMMA OverwriteRefines ==
    ASSUME Base, ~Revives, NEW p \in Procs, NEW o \in OrderIds, NEW new \in Orders,
           new.lines = orders[o].lines, Overwrite(p, o, new),
           ~Counts(new) \/ At(p, "patch") \/ At(p, "restoreOrder")
    PROVE  LedgerStep
<1>1. orders \in [OrderIds -> Orders]
  BY DEF Base, Typed, OrderType
<1>2. orders' = [orders EXCEPT ![o] = new] /\ items' = items
  BY DEF Overwrite, requestVars
<1>3. CASE Counts(new)
  <2>1. Counts(orders[o])
    <3>1. pc'[p] = "idle"
      BY FinishFrame DEF Overwrite
    <3> QED
      BY <1>1, <1>2, <1>3, <3>1 DEF Revives
  <2>2. \A other \in OrderIds : Counts(orders'[other]) <=> Counts(orders[other])
    BY <1>1, <1>2, <1>3, <2>1
  <2>3. \A other \in OrderIds : orders'[other].lines = orders[other].lines
    BY <1>1, <1>2
  <2>4. bought' = bought /\ wanted' = wanted
    BY <1>2, <2>2, <2>3 DEF bought, wanted
  <2> QED
    BY <2>4 DEF LedgerStep
<1>4. CASE ~Counts(new)
  <2>1. Ledger!Buy(o) \/ Ledger!Release(o)
    BY <1>2, <1>4, OrderTakes DEF Base, Typed
  <2> QED
    BY <2>1 DEF LedgerStep, Ledger!Next
<1> QED
  BY <1>3, <1>4

LEMMA WriteOrderRefines ==
    ASSUME Base, Balance, ~Revives, NEW p \in Procs,
           \/ CommitCreate(p) \/ CommitReline(p) \/ CommitPatch(p)
           \/ CommitCancelOrder(p) \/ CommitRemoveOrder(p) \/ CommitRestoreOrder(p)
    PROVE  LedgerStep
<1> DEFINE c == call[p]
<1>1. c \in Calls
  BY DEF Base, Typed, ProcType
<1>2. orders \in [OrderIds -> Orders]
  BY DEF Base, Typed, OrderType
<1>3. CASE CommitCreate(p)
  <2> DEFINE new == [status |-> c.status, deleted |-> FALSE, lines |-> c.lines]
  <2>1. c.op = "create" /\ Decides(p)
    BY <1>3 DEF CommitCreate, At, Decides, LockingOps
  <2>2. c.order \in OrderIds /\ c.lines \in Lines /\ c.status \in OrderStatus
    BY <1>1, <2>1, CallShape
  <2>3. new \in Orders
    BY <2>2 DEF Orders
  <2>4. /\ orders' = [orders EXCEPT ![c.order] = new] /\ items' = items
        /\ WithinPending(c, seen[p].rows, seen[p].bought)
    BY <1>3 DEF CommitCreate, requestVars
  <2>5. Excluded(c) \subseteq {c.order}
    BY DEF Excluded
  <2>6. \A i \in ItemIds : c.lines[i] > 0 =>
            Cardinality(UnitsOf(orders, i, {c.order})) + c.lines[i] <= wanted[i]
    BY <2>1, <2>2, <2>4, <2>5, CheckedTakes
  <2>7. Ledger!Buy(c.order) \/ Ledger!Release(c.order)
    BY <2>2, <2>3, <2>4, <2>6, OrderTakes DEF Base, Typed
  <2> QED
    BY <2>2, <2>7 DEF LedgerStep, Ledger!Next
<1>4. CASE CommitReline(p)
  <2>1. c.op = "reline" /\ Decides(p)
    BY <1>4 DEF CommitReline, At, Decides, LockingOps
  <2>2. c.order \in OrderIds /\ c.lines \in Lines /\ c.status \in OrderStatus \cup {"KEEP"}
    BY <1>1, <2>1, CallShape
  <2>3. PICK st \in OrderStatus \cup {"NONE"} :
            orders' = [orders EXCEPT ![c.order] =
                          [orders[c.order] EXCEPT !.status = st, !.lines = c.lines]]
    BY <1>2, <1>4, <2>2 DEF CommitReline, Orders
  <2> DEFINE new == [orders[c.order] EXCEPT !.status = st, !.lines = c.lines]
  <2>4. new \in Orders /\ new.lines = c.lines
    BY <1>2, <2>2 DEF Orders
  <2>5. items' = items /\ WithinPending(c, seen[p].rows, seen[p].bought)
    BY <1>4 DEF CommitReline, requestVars
  <2>6. Excluded(c) \subseteq {c.order}
    BY DEF Excluded
  <2>7. \A i \in ItemIds : c.lines[i] > 0 =>
            Cardinality(UnitsOf(orders, i, {c.order})) + c.lines[i] <= wanted[i]
    BY <2>1, <2>2, <2>5, <2>6, CheckedTakes
  <2>8. Ledger!Buy(c.order) \/ Ledger!Release(c.order)
    BY <2>2, <2>3, <2>4, <2>5, <2>7, OrderTakes DEF Base, Typed
  <2> QED
    BY <2>2, <2>8 DEF LedgerStep, Ledger!Next
<1>5. CASE CommitPatch(p)
  <2> DEFINE new == [orders[c.order] EXCEPT !.status = c.status]
  <2>1. c.order \in OrderIds /\ c.status \in OrderStatus
    BY <1>5, <1>1, CallShape DEF CommitPatch, At
  <2>2. new \in Orders /\ new.lines = orders[c.order].lines
    BY <2>1, <1>2 DEF Orders, OrderStatus
  <2>3. Overwrite(p, c.order, new) /\ At(p, "patch")
    BY <1>5 DEF CommitPatch
  <2> QED
    BY <2>1, <2>2, <2>3, OverwriteRefines
<1>6. CASE CommitCancelOrder(p)
  <2> DEFINE new == [orders[c.order] EXCEPT !.status = "CANCELLED"]
  <2>1. c.order \in OrderIds
    BY <1>6, <1>1, CallShape DEF CommitCancelOrder, At
  <2>2. new \in Orders /\ new.lines = orders[c.order].lines
    BY <2>1, <1>2 DEF Orders, OrderStatus
  <2>3. Overwrite(p, c.order, new) /\ ~Counts(new)
    BY <1>2, <1>6, <2>1, StatusAssumption DEF CommitCancelOrder, Counts, Orders
  <2> QED
    BY <2>1, <2>2, <2>3, OverwriteRefines
<1>7. CASE CommitRemoveOrder(p)
  <2> DEFINE new == [orders[c.order] EXCEPT !.deleted = TRUE]
  <2>1. c.order \in OrderIds
    BY <1>7, <1>1, CallShape DEF CommitRemoveOrder, At
  <2>2. new \in Orders /\ new.lines = orders[c.order].lines
    BY <2>1, <1>2 DEF Orders, OrderStatus
  <2>3. Overwrite(p, c.order, new) /\ ~Counts(new)
    BY <1>2, <1>7, <2>1 DEF CommitRemoveOrder, Counts, Orders
  <2> QED
    BY <2>1, <2>2, <2>3, OverwriteRefines
<1>8. CASE CommitRestoreOrder(p)
  <2> DEFINE new == [orders[c.order] EXCEPT !.deleted = FALSE]
  <2>1. c.order \in OrderIds
    BY <1>8, <1>1, CallShape DEF CommitRestoreOrder, At
  <2>2. new \in Orders /\ new.lines = orders[c.order].lines
    BY <2>1, <1>2 DEF Orders, OrderStatus
  <2>3. Overwrite(p, c.order, new) /\ At(p, "restoreOrder")
    BY <1>8 DEF CommitRestoreOrder
  <2> QED
    BY <2>1, <2>2, <2>3, OverwriteRefines
<1> QED
  BY <1>3, <1>4, <1>5, <1>6, <1>7, <1>8

(* Orders are written by the handlers of orders alone.                     *)
LEMMA SameOrders ==
    ASSUME NEW p \in Procs,
           \/ AcquireLock(p) \/ ReadBalance(p) \/ Abort(p) \/ RequestStep(p)
           \/ BeginCreate(p) \/ BeginReline(p) \/ BeginPatch(p)
           \/ BeginCancelOrder(p) \/ BeginRemoveOrder(p) \/ BeginRestoreOrder(p)
    PROVE  orders' = orders
BY DEF AcquireLock, ReadBalance, Abort, RequestStep, requestVars,
       BeginCreate, BeginReline, BeginPatch, BeginCancelOrder, BeginRemoveOrder,
       BeginRestoreOrder, BeginUpdateStatus, ReadTotal, CommitUpdateStatus,
       BeginUpdateDraft, CommitUpdateDraft, BeginAddItems, CommitAddItems,
       BeginRemoveItem, CommitRemoveItem, BeginSetItemStock, CommitSetItemStock,
       BeginEditItem, CommitEditItem, BeginUpdateQuote, CommitUpdateQuote,
       BeginRemoveRequest, CommitRemoveRequest, BeginRestoreRequest, CommitRestoreRequest

LEMMA StepRefines ==
    ASSUME Base, Balance, Base', [Next]_vars, ~revived'
    PROVE  LedgerStep
<1>1. CASE UNCHANGED vars
  BY <1>1 DEF vars, LedgerStep, wanted, bought
<1>2. CASE Next
  <2>1. PICK p \in Procs :
            AcquireLock(p) \/ ReadBalance(p) \/ Abort(p) \/ OrderStep(p) \/ RequestStep(p)
    BY <1>2 DEF Next
  <2>2. ~Revives
    BY <1>2 DEF Next
  <2>3. CASE orders' = orders
    <3>1. KeepsRows
      BY NextKeepsRows
    <3>2. Ledger!Revise
      BY <2>3, <3>1, RowsRevise DEF Base, Typed
    <3> QED
      BY <3>2 DEF LedgerStep, Ledger!Next
  <2>4. CASE \/ CommitCreate(p) \/ CommitReline(p) \/ CommitPatch(p)
             \/ CommitCancelOrder(p) \/ CommitRemoveOrder(p) \/ CommitRestoreOrder(p)
    BY <2>2, <2>4, WriteOrderRefines
  <2> QED
    BY <2>1, <2>3, <2>4, SameOrders DEF OrderStep
<1> QED
  BY <1>1, <1>2

LEMMA InitRefines == Init => Ledger!Init
<1> SUFFICES ASSUME Init PROVE Ledger!Init
  OBVIOUS
<1>1. wanted \in [ItemIds -> 0..MaxQty]
  BY InitBase, WantedType DEF Base, Typed
<1>2. bought = [o \in OrderIds |-> Ledger!Nothing]
  BY StatusAssumption DEF Init, NoOrder, Counts, bought, NoLines, Ledger!Nothing
<1> QED
  BY <1>1, <1>2 DEF Ledger!Init

(* The concurrent handlers of requests and orders, each in several calls   *)
(* of the database, implement the ledger in which a purchase, a return and *)
(* a change of lines are single steps against the present balance, until   *)
(* an order counts again unchecked.                                        *)
THEOREM KeepsTheLedger == Spec => ImplementsLedger
<1>1. IInv /\ IInv' /\ [Next]_vars => [~revived' => [Ledger!Next]_<<wanted, bought>>]_vars
  <2> SUFFICES ASSUME IInv, IInv', [Next]_vars, ~revived'
               PROVE  [Ledger!Next]_<<wanted, bought>>
    OBVIOUS
  <2>1. ~revived
    BY DEF Next, vars
  <2>2. LedgerStep
    BY <2>1, StepRefines DEF IInv
  <2> QED
    BY <2>2 DEF LedgerStep
<1>2. Spec => Init /\ [][Next]_vars
  BY DEF Spec
<1> QED
  BY <1>1, <1>2, InitRefines, InvariantHolds, PTL DEF ImplementsLedger

-----------------------------------------------------------------------------
(* What is shown of a request.                                             *)

(* One line: it is shown as fulfilled exactly when not a unit of it would  *)
(* be accepted.                                                            *)
LEMMA ItemFulfilled ==
    ASSUME NEW requested \in Nat \ {0}, NEW fulfilled \in Nat, NEW inStock \in BOOLEAN
    PROVE  buildItemFulfillment(requested, fulfilled, inStock).status = "FULFILLED"
               <=> inStock \/ ~(1 <= pendingOf(requested, fulfilled))
<1>1. buildItemFulfillment(requested, fulfilled, inStock).status
          = IF inStock THEN "FULFILLED" ELSE statusOf(requested, fulfilled)
  BY DEF buildItemFulfillment
<1>2. statusOf(requested, fulfilled) = "FULFILLED" <=> fulfilled >= requested
  BY DEF statusOf
<1>3. 1 <= pendingOf(requested, fulfilled) <=> ~(fulfilled >= requested)
  BY DEF pendingOf
<1> QED
  BY <1>1, <1>2, <1>3

LEMMA PositiveQuantity ==
    ASSUME NEW quantity \in 1..MaxQty
    PROVE  quantity \in Nat \ {0} /\ 1 \in 0..MaxQty /\ 0 \in 0..MaxQty
BY MaxQtyAssumption

LEMMA PendingIsNat ==
    ASSUME NEW requested \in Nat, NEW fulfilled \in Nat
    PROVE  pendingOf(requested, fulfilled) \in Nat
BY DEF pendingOf

(* Several lines are, when each is.                                        *)
LEMMA AggregateFulfilled ==
    ASSUME NEW f
    PROVE  aggregateFulfillment(f).status = "FULFILLED"
               <=> DOMAIN f # {} /\ \A i \in DOMAIN f : f[i].status = "FULFILLED"
BY DEF aggregateFulfillment

(* The status FULFILLED, computed for display from sums of all orders, and *)
(* the check of assertWithinPending agree: it is shown exactly when no     *)
(* order whatsoever would be accepted.                                     *)
THEOREM FulfilledIsSettled == Spec => []FulfilledMeansNothingToBuy
<1> SUFFICES Base /\ RequestKeepsARow => FulfilledMeansNothingToBuy
  <2>1. IInv => Base
    BY DEF IInv
  <2> QED
    BY <2>1, InvariantHolds, LastRowStays, PTL
<1> SUFFICES ASSUME Base, RequestKeepsARow PROVE FulfilledMeansNothingToBuy
  OBVIOUS
<1> DEFINE taken == [i \in ItemIds |-> Bought(i, {})]
           shown == [i \in Existing(items) |->
                        buildItemFulfillment(items[i].quantity, taken[i], items[i].inStock)]
           open(i) == ~items[i].inStock /\ 1 <= pendingOf(items[i].quantity, taken[i])
<1>1. \A i \in Existing(items) : /\ i \in ItemIds
                                 /\ items[i].quantity \in 1..MaxQty
                                 /\ items[i].inStock \in BOOLEAN
                                 /\ taken[i] \in Nat
  BY RowShape, UnitsFinite DEF Base, Typed, RequestType, Existing, Bought, Rows
<1>2. \A i \in Existing(items) :
          items[i].quantity \in Nat \ {0} /\ 1 \in 0..MaxQty /\ 0 \in 0..MaxQty
  BY <1>1, PositiveQuantity
<1>3. \A i \in Existing(items) : shown[i].status = "FULFILLED" <=> ~open(i)
  BY <1>1, <1>2, ItemFulfilled
<1>4. aggregateFulfillment(shown).status = "FULFILLED"
          <=> \A i \in Existing(items) : ~open(i)
  BY <1>3, AggregateFulfilled DEF RequestKeepsARow
<1>5. ASSUME NEW i \in Existing(items), open(i)
      PROVE  \E ls \in Lines \ {NoLines} : WithinPending([lines |-> ls], items, taken)
  <2> DEFINE one == [j \in ItemIds |-> IF j = i THEN 1 ELSE 0]
  <2>1. i \in ItemIds
    BY <1>1
  <2>2. one \in Lines
    BY <1>2 DEF Lines
  <2>3. one[i] = 1 /\ NoLines[i] = 0
    BY <2>1 DEF NoLines
  <2>4. WithinPending([lines |-> one], items, taken)
    BY <1>1, <1>5 DEF WithinPending, Existing
  <2> QED
    BY <2>2, <2>3, <2>4
<1>6. ASSUME NEW ls \in Lines \ {NoLines}, WithinPending([lines |-> ls], items, taken)
      PROVE  \E i \in Existing(items) : open(i)
  <2>1. PICK i \in ItemIds : ls[i] # 0
    BY DEF Lines, NoLines
  <2>2. ls[i] \in Nat /\ ls[i] > 0
    BY <2>1, MaxQtyAssumption DEF Lines
  <2>3. items[i].exists /\ ~items[i].inStock /\ ls[i] <= pendingOf(items[i].quantity, taken[i])
    BY <1>6, <2>2 DEF WithinPending
  <2>4. i \in Existing(items)
    BY <2>3 DEF Existing
  <2>5. pendingOf(items[i].quantity, taken[i]) \in Nat
    BY <1>1, <1>2, <2>4, PendingIsNat
  <2>6. 1 <= pendingOf(items[i].quantity, taken[i])
    BY <2>2, <2>3, <2>5
  <2> QED
    BY <2>3, <2>4, <2>6
<1> QED
  BY <1>4, <1>5, <1>6 DEF FulfilledMeansNothingToBuy
-----------------------------------------------------------------------------
(* What an approval was given on.                                          *)

(* The calls that change the status or the value of the request.           *)
ValueOps == {"updateStatus", "updateDraft", "addItems", "updateQuote", "editItem", "setItemStock"}

Values(p) == pc[p] # "idle" /\ call[p].op \in ValueOps

OneValueCall == \A p, q \in Procs : Values(p) /\ Values(q) => p = q

Charged(row) == row.exists /\ ~row.inStock /\ row.price # 0

(* The rows that p read and that still exist are as they were.             *)
Kept(p) == \A i \in ItemIds : items[i].exists => items[i] = seen[p].rows[i]

(* What p read before it writes, and what it was let in for, still holds.  *)
Ready(p) ==
    /\ pc[p] \in {"lock", "locked"} => call[p].op \in LockingOps
    /\ At(p, "updateQuote") => Kept(p) /\ status \in {"PENDING", "QUOTING"}
    /\ At(p, "addItems") => status \in {"PENDING", "QUOTING"}
    /\ At(p, "updateDraft") => status = "DRAFT"
    /\ At(p, "updateStatus") /\ call[p].to = "APPROVED" => Kept(p)

(* Stock is not priced, and what an approved request charges was approved. *)
RowsApproved ==
    /\ \A i \in ItemIds : items[i].inStock => items[i].price = 0
    /\ status = "APPROVED" => \A i \in ItemIds : Charged(items[i]) => approved[i] = items[i]

ValueInv == RowsApproved /\ \A p \in Procs : Ready(p)

LEMMA PriceShape ==
    ASSUME NEW r \in Rows \cup {NoRow}
    PROVE  /\ r.price \in Nat /\ r.quantity \in Nat /\ r.inStock \in BOOLEAN
           /\ r.exists \in BOOLEAN
           /\ r.exists => r \in Rows
<1>1. r.price \in Nat /\ r.inStock \in BOOLEAN
  <2>1. CASE r \in Rows
    BY <2>1, PricesAssumption DEF Rows
  <2>2. CASE r = NoRow
    BY <2>2 DEF NoRow
  <2> QED
    BY <2>1, <2>2
<1> QED
  BY <1>1, RowShape

LEMMA RowsApprovedCover ==
    ASSUME Typed, RowsApproved PROVE ApprovalCoversTotal
<1> SUFFICES ASSUME status = "APPROVED" PROVE Total(items) <= Total(approved)
  BY DEF ApprovalCoversTotal
<1> DEFINE Worth(rows) == [i \in ItemIds |-> rows[i].quantity * rows[i].price]
           Counted(rows) == {i \in Existing(rows) : ~rows[i].inStock}
<1>1. ASSUME NEW rows \in [ItemIds -> Rows \cup {NoRow}]
      PROVE  IsFiniteSet(Counted(rows)) /\ \A i \in ItemIds : Worth(rows)[i] \in Nat
  <2>1. Counted(rows) \in SUBSET ItemIds
    BY DEF Existing
  <2>2. \A i \in ItemIds : rows[i].quantity \in Nat /\ rows[i].price \in Nat
    BY PriceShape
  <2> QED
    BY <2>1, <2>2, FiniteAssumption, FS_Subset
<1>2. items \in [ItemIds -> Rows \cup {NoRow}] /\ approved \in [ItemIds -> Rows \cup {NoRow}]
  BY DEF Typed, RequestType
<1>3. \A i \in Counted(items) : i \in ItemIds /\ i \in Existing(items) /\ ~items[i].inStock
  BY DEF Existing
<1>4. ASSUME NEW i \in Counted(items)
      PROVE  \/ Worth(items)[i] = 0
             \/ i \in Counted(approved) /\ Worth(items)[i] <= Worth(approved)[i]
  <2>1. CASE items[i].price = 0
    <3>1. items[i].quantity \in Nat
      BY <1>2, <1>3, PriceShape
    <3> QED
      BY <1>3, <2>1, <3>1
  <2>2. CASE items[i].price # 0
    <3>1. approved[i] = items[i]
      BY <1>3, <2>2 DEF RowsApproved, Charged, Existing
    <3>2. Worth(items)[i] = Worth(approved)[i] /\ Worth(items)[i] \in Nat
      BY <1>1, <1>2, <1>3, <3>1
    <3> QED
      BY <1>3, <3>1, <3>2 DEF Existing
  <2> QED
    BY <2>1, <2>2
<1>5. SumOver(Worth(items), Counted(items)) <= SumOver(Worth(approved), Counted(approved))
  <2>1. /\ \A i \in Counted(items) : Worth(items)[i] \in Nat
        /\ \A i \in Counted(approved) : Worth(approved)[i] \in Nat
    BY <1>1, <1>2 DEF Existing
  <2>2. IsFiniteSet(Counted(items)) /\ IsFiniteSet(Counted(approved))
    BY <1>1, <1>2
  <2> HIDE DEF Worth, Counted
  <2> QED
    BY <1>4, <2>1, <2>2, SumMonotone
<1> QED
  BY <1>5 DEF Total

(* The other calls stay ready: none of them changes the value when p does, *)
(* and else p changes no status and at most deletes rows.                  *)
LEMMA OthersReady ==
    ASSUME Base, ValueInv, OneValueCall, NEW p \in Procs,
           \A q \in Procs : q # p => /\ pc'[q] = pc[q] /\ call'[q] = call[q]
                                     /\ seen'[q] = seen[q],
           \/ Values(p)
           \/ status' = status /\ \A i \in ItemIds : items'[i] = items[i] \/ ~items'[i].exists
    PROVE  \A q \in Procs : q # p => Ready(q)'
<1> SUFFICES ASSUME NEW q \in Procs, q # p PROVE Ready(q)'
  OBVIOUS
<1>1. Ready(q) /\ pc'[q] = pc[q] /\ call'[q] = call[q] /\ seen'[q] = seen[q]
  BY DEF ValueInv
<1>2. CASE Values(p)
  <2>1. ~Values(q)
    BY <1>2 DEF OneValueCall
  <2> QED
    BY <1>1, <2>1 DEF Values, ValueOps, Ready, At
<1>3. CASE status' = status /\ \A i \in ItemIds : items'[i] = items[i] \/ ~items'[i].exists
  <2>1. Kept(q) => Kept(q)'
    BY <1>1, <1>3 DEF Kept
  <2> QED
    BY <1>1, <1>3, <2>1 DEF Ready, At
<1> QED
  BY <1>2, <1>3

(* A step that reads or begins.                                            *)
LEMMA QuietValues ==
    ASSUME Base, ValueInv, OneValueCall, NEW p \in Procs,
           \A q \in Procs : q # p => /\ pc'[q] = pc[q] /\ call'[q] = call[q]
                                     /\ seen'[q] = seen[q],
           UNCHANGED <<status, items, approved>>, Ready(p)'
    PROVE  ValueInv'
<1>1. \A q \in Procs : q # p => Ready(q)'
  BY OthersReady
<1>2. RowsApproved'
  BY DEF ValueInv, RowsApproved
<1> QED
  BY <1>1, <1>2 DEF ValueInv

(* A step that ends the call.                                              *)
LEMMA FinishValues ==
    ASSUME Base, ValueInv, OneValueCall, NEW p \in Procs, Finish(p),
           \/ Values(p)
           \/ status' = status /\ \A i \in ItemIds : items'[i] = items[i] \/ ~items'[i].exists,
           RowsApproved'
    PROVE  ValueInv'
<1>1. \A q \in Procs : q # p => Ready(q)'
  BY FinishFrame, OthersReady
<1>2. Ready(p)'
  BY FinishFrame DEF Ready, At
<1> QED
  BY <1>1, <1>2 DEF ValueInv

LEMMA StartFrame ==
    ASSUME Base, NEW p \in Procs, NEW c, NEW next, Start(p, c, next)
    PROVE  /\ pc'[p] = next /\ call'[p] = c
           /\ \A q \in Procs : q # p => pc'[q] = pc[q] /\ call'[q] = call[q]
BY DEF Start, Base, Typed, ProcType

LEMMA StartValues ==
    ASSUME Base, ValueInv, OneValueCall, NEW p \in Procs, NEW c, NEW next,
           Start(p, c, next), UNCHANGED <<requestVars, orders, rowLock, seen>>,
           next = "lock" => c.op \in LockingOps,
           next # "locked" /\ c.op # "updateQuote",
           next = "write" /\ c.op = "addItems" => status \in {"PENDING", "QUOTING"},
           next = "write" /\ c.op = "updateDraft" => status = "DRAFT",
           next = "write" /\ c.op = "updateStatus" => c.to # "APPROVED"
    PROVE  ValueInv'
<1>1. /\ pc'[p] = next /\ call'[p] = c /\ status' = status
      /\ \A q \in Procs : q # p => pc'[q] = pc[q] /\ call'[q] = call[q] /\ seen'[q] = seen[q]
  BY StartFrame DEF requestVars
<1>2. Ready(p)'
  BY <1>1 DEF Ready, At
<1> QED
  BY <1>1, <1>2, QuietValues DEF requestVars

LEMMA BeginOrderValues ==
    ASSUME Base, ValueInv, OneValueCall, NEW p \in Procs,
           \/ BeginCreate(p) \/ BeginReline(p) \/ BeginPatch(p)
           \/ BeginCancelOrder(p) \/ BeginRemoveOrder(p) \/ BeginRestoreOrder(p)
    PROVE  ValueInv'
<1>1. UNCHANGED <<requestVars, orders, rowLock, seen>>
  BY DEF BeginCreate, BeginReline, BeginPatch, BeginCancelOrder, BeginRemoveOrder, BeginRestoreOrder
<1>2. CASE BeginCreate(p)
  <2>1. PICK o \in OrderIds, ls \in Lines, st \in OrderStatus :
           Start(p, [op |-> "create", order |-> o, lines |-> ls, status |-> st], "lock")
    BY <1>2 DEF BeginCreate
  <2> QED
    BY <1>1, <2>1, StartValues DEF LockingOps
<1>3. CASE BeginReline(p)
  <2>1. PICK o \in OrderIds, ls \in Lines, st \in OrderStatus \cup {"KEEP"} :
           Start(p, [op |-> "reline", order |-> o, lines |-> ls, status |-> st], "lock")
    BY <1>3 DEF BeginReline
  <2> QED
    BY <1>1, <2>1, StartValues DEF LockingOps
<1>4. CASE BeginPatch(p)
  <2>1. PICK o \in OrderIds, st \in OrderStatus :
           Start(p, [op |-> "patch", order |-> o, status |-> st], "write")
    BY <1>4 DEF BeginPatch
  <2> QED
    BY <1>1, <2>1, StartValues
<1>5. CASE BeginCancelOrder(p)
  <2>1. PICK o \in OrderIds : Start(p, [op |-> "cancelOrder", order |-> o], "write")
    BY <1>5 DEF BeginCancelOrder
  <2> QED
    BY <1>1, <2>1, StartValues
<1>6. CASE BeginRemoveOrder(p)
  <2>1. PICK o \in OrderIds : Start(p, [op |-> "removeOrder", order |-> o], "write")
    BY <1>6 DEF BeginRemoveOrder
  <2> QED
    BY <1>1, <2>1, StartValues
<1>7. CASE BeginRestoreOrder(p)
  <2>1. PICK o \in OrderIds : Start(p, [op |-> "restoreOrder", order |-> o], "write")
    BY <1>7 DEF BeginRestoreOrder
  <2> QED
    BY <1>1, <2>1, StartValues
<1> QED
  BY <1>2, <1>3, <1>4, <1>5, <1>6, <1>7

LEMMA BeginRequestValues ==
    ASSUME Base, ValueInv, OneValueCall, NEW p \in Procs,
           \/ BeginUpdateStatus(p) \/ BeginUpdateDraft(p) \/ BeginAddItems(p)
           \/ BeginRemoveItem(p) \/ BeginSetItemStock(p) \/ BeginEditItem(p)
           \/ BeginUpdateQuote(p) \/ BeginRemoveRequest(p) \/ BeginRestoreRequest(p)
    PROVE  ValueInv'
<1>1. CASE BeginUpdateStatus(p)
  <2>1. PICK to \in ALLOWED_TRANSITIONS[status], approver \in BOOLEAN :
           Start(p, [op |-> "updateStatus", to |-> to, approver |-> approver],
                 IF to = "APPROVED" THEN "total" ELSE "write")
    BY <1>1 DEF BeginUpdateStatus
  <2>2. UNCHANGED <<requestVars, orders, rowLock, seen>>
    BY <1>1 DEF BeginUpdateStatus
  <2>3. CASE to = "APPROVED"
    BY <2>1, <2>2, <2>3, StartValues
  <2>4. CASE to # "APPROVED"
    BY <2>1, <2>2, <2>4, StartValues
  <2> QED
    BY <2>3, <2>4
<1>2. CASE BeginUpdateDraft(p)
  BY <1>2, StartValues DEF BeginUpdateDraft
<1>3. CASE BeginAddItems(p)
  BY <1>3, StartValues DEF BeginAddItems
<1>4. CASE BeginRemoveItem(p)
  <2>1. PICK i \in ItemIds : Start(p, [op |-> "removeItem", item |-> i], "lock")
    BY <1>4 DEF BeginRemoveItem
  <2>2. UNCHANGED <<requestVars, orders, rowLock, seen>>
    BY <1>4 DEF BeginRemoveItem
  <2> QED
    BY <2>1, <2>2, StartValues DEF LockingOps
<1>5. CASE BeginSetItemStock(p)
  <2>1. PICK i \in ItemIds, b \in BOOLEAN :
           Start(p, [op |-> "setItemStock", item |-> i, inStock |-> b], "lock")
    BY <1>5 DEF BeginSetItemStock
  <2>2. UNCHANGED <<requestVars, orders, rowLock, seen>>
    BY <1>5 DEF BeginSetItemStock
  <2> QED
    BY <2>1, <2>2, StartValues DEF LockingOps
<1>6. CASE BeginEditItem(p)
  <2>1. PICK i \in ItemIds : Start(p, [op |-> "editItem", item |-> i], "lock")
    BY <1>6 DEF BeginEditItem
  <2>2. UNCHANGED <<requestVars, orders, rowLock, seen>>
    BY <1>6 DEF BeginEditItem
  <2> QED
    BY <2>1, <2>2, StartValues DEF LockingOps
<1>7. CASE BeginUpdateQuote(p)
  <2>1. /\ Start(p, [op |-> "updateQuote"], "write") /\ status \in {"PENDING", "QUOTING"}
        /\ seen' = [seen EXCEPT ![p].rows = items] /\ UNCHANGED requestVars
    BY <1>7 DEF BeginUpdateQuote
  <2>2. /\ pc'[p] = "write" /\ call'[p].op = "updateQuote"
        /\ \A q \in Procs : q # p => pc'[q] = pc[q] /\ call'[q] = call[q]
    BY <2>1, StartFrame
  <2>3. seen'[p].rows = items /\ \A q \in Procs : q # p => seen'[q] = seen[q]
    BY <2>1 DEF Base, Typed, ProcType
  <2>4. Ready(p)'
    BY <2>1, <2>2, <2>3 DEF Ready, At, Kept, requestVars
  <2> QED
    BY <2>1, <2>2, <2>3, <2>4, QuietValues DEF requestVars
<1>8. CASE BeginRemoveRequest(p)
  BY <1>8, StartValues DEF BeginRemoveRequest
<1>9. CASE BeginRestoreRequest(p)
  BY <1>9, StartValues DEF BeginRestoreRequest
<1> QED
  BY <1>1, <1>2, <1>3, <1>4, <1>5, <1>6, <1>7, <1>8, <1>9

LEMMA ReadValues ==
    ASSUME Base, ValueInv, OneValueCall, NEW p \in Procs,
           AcquireLock(p) \/ ReadBalance(p) \/ ReadTotal(p)
    PROVE  ValueInv'
<1>1. UNCHANGED <<status, items, approved, call>> /\ Ready(p)
  BY DEF AcquireLock, ReadBalance, ReadTotal, requestVars, ValueInv
<1>2. CASE AcquireLock(p)
  <2>1. pc[p] = "lock" /\ pc'[p] = "locked" /\ \A q \in Procs : q # p => pc'[q] = pc[q]
    BY <1>2 DEF AcquireLock, Base, Typed, ProcType
  <2>2. Ready(p)'
    BY <1>1, <2>1 DEF Ready, At
  <2> QED
    BY <1>1, <1>2, <2>1, <2>2, QuietValues DEF AcquireLock
<1>3. CASE ReadBalance(p)
  <2>1. /\ pc[p] = "locked" /\ pc'[p] = "write" /\ \A q \in Procs : q # p => pc'[q] = pc[q]
        /\ \A q \in Procs : q # p => seen'[q] = seen[q]
    BY <1>3 DEF ReadBalance, Base, Typed, ProcType
  <2>2. Ready(p)'
    BY <1>1, <2>1 DEF Ready, At, LockingOps
  <2> QED
    BY <1>1, <2>1, <2>2, QuietValues
<1>4. CASE ReadTotal(p)
  <2>1. /\ pc[p] = "total" /\ pc'[p] = "write" /\ \A q \in Procs : q # p => pc'[q] = pc[q]
        /\ seen'[p].rows = items /\ \A q \in Procs : q # p => seen'[q] = seen[q]
    BY <1>4 DEF ReadTotal, Base, Typed, ProcType
  <2>2. call'[p].op = "updateStatus"
    BY <1>1, <2>1 DEF Base, Stages
  <2>3. Ready(p)'
    BY <1>1, <2>1, <2>2 DEF Ready, At, Kept
  <2> QED
    BY <1>1, <2>1, <2>3, QuietValues
<1> QED
  BY <1>2, <1>3, <1>4

(* Orders, refusals, the trash and the status.                             *)
LEMMA OrdersValues ==
    ASSUME Base, ValueInv, OneValueCall, NEW p \in Procs, Finish(p), UNCHANGED requestVars
    PROVE  ValueInv'
<1>1. RowsApproved'
  BY DEF ValueInv, RowsApproved, requestVars
<1> QED
  BY <1>1, FinishValues DEF requestVars

LEMMA StatusValues ==
    ASSUME Base, ValueInv, OneValueCall, NEW p \in Procs,
           CommitUpdateStatus(p) \/ CommitRemoveRequest(p) \/ CommitRestoreRequest(p)
    PROVE  ValueInv'
<1>1. Finish(p) /\ items' = items
  BY DEF CommitUpdateStatus, CommitRemoveRequest, CommitRestoreRequest
<1>2. CASE CommitUpdateStatus(p)
  <2>1. /\ At(p, "updateStatus") /\ Values(p) /\ status' = call[p].to /\ Ready(p)
        /\ approved' = IF call[p].to = "APPROVED" THEN seen[p].rows ELSE NoRows
    BY <1>2 DEF CommitUpdateStatus, At, Values, ValueOps, ValueInv
  <2>2. ASSUME status' = "APPROVED", NEW i \in ItemIds, Charged(items[i])
        PROVE  approved'[i] = items[i]
    BY <2>1, <2>2 DEF Ready, Kept, Charged
  <2>3. RowsApproved'
    BY <1>1, <2>2 DEF ValueInv, RowsApproved
  <2> QED
    BY <1>1, <2>1, <2>3, FinishValues
<1>3. CASE CommitRemoveRequest(p) \/ CommitRestoreRequest(p)
  <2>1. status' = status /\ approved' = approved
    BY <1>3 DEF CommitRemoveRequest, CommitRestoreRequest
  <2>2. RowsApproved'
    BY <1>1, <2>1 DEF ValueInv, RowsApproved
  <2> QED
    BY <1>1, <2>1, <2>2, FinishValues
<1> QED
  BY <1>2, <1>3

(* New rows come while the request is not approved.                        *)
LEMMA NewRowsValues ==
    ASSUME Base, ValueInv, OneValueCall, NEW p \in Procs,
           CommitUpdateDraft(p) \/ CommitAddItems(p) \/ CommitUpdateQuote(p)
    PROVE  ValueInv'
<1>1. Finish(p) /\ status' = status /\ approved' = approved /\ Ready(p)
  BY DEF CommitUpdateDraft, CommitAddItems, CommitUpdateQuote, ValueInv
<1>2. Values(p) /\ status # "APPROVED"
  BY <1>1 DEF CommitUpdateDraft, CommitAddItems, CommitUpdateQuote, At, Values, ValueOps, Ready
<1>3. ASSUME NEW i \in ItemIds, items'[i].inStock PROVE items'[i].price = 0
  <2>0. items[i].inStock => items[i].price = 0
    BY DEF ValueInv, RowsApproved
  <2>1. ASSUME NEW rows \in Drafts PROVE ~rows[i].inStock
    BY DEF Drafts, NoRow
  <2>2. CASE CommitUpdateDraft(p)
    BY <1>3, <2>1, <2>2 DEF CommitUpdateDraft
  <2>3. CASE CommitAddItems(p)
    <3>1. PICK rows \in Drafts :
             items' = [j \in ItemIds |-> IF rows[j].exists THEN rows[j] ELSE items[j]]
      BY <2>3 DEF CommitAddItems
    <3>2. items'[i] = rows[i] \/ items'[i] = items[i]
      BY <3>1
    <3> QED
      BY <1>3, <2>0, <2>1, <3>2
  <2>4. CASE CommitUpdateQuote(p)
    <3> DEFINE quotable == {j \in Existing(seen[p].rows) : ~seen[p].rows[j].inStock}
    <3>1. PICK sent \in SUBSET quotable : \E price \in [sent -> Prices] :
             /\ \A j \in sent : items[j].exists
             /\ items' = [j \in ItemIds |->
                             IF j \in sent THEN [items[j] EXCEPT !.price = price[j]]
                             ELSE items[j]]
      BY <2>4 DEF CommitUpdateQuote
    <3>2. PICK price \in [sent -> Prices] :
             /\ \A j \in sent : items[j].exists
             /\ items' = [j \in ItemIds |->
                             IF j \in sent THEN [items[j] EXCEPT !.price = price[j]]
                             ELSE items[j]]
      BY <3>1
    <3>3. CASE i \notin sent
      BY <1>3, <2>0, <3>2, <3>3
    <3>4. CASE i \in sent
      <4>1. items[i] = seen[p].rows[i] /\ ~seen[p].rows[i].inStock
        BY <1>1, <2>4, <3>2, <3>4 DEF Ready, Kept, CommitUpdateQuote
      <4>2. items[i] \in Rows
        BY <3>2, <3>4, RowShape DEF Base, Typed, RequestType
      <4>3. items'[i] = [items[i] EXCEPT !.price = price[i]]
        BY <3>2, <3>4
      <4>4. items'[i].inStock = items[i].inStock
        BY <4>2, <4>3 DEF Rows
      <4> QED
        BY <1>3, <4>1, <4>4
    <3> QED
      BY <3>3, <3>4
  <2> QED
    BY <2>2, <2>3, <2>4
<1>4. RowsApproved'
  BY <1>1, <1>2, <1>3 DEF RowsApproved
<1> QED
  BY <1>1, <1>2, <1>4, FinishValues

(* One row changes, under the lock: an edit that can raise its value takes *)
(* the approval back.                                                      *)
LEMMA OneRowValues ==
    ASSUME Base, ValueInv, OneValueCall, NEW p \in Procs,
           CommitRemoveItem(p) \/ CommitSetItemStock(p) \/ CommitEditItem(p)
    PROVE  ValueInv'
<1> DEFINE i == call[p].item
<1>1. Finish(p)
  BY DEF CommitRemoveItem, CommitSetItemStock, CommitEditItem
<1>2. Decides(p) /\ call[p].op # "reline" /\ i \in ItemIds
  BY CallShape DEF CommitRemoveItem, CommitSetItemStock, CommitEditItem, At, Decides,
                   LockingOps, Base, Typed, ProcType
<1>3. seen[p].rows = items
  BY <1>2, UnderLock
<1>4. items \in [ItemIds -> Rows \cup {NoRow}]
  BY DEF Base, Typed, RequestType
<1>5. /\ \A j \in ItemIds : items[j].inStock => items[j].price = 0
      /\ status = "APPROVED" => \A j \in ItemIds : Charged(items[j]) => approved[j] = items[j]
  BY DEF ValueInv, RowsApproved
<1>6. ASSUME NEW row, items' = [items EXCEPT ![i] = row],
             row.inStock => row.price = 0,
             \/ status' # "APPROVED"
             \/ /\ status' = status /\ approved' = approved
                /\ Charged(row) => row = items[i]
      PROVE  RowsApproved'
  <2>1. items'[i] = row /\ \A j \in ItemIds : j # i => items'[j] = items[j]
    BY <1>2, <1>4, <1>6
  <2>2. \A j \in ItemIds : items'[j].inStock => items'[j].price = 0
    BY <1>5, <1>6, <2>1
  <2>3. ASSUME status' = "APPROVED", NEW j \in ItemIds, Charged(items'[j])
        PROVE  approved'[j] = items'[j]
    BY <1>5, <1>6, <2>1, <2>3
  <2> QED
    BY <2>2, <2>3 DEF RowsApproved, Charged
<1>7. CASE CommitRemoveItem(p)
  <2>1. items' = [items EXCEPT ![i] = NoRow] /\ status' = status /\ approved' = approved
    BY <1>7 DEF CommitRemoveItem
  <2>2. RowsApproved'
    <3>1. NoRow.price = 0 /\ ~Charged(NoRow)
      BY DEF NoRow, Charged
    <3> QED
      BY <1>6, <2>1, <3>1
  <2>3. \A j \in ItemIds : items'[j] = items[j] \/ ~items'[j].exists
    BY <1>2, <1>4, <2>1 DEF NoRow
  <2> QED
    BY <1>1, <2>1, <2>2, <2>3, FinishValues
<1>8. CASE CommitSetItemStock(p)
  <2> DEFINE b   == call[p].inStock
             row == [items[i] EXCEPT !.inStock = b, !.price = IF b THEN 0 ELSE items[i].price]
  <2>1. /\ items' = [items EXCEPT ![i] = row]
        /\ items[i] \in Rows
        /\ items[i].inStock # b
        /\ status' = status /\ approved' = approved
    BY <1>2, <1>3, <1>4, <1>8, RowShape DEF CommitSetItemStock, Existing
  <2>2. b \in BOOLEAN /\ Values(p)
    BY <1>8, CallShape DEF CommitSetItemStock, At, Base, Typed, ProcType, Values, ValueOps
  <2>3. row.inStock = b /\ row.price = IF b THEN 0 ELSE items[i].price
    BY <2>1 DEF Rows
  <2>4. ~b => items[i].price = 0
    BY <1>2, <1>5, <2>1, <2>2 DEF Rows
  <2>5. row.price = 0
    BY <2>3, <2>4
  <2> HIDE DEF row
  <2>6. RowsApproved'
    BY <1>6, <2>1, <2>5 DEF Charged
  <2> QED
    BY <1>1, <2>2, <2>6, FinishValues
<1>9. CASE CommitEditItem(p)
  <2>1. PICK quantity \in 1..MaxQty, otherMaterial \in BOOLEAN :
           /\ items' = [items EXCEPT ![i] =
                           [items[i] EXCEPT !.quantity = quantity,
                                !.price = IF otherMaterial THEN 0 ELSE items[i].price]]
           /\ status' = IF Reopens(seen[p].rows[i], otherMaterial, quantity)
                        THEN "QUOTING" ELSE status
           /\ approved' = IF Reopens(seen[p].rows[i], otherMaterial, quantity)
                          THEN NoRows ELSE approved
    BY <1>9, <1>2, <1>4 DEF CommitEditItem
  <2> DEFINE row == [items[i] EXCEPT !.quantity = quantity,
                         !.price = IF otherMaterial THEN 0 ELSE items[i].price]
  <2>2. items[i] \in Rows
    BY <1>2, <1>3, <1>4, <1>9, RowShape DEF CommitEditItem, Existing
  <2>3. Values(p)
    BY <1>9 DEF CommitEditItem, At, Values, ValueOps
  <2>4. /\ row.inStock = items[i].inStock
        /\ row.price = IF otherMaterial THEN 0 ELSE items[i].price
        /\ quantity = items[i].quantity /\ ~otherMaterial => row = items[i]
    BY <2>2 DEF Rows
  <2>5. row.inStock => row.price = 0
    BY <1>2, <1>5, <2>4
  <2>6. \/ status' # "APPROVED"
        \/ /\ status' = status /\ approved' = approved
           /\ Charged(row) => row = items[i]
    <3>1. CASE Reopens(items[i], otherMaterial, quantity)
      BY <1>3, <2>1, <3>1
    <3>2. CASE ~Reopens(items[i], otherMaterial, quantity)
      <4>1. status' = status /\ approved' = approved
        BY <1>3, <2>1, <3>2
      <4>2. status = "APPROVED" =>
               items[i].inStock \/ (~otherMaterial /\ quantity = items[i].quantity)
        BY <3>2 DEF Reopens
      <4> HIDE DEF row
      <4> QED
        BY <2>4, <4>1, <4>2 DEF Charged
    <3> QED
      BY <3>1, <3>2
  <2>7. items' = [items EXCEPT ![i] = row]
    BY <2>1
  <2> HIDE DEF row
  <2>8. RowsApproved'
    BY <1>6, <2>5, <2>6, <2>7
  <2> QED
    BY <1>1, <2>3, <2>8, FinishValues
<1> QED
  BY <1>7, <1>8, <1>9

LEMMA NextValues == Base /\ ValueInv /\ OneValueCall /\ [Next]_vars => ValueInv'
<1> SUFFICES ASSUME Base, ValueInv, OneValueCall, [Next]_vars PROVE ValueInv'
  OBVIOUS
<1>1. CASE UNCHANGED vars
  BY <1>1 DEF vars, ValueInv, RowsApproved, Ready, At, Kept
<1>2. ASSUME NEW p \in Procs,
             AcquireLock(p) \/ ReadBalance(p) \/ Abort(p) \/ OrderStep(p) \/ RequestStep(p)
      PROVE  ValueInv'
  <2>1. CASE AcquireLock(p) \/ ReadBalance(p) \/ ReadTotal(p)
    BY <2>1, ReadValues
  <2>2. CASE Abort(p) \/ CommitCreate(p) \/ CommitReline(p) \/ CommitPatch(p)
             \/ CommitCancelOrder(p) \/ CommitRemoveOrder(p) \/ CommitRestoreOrder(p)
    <3>1. Finish(p) /\ UNCHANGED requestVars
      BY <2>2 DEF Abort, CommitCreate, CommitReline, CommitPatch, CommitCancelOrder,
         CommitRemoveOrder, CommitRestoreOrder, Overwrite
    <3> QED
      BY <3>1, OrdersValues
  <2>3. CASE OrderStep(p)
    BY <2>2, <2>3, BeginOrderValues DEF OrderStep
  <2>4. CASE RequestStep(p)
    BY <2>1, <2>4, BeginRequestValues, StatusValues, NewRowsValues, OneRowValues
    DEF RequestStep
  <2> QED
    BY <1>2, <2>1, <2>2, <2>3, <2>4
<1> QED
  BY <1>1, <1>2 DEF Next

LEMMA InitValues == Init => ValueInv
<1> SUFFICES ASSUME Init PROVE ValueInv
  OBVIOUS
<1>1. \A i \in ItemIds : ~items[i].inStock
  BY DEF Init, Drafts, NoRow
<1> QED
  BY <1>1 DEF Init, ValueInv, RowsApproved, Ready, At

(* While the calls that change the status or the value come one at a time, *)
(* the others as they like, an approved request is never worth more than   *)
(* what was approved (assertWithinPurchaseThreshold, and the reopening in  *)
(* updateItem).                                                            *)
THEOREM ApprovalsCoverTheTotal == Spec /\ []OneValueCall => []ApprovalCoversTotal
<1>1. ValueInv /\ IInv => ApprovalCoversTotal
  BY RowsApprovedCover DEF ValueInv, IInv, Base
<1>2. IInv => Base
  BY DEF IInv
<1> QED
  BY <1>1, <1>2, InitValues, NextValues, InvariantHolds, PTL DEF Spec
=============================================================================
