------------------------- MODULE ProcurementLedger -------------------------
(* Procurement as an implementation of PurchaseLedger: a line is worth its *)
(* quantity unless it is in stock or gone, and an order holds its lines    *)
(* while it counts.                                                        *)
EXTENDS Procurement

wanted == [i \in ItemIds |-> IF items[i].inStock THEN 0 ELSE items[i].quantity]
bought == [o \in OrderIds |-> IF Counts(orders[o]) THEN orders[o].lines ELSE NoLines]

Ledger == INSTANCE PurchaseLedger WITH LineIds <- ItemIds, Buyers <- OrderIds

(* The concurrent handlers, each reading and writing in several database   *)
(* calls, behave as if every purchase, return and change of a line         *)
(* happened in one step against the current balance, until an order counts *)
(* again unchecked.                                                        *)
ImplementsLedger ==
    Ledger!Init /\ [][~revived' => [Ledger!Next]_<<wanted, bought>>]_vars
=============================================================================
