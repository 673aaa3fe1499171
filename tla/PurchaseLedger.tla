--------------------------- MODULE PurchaseLedger ---------------------------
(***************************************************************************)
(* What the purchasing module promises about quantities, one atomic step   *)
(* at a time: an order takes no more of a line than is left of it, gives   *)
(* back what it took, and a line changes only while nobody has bought it.  *)
(***************************************************************************)
EXTENDS Naturals, FiniteSets

CONSTANTS LineIds, Buyers, MaxQty

VARIABLES
    wanted,     \* quantity to buy of each line, 0 when there is none to buy
    bought      \* what each order has taken of each line

Nothing == [i \in LineIds |-> 0]

TakenByOthers(o, i) ==
    Cardinality({u \in (Buyers \ {o}) \X (1..MaxQty) : u[2] <= bought[u[1]][i]})

Init ==
    /\ wanted \in [LineIds -> 0..MaxQty]
    /\ bought = [o \in Buyers |-> Nothing]

(* An order takes its lines, in place of what it had taken before.         *)
Buy(o) ==
    /\ \E take \in [LineIds -> 0..MaxQty] :
        /\ \A i \in LineIds : take[i] > 0 => TakenByOthers(o, i) + take[i] <= wanted[i]
        /\ bought' = [bought EXCEPT ![o] = take]
    /\ UNCHANGED wanted

Release(o) ==
    /\ bought' = [bought EXCEPT ![o] = Nothing]
    /\ UNCHANGED wanted

Revise ==
    /\ wanted' \in [LineIds -> 0..MaxQty]
    /\ \A i \in LineIds : (\E o \in Buyers : bought[o][i] > 0) => wanted'[i] = wanted[i]
    /\ UNCHANGED bought

Next == Revise \/ \E o \in Buyers : Buy(o) \/ Release(o)

Spec == Init /\ [][Next]_<<wanted, bought>>
=============================================================================
