---------------------------- MODULE Fulfillment ----------------------------
(***************************************************************************)
(* The arithmetic of "atendimento": how much of a requested line has been  *)
(* bought, what is still pending, and the status shown for a line and for  *)
(* the whole request (compras/fulfillment.ts).  Quantities are naturals:   *)
(* the Decimal(12,3) columns counted in thousandths of a unit.             *)
(***************************************************************************)
EXTENDS Naturals, FiniteSets

(* What is left to buy of a line; never negative, because orders emitted   *)
(* before the rule existed may exceed what was asked.                      *)
pendingOf(requested, fulfilled) ==
    IF fulfilled > requested THEN 0 ELSE requested - fulfilled

statusOf(requested, fulfilled) ==
    IF fulfilled = 0 THEN "PENDING"
    ELSE IF fulfilled >= requested THEN "FULFILLED" ELSE "PARTIAL"

(* One line: a line found in stock needs no purchase at all.               *)
buildItemFulfillment(requested, fulfilled, inStock) ==
    [ fulfilled |-> fulfilled,
      pending   |-> IF inStock THEN 0 ELSE pendingOf(requested, fulfilled),
      status    |-> IF inStock THEN "FULFILLED" ELSE statusOf(requested, fulfilled) ]

(* Mutant: one line bought in full is enough.                              *)
aggregateFulfillmentAny(f) ==
    LET Done == {i \in DOMAIN f : f[i].status = "FULFILLED"}
    IN  [ status |-> IF DOMAIN f = {} THEN "PENDING"
                     ELSE IF Done # {} THEN "FULFILLED"
                     ELSE IF \E i \in DOMAIN f : f[i].status # "PENDING"
                          THEN "PARTIAL" ELSE "PENDING",
          totalItems     |-> Cardinality(DOMAIN f),
          fulfilledItems |-> Cardinality(Done),
          pendingItems   |-> Cardinality(DOMAIN f) - Cardinality(Done) ]

(* The request, from its lines f \in [some set -> line fulfilment].        *)
aggregateFulfillment(f) ==
    LET Done == {i \in DOMAIN f : f[i].status = "FULFILLED"}
    IN  [ status |-> IF DOMAIN f = {} THEN "PENDING"
                     ELSE IF Done = DOMAIN f THEN "FULFILLED"
                     ELSE IF \E i \in DOMAIN f : f[i].status # "PENDING"
                          THEN "PARTIAL" ELSE "PENDING",
          totalItems     |-> Cardinality(DOMAIN f),
          fulfilledItems |-> Cardinality(Done),
          pendingItems   |-> Cardinality(DOMAIN f) - Cardinality(Done) ]
=============================================================================
