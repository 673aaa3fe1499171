--------------------------- MODULE MCInboundNotes ---------------------------
(* Small instances of InboundNotes.                                        *)
EXTENDS InboundNotes, TLC

CONSTANTS s1, s2    \* the issuer's row of the register, and another's

Symmetry == Permutations(Procs) \cup Permutations(NoteIds) \cup Permutations(Papers)
                \cup Permutations(InvoiceIds)

UserOps == {"createNote", "reconcile", "cancelNote", "cancelOrder"}
OfTheIssuer == {s1}
Unsure == {s1, None}

(* One at a time: three documents of a note; two, and what users type of   *)
(* it; an order that two notes are reconciled with; what becomes of one    *)
(* debt; what edits do to an order that one or two notes are reconciled    *)
(* with.                                                                   *)
Queueing == [calls |-> 1, ops |-> {"createNote", "reconcile"}, papers |-> 1, docs |-> 3,
             kinds |-> Kinds, totals |-> {1}, orders |-> {1}, parts |-> {1},
             suppliers |-> OfTheIssuer, lookups |-> OfTheIssuer]
Importing == [calls |-> 1, ops |-> {"createNote", "reconcile", "cancelNote"}, papers |-> 1,
              docs |-> 2, kinds |-> Kinds, totals |-> {1, 2}, orders |-> {2},
              parts |-> {1}, suppliers |-> {s2}, lookups |-> Unsure]
Reconciling == [calls |-> 1, ops |-> UserOps \cup {"pay"}, papers |-> 2,
                docs |-> 0, kinds |-> {}, totals |-> {1, 2}, orders |-> {1, 2},
                parts |-> {1, 2}, suppliers |-> OfTheIssuer, lookups |-> OfTheIssuer]
Adjusting == [calls |-> 1, ops |-> UserOps \cup {"pay", "adjust", "removeInvoice"}, papers |-> 1,
              docs |-> 0, kinds |-> {}, totals |-> {1}, orders |-> {1}, parts |-> {1},
              suppliers |-> OfTheIssuer, lookups |-> OfTheIssuer]
Editing == [calls |-> 1, ops |-> UserOps \cup {"editOrder"}, papers |-> 1,
            docs |-> 0, kinds |-> {}, totals |-> {1, 2}, orders |-> {1, 2}, parts |-> {1},
            suppliers |-> {s1, s2}, lookups |-> Unsure]
(* Two at once, over one note.                                             *)
Racing == [calls |-> 2, ops |-> UserOps, papers |-> 1,
           docs |-> 1, kinds |-> {"full", "cancellation"}, totals |-> {1}, orders |-> {1},
           parts |-> {1}, suppliers |-> OfTheIssuer, lookups |-> OfTheIssuer]
(* Two at once, a note whose issuer is or is not registered, an order of   *)
(* another supplier.                                                       *)
RacingSuppliers == [calls |-> 2, ops |-> {"createNote", "reconcile", "removeInvoice"}, papers |-> 1,
                    docs |-> 0, kinds |-> {}, totals |-> {1}, orders |-> {1},
                    parts |-> {1}, suppliers |-> {s2}, lookups |-> Unsure]
Loads == {Queueing, Importing, Reconciling, Adjusting, Editing, Racing, RacingSuppliers}
Races == {RacingSuppliers}
=============================================================================
