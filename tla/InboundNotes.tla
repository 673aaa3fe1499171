---------------------------- MODULE InboundNotes ----------------------------
(***************************************************************************)
(* The notes (notas fiscais) that a company receives: typed by users or    *)
(* imported from the fiscal documents, reconciled with a purchase order,   *)
(* which creates the debt, or cancelled by users, by the issuer's event or *)
(* with the order.                                                         *)
(*                                                                         *)
(* The importer is one process at a time (a lock in memory).  Neither it   *)
(* nor the users' calls lock a note: what they decide from is read before  *)
(* the transaction that writes.  Only the unique indexes protect.          *)
(***************************************************************************)
EXTENDS Sequences, FiniteSets, Sums

CONSTANTS
    Procs,      \* concurrent HTTP requests
    NoteIds,    \* ids of InboundInvoice rows
    Papers,     \* the notes themselves: access keys, and issuer + number
    OrderIds,   \* purchase orders
    Suppliers,  \* rows of the supplier register
    InvoiceIds, \* ids of Invoice rows
    None,
    MaxTotal,   \* bound on values, in cents
    Workloads   \* what happens in an instance: see Init

ASSUME NoneAssumption ==
    None \notin Papers \cup OrderIds \cup InvoiceIds \cup NoteIds \cup Suppliers
ASSUME BoundsAssumption == MaxTotal \in Nat \ {0}
ASSUME RowsAssumption == IsFiniteSet(Procs) /\ IsFiniteSet(NoteIds) /\ IsFiniteSet(InvoiceIds)

VARIABLES
    amount,     \* the value of each note at its issuer
    docs,       \* FiscalDocument in the order of their NSU
    notes,      \* InboundInvoice
    orders,     \* PurchaseOrder
    invoices,   \* Invoice with its AccountPayable rows
    importer,   \* FiscalImportService: where it is and its local variables
    stage, call, seen,
    workload

notesVars == <<amount, docs, notes, orders, invoices, importer, stage, call, seen, workload>>
rows == <<notes, orders, invoices>>
userVars == <<stage, call, seen>>

Totals == 1..MaxTotal
Kinds == {"summary", "cancelledSummary", "full", "cancellation"}

(* Values are positive (@IsPositive); a debt has parcels (TERM_OFFSETS).   *)
(* suppliers are those of the orders; lookups is what the register may     *)
(* answer for the issuer's document, which may be missing or added later.  *)
ASSUME WorkloadAssumption ==
    Workloads \subseteq [calls: Nat, ops: SUBSET STRING, papers: Nat, docs: Nat,
                         kinds: SUBSET Kinds, totals: SUBSET Totals, orders: SUBSET Totals,
                         parts: SUBSET (Nat \ {0}), suppliers: SUBSET Suppliers,
                         lookups: SUBSET (Suppliers \cup {None})]

Docs == [kind: Kinds, paper: Papers, status: {"FORWARDED", "PROCESSED", "ERROR"}]

(* keyed, serial: the access key and the series are filled in.  items: how *)
(* many copies of its lines are stored.                                    *)
Notes == [status: {"NONE", "PENDING", "RECONCILED", "DIVERGENT", "CANCELLED"},
          paper: Papers \cup {None}, keyed: BOOLEAN, serial: BOOLEAN, total: 0..MaxTotal,
          full: BOOLEAN, items: 0..1, supplier: Suppliers \cup {None},
          order: OrderIds \cup {None}, invoice: InvoiceIds \cup {None}]
NewNote(k, keyed, serial, total, full, supplier) ==
    [status |-> "PENDING", paper |-> k, keyed |-> keyed, serial |-> serial, total |-> total,
     full |-> full, items |-> IF full THEN 1 ELSE 0, supplier |-> supplier, order |-> None,
     invoice |-> None]
NoNote == [NewNote(None, FALSE, FALSE, 0, FALSE, None) EXCEPT !.status = "NONE"]

(* account: the accounts payable of the invoice are open, some were paid,  *)
(* or none is left.  removed: deletedAt.  note is history, and so is       *)
(* adjusted: the finance team itself changed, cancelled, removed or        *)
(* restored an account of it.  parcels are those it was created with.      *)
NoInvoice == [status |-> "NONE", note |-> None, paper |-> None, serial |-> FALSE,
              supplier |-> None, order |-> None, total |-> 0, parcels |-> << >>,
              account |-> "OPEN", removed |-> FALSE, adjusted |-> FALSE]

(* patched is history: a PATCH wrote the order's status since it was last  *)
(* cancelled with what it caused.                                          *)
Orders == [live: BOOLEAN, total: Totals, supplier: Suppliers, patched: BOOLEAN]

RECONCILABLE_STATUSES == {"PENDING"}

(* Mutant: a divergent note leaves the order's value open.                 *)
ConsumingReconciledOnly == {"RECONCILED"}

CONSUMING_STATUSES == {"RECONCILED", "DIVERGENT"}

Idle == [step |-> "idle", doc |-> 0, found |-> None, outcome |-> "PROCESSED"]
NoCall == [op |-> "none"]
NothingSeen == [note |-> NoNote, open |-> 0, supplier |-> None]
-----------------------------------------------------------------------------
Exists(r) == notes[r].status # "NONE"
Conciliated(r) == notes[r].status \in {"RECONCILED", "DIVERGENT"}
Issued(v) == invoices[v].status # "NONE"

(* There are accounts to pay, or that were paid, whatever became of the    *)
(* invoice itself: its removal leaves them.                                *)
Owed(v) == Issued(v) /\ invoices[v].account # "CANCELLED"

(* reconciledAmountByOrder.                                                *)
Consumed(o) ==
    SumOver([r \in NoteIds |-> notes[r].total],
            {r \in NoteIds : notes[r].order = o /\ notes[r].status \in CONSUMING_STATUSES})

SumOf(parcels) == SumOver(parcels, DOMAIN parcels)

(* buildInstallments: n parts in cents, the remainder in the last.         *)
buildInstallments(total, n) ==
    [i \in 1..n |-> IF i < n THEN total \div n ELSE total - (n - 1) * (total \div n)]

(* Unique (issuer, series, number) and unique access key, for a row other  *)
(* than r.                                                                 *)
Insertable(r, note) ==
    \A s \in NoteIds \ {r} : Exists(s) /\ notes[s].paper = note.paper =>
        ~(notes[s].keyed /\ note.keyed) /\ ~(notes[s].serial /\ note.serial)

(* Bound: how many notes an instance is about.                             *)
Named == {notes[r].paper : r \in {r \in NoteIds : Exists(r)}} \cup {docs[d].paper : d \in DOMAIN docs}
PapersAtHand == {k \in Papers : k \in Named \/ Cardinality(Named) < workload.papers}

Busy == {p \in Procs : stage[p] # "idle"}
Room == Cardinality(Busy) + (IF importer.step = "idle" THEN 0 ELSE 1) < workload.calls
-----------------------------------------------------------------------------
(* The fiscal documents, as the synchronisation forwards them.             *)
Arrive ==
    /\ Len(docs) < workload.docs
    /\ \E kind \in workload.kinds, k \in PapersAtHand :
        docs' = Append(docs, [kind |-> kind, paper |-> k, status |-> "FORWARDED"])
    /\ UNCHANGED <<amount, rows, importer, userVars, workload>>

Forwarded == {d \in DOMAIN docs : docs[d].status = "FORWARDED"}
Complete(doc) == doc.kind = "full"

ImporterOnly == UNCHANGED <<amount, orders, invoices, userVars, workload>>

MarkAs(outcome) == importer' = [importer EXCEPT !.step = "mark", !.outcome = outcome]

Keyed(k) == {r \in NoteIds : Exists(r) /\ notes[r].keyed /\ notes[r].paper = k}

(* aplicarNota skips a document that has nothing to add to the row.        *)
Skips(doc, note) ==
    \/ note.full /\ ~Complete(doc)
    \/ /\ note.status \in CONSUMING_STATUSES
       /\ ~Complete(doc) \/ note.total # amount[doc.paper]

(* processPending takes the first document forwarded; aplicarNota reads    *)
(* the row with its key.                                                   *)
ImportRead ==
    /\ importer.step = "idle" /\ Forwarded # {} /\ Room
    /\ LET d == Min(Forwarded)
           found == Keyed(docs[d].paper)
           at(step, r) == [step |-> step, doc |-> d, found |-> r, outcome |-> "PROCESSED"]
       IN  importer' =
               IF docs[d].kind = "cancellation" THEN at("event", None)
               ELSE IF found = {} THEN at("create", None)
               ELSE LET r == CHOOSE r \in found : TRUE
                    IN  IF Skips(docs[d], notes[r]) THEN at("mark", r)
                        ELSE IF notes[r].status \in CONSUMING_STATUSES THEN at("enrich", r)
                        ELSE at("update", r)
    /\ UNCHANGED <<docs, notes>> /\ ImporterOnly

Doc == docs[importer.doc]

(* The supplier that a document leaves in the row: the one the register    *)
(* answers; a summary (limparNulos) does not erase one with nothing.       *)
Resolved(old) ==
    {IF found = None /\ ~Complete(Doc) THEN old ELSE found : found \in workload.lookups}

(* Mutant: the lines that a row had are not deleted first.                 *)
ImportUpdateAppends ==
    /\ importer.step = "update"
    /\ \E supplier \in Resolved(notes[importer.found].supplier) :
       LET r == importer.found
           new == [notes[r] EXCEPT !.total = amount[Doc.paper], !.full = Complete(Doc),
                       !.serial = TRUE, !.supplier = supplier,
                       !.items = IF Complete(Doc) THEN @ + 1 ELSE @,
                       !.status = IF Doc.kind = "cancelledSummary" THEN "CANCELLED" ELSE @]
       IN  IF Insertable(r, new) THEN notes' = [notes EXCEPT ![r] = new] /\ MarkAs("PROCESSED")
           ELSE UNCHANGED notes /\ MarkAs("ERROR")
    /\ UNCHANGED docs /\ ImporterOnly

(* Mutant: a cancelled note is not told from a pending one.                *)
ImportUpdateReopens ==
    /\ importer.step = "update"
    /\ \E supplier \in Resolved(notes[importer.found].supplier) :
       LET r == importer.found
           new == [notes[r] EXCEPT !.total = amount[Doc.paper], !.full = Complete(Doc),
                       !.serial = TRUE, !.supplier = supplier,
                       !.items = IF Complete(Doc) THEN 1 ELSE @,
                       !.status = "PENDING"]
       IN  IF Insertable(r, new) THEN notes' = [notes EXCEPT ![r] = new] /\ MarkAs("PROCESSED")
           ELSE UNCHANGED notes /\ MarkAs("ERROR")
    /\ UNCHANGED docs /\ ImporterOnly

(* The header is replaced, and by the complete document the items too, on  *)
(* what the row was when it was read.  A summary may say it is cancelled.  *)
ImportUpdate ==
    /\ importer.step = "update"
    /\ \E supplier \in Resolved(notes[importer.found].supplier) :
       LET r == importer.found
           new == [notes[r] EXCEPT !.total = amount[Doc.paper], !.full = Complete(Doc),
                       !.serial = TRUE, !.supplier = supplier,
                       !.items = IF Complete(Doc) THEN 1 ELSE @,
                       !.status = IF Doc.kind = "cancelledSummary" THEN "CANCELLED" ELSE @]
       IN  IF Insertable(r, new) THEN notes' = [notes EXCEPT ![r] = new] /\ MarkAs("PROCESSED")
           ELSE UNCHANGED notes /\ MarkAs("ERROR")
    /\ UNCHANGED docs /\ ImporterOnly

(* apenasEnriquecimento: a row that is a debt gets only what the summary   *)
(* did not have.                                                           *)
ImportEnrich ==
    /\ importer.step = "enrich"
    /\ notes' = [notes EXCEPT ![importer.found].full = TRUE, ![importer.found].items = 1]
    /\ MarkAs("PROCESSED")
    /\ UNCHANGED docs /\ ImporterOnly

ImportCreate ==
    /\ importer.step = "create"
    /\ \E supplier \in workload.lookups :
       LET pending == NewNote(Doc.paper, TRUE, TRUE, amount[Doc.paper], Complete(Doc), supplier)
           new == IF Doc.kind = "cancelledSummary" THEN [pending EXCEPT !.status = "CANCELLED"]
                  ELSE pending
       IN  \/ \E r \in NoteIds :
                  /\ ~Exists(r) /\ Insertable(r, new)
                  /\ notes' = [notes EXCEPT ![r] = new] /\ MarkAs("PROCESSED")
           \/ ~Insertable(None, new) /\ UNCHANGED notes /\ MarkAs("ERROR")
    /\ UNCHANGED docs /\ ImporterOnly

(* aplicarEvento: one conditional statement.                               *)
ImportEvent ==
    /\ importer.step = "event"
    /\ notes' = [r \in NoteIds |->
                    IF r \in Keyed(Doc.paper) /\ notes[r].status = "PENDING"
                    THEN [notes[r] EXCEPT !.status = "CANCELLED"] ELSE notes[r]]
    /\ MarkAs("PROCESSED")
    /\ UNCHANGED docs /\ ImporterOnly

(* The document and its log, in a transaction of their own.                *)
ImportMark ==
    /\ importer.step = "mark"
    /\ docs' = [docs EXCEPT ![importer.doc].status = importer.outcome]
    /\ importer' = Idle
    /\ UNCHANGED notes /\ ImporterOnly

(* An error of the database: nothing is written, the document is ERROR.    *)
ImportFails ==
    /\ importer.step \in {"create", "update", "enrich", "event"}
    /\ MarkAs("ERROR")
    /\ UNCHANGED <<docs, notes>> /\ ImporterOnly

(* The process ends, and the document is still FORWARDED when it is back.  *)
ImportCrash ==
    /\ importer.step # "idle"
    /\ importer' = Idle
    /\ UNCHANGED <<docs, notes>> /\ ImporterOnly

Import ==
    \/ ImportRead \/ ImportUpdate \/ ImportEnrich \/ ImportCreate \/ ImportEvent
    \/ ImportMark \/ ImportFails \/ ImportCrash
-----------------------------------------------------------------------------
(* The users' calls.                                                       *)
BeginCall(p, c, step) ==
    /\ c.op \in workload.ops /\ stage[p] = "idle" /\ Room
    /\ call' = [call EXCEPT ![p] = c]
    /\ stage' = [stage EXCEPT ![p] = step]

At(p, step, op) == stage[p] = step /\ call[p].op = op

EndCall(p) ==
    /\ stage' = [stage EXCEPT ![p] = "idle"]
    /\ call' = [call EXCEPT ![p] = NoCall]
    /\ seen' = [seen EXCEPT ![p] = NothingSeen]

UserOnly == UNCHANGED <<amount, docs, importer, workload>>

(* A refusal, an error of the database, or the end of the process.         *)
Abort(p) == stage[p] # "idle" /\ EndCall(p) /\ UNCHANGED rows /\ UserOnly

(* create: one statement, with or without the key, the series, the items.  *)
(* The register is asked for the issuer's document just before.            *)
(* "number" alone does not identify a note without series.                 *)
CreateNote(p) ==
    /\ "createNote" \in workload.ops /\ stage[p] = "idle" /\ Room
    /\ \E r \in NoteIds, k \in PapersAtHand, keyed, serial \in BOOLEAN,
          total \in workload.totals, supplier \in workload.lookups :
        LET new == NewNote(k, keyed, serial, total, FALSE, supplier)
        IN  /\ ~Exists(r) /\ Insertable(r, new)
            /\ notes' = [notes EXCEPT ![r] = new]
    /\ UNCHANGED <<orders, invoices, userVars>> /\ UserOnly

(* reconcile, with an order or with none (then a cost centre is given).    *)
(* That a divergence is not accepted is an Abort.                          *)
BeginReconcile(p) ==
    /\ \E r \in NoteIds, o \in OrderIds \cup {None} :
        /\ notes[r].status \in RECONCILABLE_STATUSES
        /\ BeginCall(p, [op |-> "reconcile", note |-> r, order |-> o], "order")
        /\ seen' = [seen EXCEPT ![p].note = notes[r]]
    /\ UNCHANGED rows /\ UserOnly

(* An order of another supplier is refused only where the note has one.    *)
(* The debt is the order's supplier's; without an order, the note's, or    *)
(* the one that the register has by now.  The order, what is reconciled    *)
(* with it and the register are read in one step.                          *)
ReadOrder(p) ==
    /\ At(p, "order", "reconcile")
    /\ LET o == call[p].order
           mine == seen[p].note.supplier
       IN  \/ /\ o = None
              /\ \E supplier \in (IF mine # None THEN {mine} ELSE workload.lookups) \ {None} :
                    seen' = [seen EXCEPT ![p].supplier = supplier]
           \/ /\ o # None /\ orders[o].live
              /\ mine \in {None, orders[o].supplier}
              /\ orders[o].total > Consumed(o)
              /\ seen' = [seen EXCEPT ![p].open = orders[o].total - Consumed(o),
                                      ![p].supplier = orders[o].supplier]
    /\ stage' = [stage EXCEPT ![p] = "write"]
    /\ UNCHANGED <<rows, call>> /\ UserOnly

(* Mutant: the index of invoices does not stand in the way.                *)
FreshInvoicesAny(note, supplier) == {v \in InvoiceIds : ~Issued(v)}

(* Unique (supplier, series, number) of Invoice: a removal changes the     *)
(* number, and without a series nothing is compared.                       *)
Taken(paper, supplier) ==
    \E w \in InvoiceIds : /\ invoices[w].serial /\ ~invoices[w].removed
                          /\ invoices[w].paper = paper /\ invoices[w].supplier = supplier

FreshInvoices(note, supplier) ==
    {v \in InvoiceIds : ~Issued(v) /\ (note.serial => ~Taken(note.paper, supplier))}

NewInvoice(c, note, supplier, parcels) ==
    [status |-> "VALIDATED", note |-> c.note, paper |-> note.paper, serial |-> note.serial,
     supplier |-> supplier, order |-> c.order, total |-> note.total, parcels |-> parcels,
     account |-> "OPEN", removed |-> FALSE, adjusted |-> FALSE]

(* Mutant: the accounts are those of the order's open amount.              *)
CommitReconcileOpen(p) ==
    /\ At(p, "write", "reconcile")
    /\ LET c == call[p]
           note == seen[p].note
           diverges == c.order # None /\ note.total # seen[p].open
           owed == IF c.order = None THEN note.total ELSE seen[p].open
       IN  \E v \in FreshInvoices(note, seen[p].supplier), n \in workload.parts :
            /\ invoices' = [invoices EXCEPT ![v] =
                   NewInvoice(c, note, seen[p].supplier, buildInstallments(owed, n))]
            /\ notes' = [notes EXCEPT ![c.note] =
                   [@ EXCEPT !.status = IF diverges THEN "DIVERGENT" ELSE "RECONCILED",
                             !.supplier = seen[p].supplier, !.order = c.order,
                             !.invoice = v]]
    /\ EndCall(p)
    /\ UNCHANGED orders /\ UserOnly

(* One transaction: the invoice, its accounts, and the note, whatever its  *)
(* row is by now.                                                          *)
CommitReconcile(p) ==
    /\ At(p, "write", "reconcile")
    /\ LET c == call[p]
           note == seen[p].note
           diverges == c.order # None /\ note.total # seen[p].open
       IN  \E v \in FreshInvoices(note, seen[p].supplier), n \in workload.parts :
            /\ invoices' = [invoices EXCEPT ![v] =
                   NewInvoice(c, note, seen[p].supplier, buildInstallments(note.total, n))]
            /\ notes' = [notes EXCEPT ![c.note] =
                   [@ EXCEPT !.status = IF diverges THEN "DIVERGENT" ELSE "RECONCILED",
                             !.supplier = seen[p].supplier, !.order = c.order,
                             !.invoice = v]]
    /\ EndCall(p)
    /\ UNCHANGED orders /\ UserOnly

BeginCancelNote(p) ==
    /\ \E r \in NoteIds :
        notes[r].status = "PENDING" /\ BeginCall(p, [op |-> "cancelNote", note |-> r], "write")
    /\ UNCHANGED <<rows, seen>> /\ UserOnly

CommitCancelNote(p) ==
    /\ At(p, "write", "cancelNote")
    /\ notes' = [notes EXCEPT ![call[p].note].status = "CANCELLED"]
    /\ EndCall(p)
    /\ UNCHANGED <<orders, invoices>> /\ UserOnly

(* PurchaseOrdersService.cancel, refused where an account was paid.        *)
BeginCancelOrder(p) ==
    /\ \E o \in OrderIds :
        /\ orders[o].live
        /\ \A v \in InvoiceIds : invoices[v].order = o => invoices[v].account # "PAID"
        /\ BeginCall(p, [op |-> "cancelOrder", order |-> o], "write")
    /\ UNCHANGED <<rows, seen>> /\ UserOnly

(* What the order caused is cancelled with it: accounts still open, its    *)
(* invoices that are not removed, and its notes.                           *)
CommitCancelOrder(p) ==
    /\ At(p, "write", "cancelOrder")
    /\ LET o == call[p].order
       IN  /\ orders' = [orders EXCEPT ![o].live = FALSE, ![o].patched = FALSE]
           /\ invoices' = [v \in InvoiceIds |->
                  IF invoices[v].order # o THEN invoices[v]
                  ELSE [invoices[v] EXCEPT
                            !.status = IF invoices[v].removed THEN @ ELSE "CANCELLED",
                            !.account = IF @ = "OPEN" THEN "CANCELLED" ELSE @]]
           /\ notes' = [r \in NoteIds |->
                  IF notes[r].order # o THEN notes[r]
                  ELSE [notes[r] EXCEPT !.status = "CANCELLED"]]
    /\ EndCall(p) /\ UserOnly

(* PurchaseOrdersService.update: items (and so the value), supplier and    *)
(* status, of any order; nobody asks what has been reconciled with it.     *)
EditOrder(o) ==
    /\ "editOrder" \in workload.ops /\ Room
    /\ \E total \in workload.orders \cup {orders[o].total},
          supplier \in workload.suppliers \cup {orders[o].supplier}, live \in BOOLEAN :
        orders' = [orders EXCEPT ![o] =
            [live |-> live, total |-> total, supplier |-> supplier,
             patched |-> orders[o].patched \/ live # orders[o].live]]
    /\ UNCHANGED <<notes, invoices, userVars>> /\ UserOnly

(* Calls of one statement about an invoice.                                *)
OnInvoice(op, v, new) ==
    /\ op \in workload.ops /\ Issued(v) /\ Room
    /\ invoices' = [invoices EXCEPT ![v] = new]
    /\ UNCHANGED <<notes, orders, userVars>> /\ UserOnly

(* InvoicesService.remove: of any status; its accounts and its note stay.  *)
RemoveInvoice(v) ==
    /\ ~invoices[v].removed
    /\ OnInvoice("removeInvoice", v, [invoices[v] EXCEPT !.removed = TRUE])

(* TrashService.restore, which gives the number back: the index decides,   *)
(* and the look-up for the number before it only refuses more.             *)
RestoreInvoice(v) ==
    /\ invoices[v].removed
    /\ invoices[v].serial => ~Taken(invoices[v].paper, invoices[v].supplier)
    /\ OnInvoice("removeInvoice", v, [invoices[v] EXCEPT !.removed = FALSE])

(* The finance team pays an account of the invoice, or cancels what it     *)
(* paid.                                                                   *)
PayInvoice(v) ==
    /\ invoices[v].account # "CANCELLED"
    /\ \E account \in {"OPEN", "PAID"} :
        OnInvoice("pay", v, [invoices[v] EXCEPT !.account = account])

(* It changes, cancels or removes accounts itself (Payables has the rules  *)
(* of an account), or takes one out of the trash.                          *)
AdjustDebt(v) ==
    \E account \in {"OPEN", "PAID", "CANCELLED"} :
        OnInvoice("adjust", v, [invoices[v] EXCEPT !.account = account, !.adjusted = TRUE])

User(p) ==
    \/ CreateNote(p) \/ Abort(p)
    \/ BeginReconcile(p) \/ ReadOrder(p) \/ CommitReconcile(p)
    \/ BeginCancelNote(p) \/ CommitCancelNote(p)
    \/ BeginCancelOrder(p) \/ CommitCancelOrder(p)
-----------------------------------------------------------------------------
NotesInit ==
    /\ workload \in Workloads
    /\ amount \in [Papers -> workload.totals]
    /\ workload.papers = 1 => \A k, l \in Papers : amount[k] = amount[l]
    /\ docs = << >>
    /\ notes = [r \in NoteIds |-> NoNote]
    /\ orders \in [OrderIds -> [live: {TRUE}, total: workload.orders,
                                supplier: workload.suppliers, patched: {FALSE}]]
    /\ invoices = [v \in InvoiceIds |-> NoInvoice]
    /\ importer = Idle
    /\ stage = [p \in Procs |-> "idle"]
    /\ call = [p \in Procs |-> NoCall]
    /\ seen = [p \in Procs |-> NothingSeen]

NotesNext ==
    \/ Arrive \/ Import
    \/ \E p \in Procs : User(p)
    \/ \E o \in OrderIds : EditOrder(o)
    \/ \E v \in InvoiceIds :
        RemoveInvoice(v) \/ RestoreInvoice(v) \/ PayInvoice(v) \/ AdjustDebt(v)

NotesSpec == NotesInit /\ [][NotesNext]_notesVars
-----------------------------------------------------------------------------
(* Correctness.                                                            *)

(* Every variable has its shape.  In it, that the lines of a note are      *)
(* stored once however often its document is processed.                    *)
NotesTypeOK ==
    /\ amount \in [Papers -> Totals]
    /\ docs \in Seq(Docs)
    /\ notes \in [NoteIds -> Notes]
    /\ orders \in [OrderIds -> Orders]
    /\ \A v \in InvoiceIds :
        /\ invoices[v].status \in {"NONE", "VALIDATED", "CANCELLED"}
        /\ invoices[v].account \in {"OPEN", "PAID", "CANCELLED"}
        /\ invoices[v].removed \in BOOLEAN /\ invoices[v].adjusted \in BOOLEAN
    /\ importer \in [step: {"idle", "create", "update", "enrich", "event", "mark"},
                     doc: 0..Len(docs), found: NoteIds \cup {None},
                     outcome: {"PROCESSED", "ERROR"}]
    /\ stage \in [Procs -> {"idle", "order", "write"}]

(* Calls and importer run one after the other.                             *)
OneAtATime == workload.calls = 1

(* A note with its series becomes a second invoice only where two calls    *)
(* reconcile it at once, and then beside the first only as another         *)
(* supplier's: the unique index decides, even where the note was entered   *)
(* twice, and whatever is removed and restored.                            *)
OneDebtPerNote ==
    \A v, w \in InvoiceIds :
        v # w /\ invoices[v].serial /\ invoices[w].serial /\ invoices[v].paper = invoices[w].paper =>
            /\ ~OneAtATime
            /\ \/ invoices[v].removed \/ invoices[w].removed
               \/ invoices[v].supplier # invoices[w].supplier

(* conciliacao-nf-oc.md: what a note was reconciled to is never a second   *)
(* account.  Stated of the notes with a series and the invoices that are   *)
(* not removed.                                                            *)
NoSecondDebt ==
    \A v, w \in InvoiceIds :
        /\ invoices[v].serial /\ ~invoices[v].removed
        /\ invoices[w].serial /\ ~invoices[w].removed
        /\ invoices[v].note = invoices[w].note
        => v = w

(* What its cascade leaves of an order: it is live, or a PATCH wrote its   *)
(* status.                                                                 *)
Standing(o) == orders[o].live \/ orders[o].patched

(* One call at a time, notes and debts tell the same, also once invoices   *)
(* were removed and restored and orders were edited: a note is reconciled  *)
(* with an invoice of its own whose accounts are there; accounts are those *)
(* of a reconciled note, of its own value, split without losing a cent,    *)
(* of its supplier and its order, and gone once that order is cancelled    *)
(* (not PATCHed).  Until the finance team adjusts the accounts itself.     *)
DebtIsOfTheNote ==
    OneAtATime =>
        /\ \A r \in NoteIds : Conciliated(r) =>
              LET v == notes[r].invoice
              IN  invoices[v].note = r /\ (Owed(v) \/ invoices[v].adjusted)
        /\ \A v \in InvoiceIds : Owed(v) /\ ~invoices[v].adjusted =>
              LET r == invoices[v].note
              IN  /\ Conciliated(r) /\ notes[r].invoice = v
                  /\ notes[r].total = invoices[v].total
                  /\ notes[r].supplier = invoices[v].supplier
                  /\ notes[r].order = invoices[v].order
                  /\ SumOf(invoices[v].parcels) = invoices[v].total
                  /\ notes[r].order # None => Standing(notes[r].order)

(* The notes reconciled with the order of r sum up to the order's value.   *)
ClosesItsOrder(r) ==
    LET o == notes'[r].order
        closing == {s \in NoteIds : notes'[s].order = o /\ Conciliated(s)'}
    IN  SumOver([s \in NoteIds |-> notes'[s].total], closing) = orders[o].total

(* One call at a time, a note that ends RECONCILED, not DIVERGENT, with an *)
(* order is the one that makes the notes of the order sum up to its value. *)
ReconciledClosesOrder ==
    [][OneAtATime => \A r \in NoteIds :
          /\ notes[r].status # "RECONCILED"
          /\ notes'[r].status = "RECONCILED" /\ notes'[r].order # None
          => ClosesItsOrder(r)]_notesVars

(* A note whose issuer cancelled it does not wait to be reconciled, once   *)
(* the note and, after it, the event have been processed.                  *)
CancelledAtSource ==
    \A d, e \in DOMAIN docs :
        /\ d < e /\ docs[d].paper = docs[e].paper
        /\ docs[d].kind # "cancellation" /\ docs[d].status = "PROCESSED"
        /\ docs[e].kind = "cancellation" /\ docs[e].status = "PROCESSED"
        => \A r \in Keyed(docs[d].paper) : notes[r].status # "PENDING"
=============================================================================
