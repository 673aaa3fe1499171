---------------------------- MODULE DailyReport ----------------------------
(***************************************************************************)
(* The content of one site report (RDO): its working hours, its lists, its *)
(* finalisation and its deletion.                                          *)
(*                                                                         *)
(* No transaction and no lock covers a handler.  Each reads the report,    *)
(* decides, and then writes with one statement.  submit and remove repeat  *)
(* the status in the WHERE of that statement; the others do not.           *)
(***************************************************************************)
EXTENDS Naturals, FiniteSets

CONSTANTS
    Procs,          \* concurrent HTTP requests, one user each
    Items,          \* ids that the rows of the lists may get
    Minutes,        \* times of day
    Null,           \* a time that is not filled in
    Workloads,      \* what the users may do: see Init
    MaxPosition     \* bound: positions of activities

ASSUME ProcsAssumption == IsFiniteSet(Procs)
ASSUME MinutesAssumption == Minutes \subseteq Nat
ASSUME NullAssumption == Null \notin Minutes
ASSUME WorkloadAssumption ==
    Workloads \subseteq [calls: Nat, fields: SUBSET (1..4), items: SUBSET Items]
ASSUME PositionAssumption == MaxPosition \in Nat

VARIABLES
    exists,         \* the row of DailyReport is there
    status,         \* its status
    submittedBy,    \* submittedById
    schedule,       \* workStart, workBreakStart, workBreakEnd, workEnd
    items,          \* labour, equipment, activities, occurrences, materials
    audit,          \* entries of the audit log about the report
    pc, call, seen,
    workload        \* how many calls come at once, the hours that a PATCH may
                    \* carry and the items that the lists may get

vars == <<exists, status, submittedBy, schedule, items, audit, pc, call, seen, workload>>

(* The four columns of the working hours, in the order of the day.         *)
Hours == 1..4
Schedules == [Hours -> Minutes \cup {Null}]
NoHours == [h \in Hours |-> Null]

(* `text` is the editable content; only activities have a position.        *)
Rows == [kind: {"none", "activity", "other"}, position: 0..MaxPosition, text: 0..1]
NoItem == [kind |-> "none", position |-> 0, text |-> 0]

NoCall == [op |-> "none"]
Calls == {NoCall}
    \cup [op: {"update"}, sent: UNION {[fields -> Minutes \cup {Null}] : fields \in SUBSET Hours}]
    \cup [op: {"addActivity", "addOther", "updateItem", "removeItem"}, item: Items]
    \cup [op: {"submit"}]
    \cup [op: {"remove"}, admin: BOOLEAN]
-----------------------------------------------------------------------------
Present == {i \in Items : items[i].kind # "none"}
Activities == {i \in Items : items[i].kind = "activity"}

(* assertCoerente: its comparisons are those of every pair of the four     *)
(* times that are filled in.                                               *)
Coherent(s) ==
    \A a, b \in Hours : a < b /\ s[a] # Null /\ s[b] # Null => s[a] <= s[b]

(* The fields that came, over those that were there.                       *)
Merge(s, sent) == [h \in Hours |-> IF h \in DOMAIN sent THEN sent[h] ELSE s[h]]

(* assertReadyToSubmit.                                                    *)
Ready == schedule[1] # Null /\ schedule[4] # Null /\ Activities # {}

(* assertWritable.                                                         *)
Writable == exists /\ status = "DRAFT"

Content == <<schedule, items>>
Report == <<exists, status, submittedBy, schedule, items>>

At(p, step, op) == pc[p] = step /\ call[p].op = op

Begin(p, c, step) ==
    /\ pc[p] = "idle"
    /\ Cardinality({q \in Procs : pc[q] # "idle"}) < workload.calls
    /\ call' = [call EXCEPT ![p] = c]
    /\ pc' = [pc EXCEPT ![p] = step]
    /\ UNCHANGED <<Report, audit, seen>>

Finish(p) ==
    /\ pc' = [pc EXCEPT ![p] = "idle"]
    /\ call' = [call EXCEPT ![p] = NoCall]
    /\ seen' = [seen EXCEPT ![p] = 0]

(* A refusal, an error of the database, or the end of the process.         *)
Abort(p) == pc[p] # "idle" /\ Finish(p) /\ UNCHANGED <<Report, audit>>
-----------------------------------------------------------------------------
(* PATCH /diario/rdos/:id: the hours that result from the patch are        *)
(* validated against the report as it was read.                            *)
BeginUpdate(p) ==
    /\ Writable
    /\ \E fields \in SUBSET workload.fields : \E sent \in [fields -> Minutes \cup {Null}] :
        /\ Coherent(Merge(schedule, sent))
        /\ Begin(p, [op |-> "update", sent |-> sent], "write")

CommitUpdate(p) ==
    /\ At(p, "write", "update") /\ exists
    /\ schedule' = Merge(schedule, call[p].sent)
    /\ Finish(p)
    /\ UNCHANGED <<exists, status, submittedBy, items, audit>>

Fresh(i) ==
    /\ items[i].kind = "none"
    /\ \A p \in Procs : call[p].op \in {"addActivity", "addOther"} => call[p].item # i

BeginAdd(p) ==
    /\ Writable
    /\ \E i \in workload.items :
        /\ Fresh(i)
        /\ \/ Begin(p, [op |-> "addActivity", item |-> i], "max")
           \/ Begin(p, [op |-> "addOther", item |-> i], "write")

(* Mutant: the position is the number of activities.                       *)
ReadCount(p) ==
    /\ At(p, "max", "addActivity")
    /\ seen' = [seen EXCEPT ![p] = Cardinality(Activities)]
    /\ pc' = [pc EXCEPT ![p] = "write"]
    /\ UNCHANGED <<Report, audit, call>>

(* aggregate _max of position.                                             *)
ReadMax(p) ==
    /\ At(p, "max", "addActivity")
    /\ \E m \in 0..MaxPosition :
        /\ m = 0 <=> Activities = {}
        /\ m > 0 => \E i \in Activities : items[i].position = m
        /\ \A i \in Activities : items[i].position <= m
        /\ m < MaxPosition
        /\ seen' = [seen EXCEPT ![p] = m]
    /\ pc' = [pc EXCEPT ![p] = "write"]
    /\ UNCHANGED <<Report, audit, call>>

(* The foreign key refuses a row of a report that is gone.                 *)
CommitAdd(p) ==
    /\ pc[p] = "write" /\ call[p].op \in {"addActivity", "addOther"} /\ exists
    /\ items' = [items EXCEPT ![call[p].item] =
           IF call[p].op = "addActivity"
           THEN [kind |-> "activity", position |-> seen[p] + 1, text |-> 0]
           ELSE [kind |-> "other", position |-> 0, text |-> 0]]
    /\ Finish(p)
    /\ UNCHANGED <<exists, status, submittedBy, schedule, audit>>

(* Mutant: a row is written whatever the status is.                        *)
BeginWriteItemUnchecked(p) ==
    /\ exists
    /\ \E i \in workload.items, op \in {"updateItem", "removeItem"} :
        Begin(p, [op |-> op, item |-> i], "write")

(* PATCH and DELETE of a row: updateMany and deleteMany by id.             *)
BeginWriteItem(p) ==
    /\ Writable
    /\ \E i \in workload.items, op \in {"updateItem", "removeItem"} :
        Begin(p, [op |-> op, item |-> i], "write")

CommitUpdateItem(p) ==
    /\ At(p, "write", "updateItem") /\ call[p].item \in Present
    /\ items' = [items EXCEPT ![call[p].item].text = 1 - @]
    /\ Finish(p)
    /\ UNCHANGED <<exists, status, submittedBy, schedule, audit>>

CommitRemoveItem(p) ==
    /\ At(p, "write", "removeItem") /\ call[p].item \in Present
    /\ items' = [items EXCEPT ![call[p].item] = NoItem]
    /\ Finish(p)
    /\ UNCHANGED <<exists, status, submittedBy, schedule, audit>>

(* Mutant: what is missing is not looked for.                              *)
BeginSubmitAnyway(p) == Writable /\ Begin(p, [op |-> "submit"], "write")

(* POST /diario/rdos/:id/finalizar.                                        *)
BeginSubmit(p) == Writable /\ Ready /\ Begin(p, [op |-> "submit"], "write")

Audited(p) ==
    /\ pc' = [pc EXCEPT ![p] = "audit"]
    /\ UNCHANGED <<call, seen>>

(* Mutant: the status is not in the WHERE.                                 *)
CommitSubmitAnyway(p) ==
    /\ At(p, "write", "submit") /\ exists
    /\ status' = "SUBMITTED" /\ submittedBy' = {p}
    /\ Audited(p)
    /\ UNCHANGED <<exists, schedule, items, audit>>

(* Mutant: the number of rows that were updated is not looked at.          *)
CommitSubmitUncounted(p) ==
    /\ At(p, "write", "submit")
    /\ IF Writable THEN status' = "SUBMITTED" /\ submittedBy' = {p}
                   ELSE UNCHANGED <<status, submittedBy>>
    /\ Audited(p)
    /\ UNCHANGED <<exists, schedule, items, audit>>

(* updateMany with status DRAFT: no row means a refusal.                   *)
CommitSubmit(p) ==
    /\ At(p, "write", "submit") /\ Writable
    /\ status' = "SUBMITTED" /\ submittedBy' = {p}
    /\ Audited(p)
    /\ UNCHANGED <<exists, schedule, items, audit>>

(* DELETE /diario/rdos/:id, by an administrator of reports or not.         *)
BeginRemove(p) ==
    \E admin \in BOOLEAN :
        /\ exists /\ (status = "DRAFT" \/ admin)
        /\ Begin(p, [op |-> "remove", admin |-> admin], "write")

(* deleteMany with the status, which the lists follow (onDelete: Cascade). *)
CommitRemove(p) ==
    /\ At(p, "write", "remove") /\ exists /\ (status = "DRAFT" \/ call[p].admin)
    /\ exists' = FALSE /\ status' = "DRAFT" /\ submittedBy' = {}
    /\ schedule' = NoHours /\ items' = [i \in Items |-> NoItem]
    /\ Audited(p)
    /\ UNCHANGED audit

(* AuditLoggerService.log, after the statement and outside any transaction.*)
WriteAudit(p) ==
    /\ pc[p] = "audit"
    /\ audit' = audit \cup {<<call[p].op, p>>}
    /\ Finish(p)
    /\ UNCHANGED Report

(* The report as create leaves it.                                         *)
Init ==
    /\ exists = TRUE /\ status = "DRAFT" /\ submittedBy = {}
    /\ schedule = NoHours /\ items = [i \in Items |-> NoItem]
    /\ audit = {}
    /\ pc = [p \in Procs |-> "idle"]
    /\ call = [p \in Procs |-> NoCall]
    /\ seen = [p \in Procs |-> 0]
    /\ workload \in Workloads

Step(p) ==
    \/ BeginUpdate(p) \/ CommitUpdate(p)
    \/ BeginAdd(p) \/ ReadMax(p) \/ CommitAdd(p)
    \/ BeginWriteItem(p) \/ CommitUpdateItem(p) \/ CommitRemoveItem(p)
    \/ BeginSubmit(p) \/ CommitSubmit(p)
    \/ BeginRemove(p) \/ CommitRemove(p)
    \/ WriteAudit(p) \/ Abort(p)

Next == UNCHANGED workload /\ \E p \in Procs : Step(p)

Spec == Init /\ [][Next]_vars
-----------------------------------------------------------------------------
(* Every variable has its shape.                                           *)
TypeOK ==
    /\ exists \in BOOLEAN /\ status \in {"DRAFT", "SUBMITTED"}
    /\ submittedBy \in SUBSET Procs
    /\ schedule \in Schedules /\ items \in [Items -> Rows]
    /\ audit \in SUBSET ({"submit", "remove"} \X Procs)
    /\ pc \in [Procs -> {"idle", "max", "write", "audit"}]
    /\ call \in [Procs -> Calls]
    /\ seen \in [Procs -> 0..MaxPosition]

Submitted == exists /\ status = "SUBMITTED"

(* A report is finalised once: who finalised it does not change while it   *)
(* exists, and it does not return to draft.                                *)
SubmittedOnce ==
    [][Submitted /\ exists' => Submitted' /\ submittedBy' = submittedBy]_vars

(* The audit log names nobody but the one who finalised the report.        *)
AuditTellsWhoSubmitted ==
    Submitted => \A p \in Procs : <<"submit", p>> \in audit => submittedBy = {p}

(* The next three hold when requests come one at a time: no sequence of    *)
(* legal calls, refused ones and stops included, breaks them.              *)
Alone == workload.calls = 1

(* "Este relatorio ja foi finalizado e nao pode mais ser alterado."        *)
SubmittedIsFrozen == [][Alone /\ Submitted /\ exists' => UNCHANGED Content]_vars

(* What finalising requires is there in a finalised report.                *)
SubmittedReady == Alone /\ Submitted => Ready

(* No two activities have the same position.                               *)
PositionsDistinct ==
    Alone => \A i, j \in Activities : i # j => items[i].position # items[j].position
=============================================================================
