--------------------------- MODULE ReportNumbering ---------------------------
(***************************************************************************)
(* The numbers of the daily reports (RDO) of one construction site.        *)
(*                                                                         *)
(* A report takes MAX(number) + 1 under pg_advisory_xact_lock on the site; *)
(* a renumbering rewrites the numbers of the later dates under the same    *)
(* lock.  Finalising and deleting a report take no lock: each is decided   *)
(* by the WHERE of one conditional statement, so it is one step here.      *)
(* Rows are deleted for good, and an id (a uuid) is never used again.      *)
(***************************************************************************)
EXTENDS Naturals, FiniteSets, FiniteSetsExt

CONSTANTS
    Callers,        \* concurrent HTTP requests being served
    ReportIds,      \* ids that reports may get
    Dates,          \* report dates, as day numbers
    TypedNumbers,   \* numbers an administrator may type
    FirstNumber,    \* ConstructionSite.firstReportNumber, 1 when undefined
    Free            \* lock when nobody holds it

ASSUME DatesAssumption == Dates \subseteq Nat
ASSUME NumbersAssumption == TypedNumbers \subseteq Nat \ {0} /\ FirstNumber \in Nat
ASSUME IdsAssumption == IsFiniteSet(ReportIds)
ASSUME FreeAssumption == Free \notin Callers

VARIABLES
    reports,    \* the rows of DailyReport of the site
    lock,       \* who holds the advisory lock of the site
    stage,      \* where each HTTP request is
    ask,        \* what it was asked to do
    known       \* what it has read and will write from

numberingVars == <<reports, lock, stage, ask, known>>

Numbers == [ReportIds -> Nat]
ReportRows ==
    [status: {"NONE", "DRAFT", "SUBMITTED", "DELETED"}, number: Nat, date: Dates \cup {0}]
NoReport == [status |-> "NONE", number |-> 0, date |-> 0]

NoAsk == [op |-> "none"]
Asks == {NoAsk}
    \cup [op: {"create"}, report: ReportIds, date: Dates]
    \cup [op: {"renumber"}, report: ReportIds, number: TypedNumbers, date: Dates \cup {0}]

Nothing == [q \in ReportIds |-> 0]
NothingSeen == [next |-> 0, from |-> Nothing, to |-> Nothing, found |-> FALSE]
-----------------------------------------------------------------------------
ReportExists(r) == reports[r].status \in {"DRAFT", "SUBMITTED"}
Existing == {r \in ReportIds : ReportExists(r)}
NumberOf(q) == reports[q].number
DateOf(q) == reports[q].date

(* allocateReportNumber: MAX + 1, or where the site starts.                *)
IsNextNumber(n) ==
    IF Existing = {} THEN n = FirstNumber
    ELSE \E m \in Existing : /\ \A r \in Existing : NumberOf(r) <= NumberOf(m)
                             /\ n = NumberOf(m) + 1

(* The report from which renumber() rewrites.  findIndex gives -1 when the *)
(* report is gone, and then slice(0, -1) and slice(-1) split the reports   *)
(* just before the last one by date.                                       *)
IsPivot(r, pivot) ==
    IF ReportExists(r) THEN pivot = r
    ELSE \A s \in Existing : DateOf(s) <= DateOf(pivot)

(* The pivot takes n and the reports of later dates follow, one by one.    *)
Between(pivot, q) == {s \in Existing : DateOf(pivot) <= DateOf(s) /\ DateOf(s) < DateOf(q)}

Renumbered(pivot, n) ==
    [q \in ReportIds |->
        IF q \in Existing /\ DateOf(pivot) <= DateOf(q)
        THEN n + Cardinality(Between(pivot, q)) ELSE NumberOf(q)]

Serving(p, step, op) == stage[p] = step /\ ask[p].op = op

Start(p, c) ==
    /\ stage[p] = "idle"
    /\ ask' = [ask EXCEPT ![p] = c]
    /\ stage' = [stage EXCEPT ![p] = "lock"]
    /\ UNCHANGED <<reports, lock, known>>

Read(p, what) ==
    /\ known' = [known EXCEPT ![p] = what]
    /\ stage' = [stage EXCEPT ![p] = "write"]
    /\ UNCHANGED <<reports, lock, ask>>

(* The transaction ends, and with it the lock.                             *)
Release(p) ==
    /\ stage' = [stage EXCEPT ![p] = "idle"]
    /\ ask' = [ask EXCEPT ![p] = NoAsk]
    /\ known' = [known EXCEPT ![p] = NothingSeen]
    /\ lock' = IF lock = p THEN Free ELSE lock

GiveUp(p) == stage[p] # "idle" /\ Release(p) /\ UNCHANGED reports

AcquireLock(p) ==
    /\ stage[p] = "lock"
    /\ lock = Free
    /\ lock' = p
    /\ stage' = [stage EXCEPT ![p] = "read"]
    /\ UNCHANGED <<reports, ask, known>>
-----------------------------------------------------------------------------
(* POST /diario/reports.                                                   *)
BeginCreate(p) ==
    \E r \in ReportIds, date \in Dates :
        /\ reports[r].status = "NONE"
        /\ \A q \in Callers : ask[q].op = "create" => ask[q].report # r
        /\ Start(p, [op |-> "create", report |-> r, date |-> date])

(* POST /diario/reports/:id/copy: the same writing, from a report of the   *)
(* same site, which is read before.                                        *)
BeginCopy(p) == Existing # {} /\ BeginCreate(p)

(* Mutant: count() + 1, the way of nextSequentialCode.                     *)
ReadNumberCount(p) ==
    /\ Serving(p, "read", "create")
    /\ Read(p, [NothingSeen EXCEPT !.next = FirstNumber + Cardinality(Existing)])

ReadMaxNumber(p) ==
    /\ Serving(p, "read", "create")
    /\ \E n \in {FirstNumber} \cup {NumberOf(r) + 1 : r \in Existing} :
        IsNextNumber(n) /\ Read(p, [NothingSeen EXCEPT !.next = n])

(* The unique index (site, date) refuses a second report of a day.         *)
CommitCreate(p) ==
    /\ Serving(p, "write", "create")
    /\ \A r \in Existing : DateOf(r) # ask[p].date
    /\ reports' = [reports EXCEPT ![ask[p].report] =
           [status |-> "DRAFT", number |-> known[p].next, date |-> ask[p].date]]
    /\ Release(p)

(* PATCH /diario/reports/:id/number.  The report is read before the        *)
(* transaction and not again: under the lock it is only looked for.        *)
BeginRenumber(p) ==
    \E r \in Existing, n \in TypedNumbers :
        Start(p, [op |-> "renumber", report |-> r, number |-> n, date |-> DateOf(r)])

(* Mutant: the earlier reports are not looked at.                          *)
ReadSiteUnchecked(p) ==
    /\ Serving(p, "read", "renumber")
    /\ \E pivot \in Existing :
        /\ IsPivot(ask[p].report, pivot)
        /\ Read(p, [next |-> 0, from |-> [q \in ReportIds |-> NumberOf(q)],
                    to |-> Renumbered(pivot, ask[p].number),
                    found |-> ReportExists(ask[p].report)])

ReadSite(p) ==
    /\ Serving(p, "read", "renumber")
    /\ \E pivot \in Existing :
        /\ IsPivot(ask[p].report, pivot)
        /\ \A s \in Existing : DateOf(s) < DateOf(pivot) => NumberOf(s) < ask[p].number
        /\ Read(p, [next |-> 0, from |-> [q \in ReportIds |-> NumberOf(q)],
                    to |-> Renumbered(pivot, ask[p].number),
                    found |-> ReportExists(ask[p].report)])

(* Two updateMany that add, to the rows still there, the distance from the *)
(* number that was read to the new one.                                    *)
CommitRenumber(p) ==
    /\ Serving(p, "write", "renumber")
    /\ reports' = [q \in ReportIds |->
           IF q \in Existing
           THEN [reports[q] EXCEPT !.number = (@ + known[p].to[q]) - known[p].from[q]]
           ELSE reports[q]]
    /\ Release(p)

(* POST /diario/reports/:id/submit.                                        *)
SubmitReport(r) ==
    /\ reports[r].status = "DRAFT"
    /\ reports' = [reports EXCEPT ![r].status = "SUBMITTED"]
    /\ UNCHANGED <<lock, stage, ask, known>>

(* DELETE /diario/reports/:id: a draft, or any report by an administrator. *)
Remove(r, podeAdministrar) ==
    /\ reports[r].status = "DRAFT" \/ (ReportExists(r) /\ podeAdministrar)
    /\ reports' = [reports EXCEPT ![r] = [NoReport EXCEPT !.status = "DELETED"]]
    /\ UNCHANGED <<lock, stage, ask, known>>

NumberingInit ==
    /\ reports = [r \in ReportIds |-> NoReport]
    /\ lock = Free
    /\ stage = [p \in Callers |-> "idle"]
    /\ ask = [p \in Callers |-> NoAsk]
    /\ known = [p \in Callers |-> NothingSeen]

NumberingStep(p) ==
    \/ BeginCreate(p) \/ BeginCopy(p) \/ BeginRenumber(p)
    \/ AcquireLock(p) \/ ReadMaxNumber(p) \/ ReadSite(p)
    \/ CommitCreate(p) \/ CommitRenumber(p) \/ GiveUp(p)

NumberingNext ==
    \/ \E p \in Callers : NumberingStep(p)
    \/ \E r \in ReportIds : SubmitReport(r) \/ \E admin \in BOOLEAN : Remove(r, admin)

NumberingSpec == NumberingInit /\ [][NumberingNext]_numberingVars
-----------------------------------------------------------------------------
(* Every variable has its shape.                                           *)
NumberingTypeOK ==
    /\ reports \in [ReportIds -> ReportRows]
    /\ lock \in Callers \cup {Free}
    /\ stage \in [Callers -> {"idle", "lock", "read", "write"}]
    /\ ask \in [Callers -> Asks]
    /\ known \in [Callers -> [next: Nat, from: Numbers, to: Numbers, found: BOOLEAN]]

(* "Dois RDOs nunca dividem um numero": the unique index is never needed.  *)
NumbersDistinct ==
    \A q, r \in Existing : NumberOf(q) = NumberOf(r) => q = r

(* A statement that changes the number of a report there is.               *)
NumbersChange == \E q \in Existing : ReportExists(q)' /\ NumberOf(q)' # NumberOf(q)

(* A renumbering of a report that is still there leaves the earlier dates  *)
(* alone, and from that report on the numbers grow with the dates.         *)
RenumberFollowsDates ==
    [][NumbersChange /\ known[lock].found =>
        \A q, r \in Existing :
            /\ DateOf(q) < ask[lock].date => NumberOf(q)' = NumberOf(q)
            /\ DateOf(q) < DateOf(r) /\ ask[lock].date <= DateOf(r)
                 => NumberOf(q)' < NumberOf(r)']_numberingVars
=============================================================================
