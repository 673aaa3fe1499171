----------------------------- MODULE Allocations -----------------------------
(***************************************************************************)
(* The allocations of one employee to construction sites.                  *)
(*                                                                         *)
(* A period has inclusive ends, and a null end stands for "from then on".  *)
(* create, transfer and update check the other periods and write under     *)
(* SELECT ... FOR UPDATE on the employee's row; removal and restoration    *)
(* from the trash take no lock.  update() decides from an allocation that  *)
(* it read before the lock, and writes only the ends that the client sent. *)
(***************************************************************************)
EXTENDS Naturals, FiniteSets

CONSTANTS
    Procs,          \* concurrent HTTP requests being served
    AllocIds,       \* ids that allocations may get
    Horizon,        \* the days are 1..Horizon
    Free            \* employeeLock when nobody holds it

ASSUME HorizonAssumption == Horizon \in Nat
ASSUME FreeAssumption == Free \notin Procs

VARIABLES
    allocations,    \* the rows of EmployeeAllocation of the employee
    active,         \* Employee.status is not TERMINATED
    employeeLock,   \* who holds FOR UPDATE on the Employee row
    pc,             \* where each HTTP request is
    call,           \* what it was asked to do
    seen,           \* what it has read and will write from
    loose           \* history: an allocation was restored from the trash, or a
                    \* PATCH came that carried one end of a period only

vars == <<allocations, active, employeeLock, pc, call, seen, loose>>

Days == 1..Horizon
OpenEnd == Horizon + 1          \* endDate is null
Ends == 0..OpenEnd              \* 0 only as the eve of the first day
Keep == OpenEnd + 1             \* the client did not send this field

Rows == [status: {"NONE", "LIVE", "TRASHED"}, start: Days \cup {0}, end: Ends]
NoRow == [status |-> "NONE", start |-> 0, end |-> 0]

NoCall == [op |-> "none"]
Calls == {NoCall}
    \cup [op: {"create"}, id: AllocIds, start: Days, end: Ends]
    \cup [op: {"transfer"}, id: AllocIds, start: Days]
    \cup [op: {"update"}, id: AllocIds, start: Days \cup {Keep}, end: Ends \cup {Keep}]

NoPeriod == [start |-> 0, end |-> 0]
NothingSeen == [period |-> NoPeriod, previous |-> {}]
-----------------------------------------------------------------------------
(* sobrepoe.                                                               *)
Overlaps(a, b) == a.start <= b.end /\ b.start <= a.end

(* vigenteEm.                                                              *)
Covers(a, day) == a.start <= day /\ day <= a.end

Live(rows) == {i \in AllocIds : rows[i].status = "LIVE"}

(* primeiroConflito is null, leaving the rows `ignored` out.               *)
NoConflict(period, rows, ignored) ==
    \A i \in Live(rows) \ ignored : ~Overlaps(period, rows[i])

(* What a PATCH makes of a stored value.                                   *)
Patched(sent, stored) == IF sent = Keep THEN stored ELSE sent

At(p, step, op) == pc[p] = step /\ call[p].op = op

Start(p, c, period) ==
    /\ pc[p] = "idle"
    /\ call' = [call EXCEPT ![p] = c]
    /\ seen' = [seen EXCEPT ![p] = [period |-> period, previous |-> {}]]
    /\ pc' = [pc EXCEPT ![p] = "lock"]
    /\ UNCHANGED <<allocations, active, employeeLock>>

(* An id that no row has and no call in flight was given, as a new uuid.   *)
Fresh(i) ==
    /\ allocations[i].status = "NONE"
    /\ \A p \in Procs : call[p].op \in {"create", "transfer"} => call[p].id # i

(* The transaction ends, and with it the lock.                             *)
Finish(p) ==
    /\ pc' = [pc EXCEPT ![p] = "idle"]
    /\ call' = [call EXCEPT ![p] = NoCall]
    /\ seen' = [seen EXCEPT ![p] = NothingSeen]
    /\ employeeLock' = IF employeeLock = p THEN Free ELSE employeeLock
    /\ UNCHANGED active

Abort(p) == pc[p] # "idle" /\ Finish(p) /\ UNCHANGED allocations

(* Mutant: the lock is not waited for.                                     *)
LockEmployeeNoWait(p) ==
    /\ pc[p] = "lock"
    /\ employeeLock' = p
    /\ pc' = [pc EXCEPT ![p] = "check"]
    /\ UNCHANGED <<allocations, active, call, seen>>

LockEmployee(p) ==
    /\ pc[p] = "lock"
    /\ employeeLock = Free
    /\ employeeLock' = p
    /\ pc' = [pc EXCEPT ![p] = "check"]
    /\ UNCHANGED <<allocations, active, call, seen>>

(* assertSemSobreposicao passes, and the handler goes on to write.         *)
Checked(p, period, rows, ignored, previous) ==
    /\ NoConflict(period, rows, ignored)
    /\ seen' = [seen EXCEPT ![p] = [period |-> period, previous |-> previous]]
    /\ pc' = [pc EXCEPT ![p] = "write"]
    /\ UNCHANGED <<allocations, active, employeeLock, call>>

Write(p, rows) == allocations' = rows /\ Finish(p)
-----------------------------------------------------------------------------
(* POST /rh/alocacoes.                                                     *)
BeginCreate(p) ==
    \E i \in AllocIds, start \in Days, end \in Ends :
        /\ active /\ Fresh(i)
        /\ start <= end
        /\ Start(p, [op |-> "create", id |-> i, start |-> start, end |-> end],
                 [start |-> start, end |-> end])

CheckCreate(p) ==
    At(p, "check", "create") /\ Checked(p, seen[p].period, allocations, {}, {})

CommitCreate(p) ==
    /\ At(p, "write", "create")
    /\ Write(p, [allocations EXCEPT ![call[p].id] =
           [status |-> "LIVE", start |-> call[p].start, end |-> call[p].end]])

(* POST /rh/alocacoes/transferir.                                          *)
BeginTransfer(p) ==
    \E i \in AllocIds, day \in Days :
        /\ active /\ Fresh(i)
        /\ Start(p, [op |-> "transfer", id |-> i, start |-> day],
                 [start |-> day, end |-> OpenEnd])

(* findFirst with orderBy startDate desc, among those that cover the eve.  *)
IsPrevious(i, eve) ==
    /\ i \in Live(allocations) /\ Covers(allocations[i], eve)
    /\ \A j \in Live(allocations) :
        Covers(allocations[j], eve) => allocations[j].start <= allocations[i].start

(* The previous allocation, if there is one, ends on the eve.              *)
Closed(rows, previous, eve) ==
    [i \in AllocIds |-> IF i \in previous THEN [rows[i] EXCEPT !.end = eve] ELSE rows[i]]

CheckTransfer(p) ==
    /\ At(p, "check", "transfer")
    /\ LET eve == call[p].start - 1
           candidates == {i \in AllocIds : IsPrevious(i, eve)}
       IN \E previous \in IF candidates = {} THEN {{}} ELSE {{i} : i \in candidates} :
              Checked(p, seen[p].period, Closed(allocations, previous, eve), {}, previous)

(* Mutant: the previous allocation ends one day too early.                 *)
CommitTransferWithGap(p) ==
    /\ At(p, "write", "transfer")
    /\ LET eve == call[p].start - 1 IN
        Write(p, [Closed(allocations, seen[p].previous, IF eve = 0 THEN 0 ELSE eve - 1)
                  EXCEPT ![call[p].id] =
                     [status |-> "LIVE", start |-> call[p].start, end |-> OpenEnd]])

CommitTransfer(p) ==
    /\ At(p, "write", "transfer")
    /\ Write(p, [Closed(allocations, seen[p].previous, call[p].start - 1)
                 EXCEPT ![call[p].id] =
                    [status |-> "LIVE", start |-> call[p].start, end |-> OpenEnd]])

(* PATCH /rh/alocacoes/:id.                                                *)
BeginUpdate(p) ==
    \E i \in Live(allocations), start \in Days \cup {Keep}, end \in Ends \cup {Keep} :
        /\ Patched(start, allocations[i].start) <= Patched(end, allocations[i].end)
        /\ Start(p, [op |-> "update", id |-> i, start |-> start, end |-> end],
                 [start |-> Patched(start, allocations[i].start),
                  end |-> Patched(end, allocations[i].end)])

CheckUpdate(p) ==
    At(p, "check", "update") /\ Checked(p, seen[p].period, allocations, {call[p].id}, {})

CommitUpdate(p) ==
    /\ At(p, "write", "update")
    /\ Write(p, [allocations EXCEPT
           ![call[p].id].start = Patched(call[p].start, @),
           ![call[p].id].end = Patched(call[p].end, @)])

(* DELETE /rh/alocacoes/:id.                                               *)
Remove(i) ==
    /\ allocations[i].status = "LIVE"
    /\ allocations' = [allocations EXCEPT ![i].status = "TRASHED"]
    /\ UNCHANGED <<active, employeeLock, pc, call, seen>>

(* POST /lixeira/.../restaurar: only unique fields are looked at, and an   *)
(* allocation has none.                                                    *)
Restore(i) ==
    /\ allocations[i].status = "TRASHED"
    /\ allocations' = [allocations EXCEPT ![i].status = "LIVE"]
    /\ UNCHANGED <<active, employeeLock, pc, call, seen>>

(* PATCH /rh/funcionarios/:id with a status: the statement waits for the   *)
(* lock on the row.                                                        *)
SetStatus(working) ==
    /\ employeeLock = Free
    /\ active' = working
    /\ UNCHANGED <<allocations, employeeLock, pc, call, seen>>

Init ==
    /\ allocations = [i \in AllocIds |-> NoRow]
    /\ active = TRUE
    /\ employeeLock = Free
    /\ pc = [p \in Procs |-> "idle"]
    /\ call = [p \in Procs |-> NoCall]
    /\ seen = [p \in Procs |-> NothingSeen]
    /\ loose = FALSE

Step(p) ==
    \/ BeginCreate(p) \/ CheckCreate(p) \/ CommitCreate(p)
    \/ BeginTransfer(p) \/ CheckTransfer(p) \/ CommitTransfer(p)
    \/ BeginUpdate(p) \/ CheckUpdate(p) \/ CommitUpdate(p)
    \/ LockEmployee(p) \/ Abort(p)

(* What the locked check cannot vouch for: a period that returns unseen,   *)
(* or one whose other end was read before the lock.                        *)
Loosens ==
    \/ \E i \in AllocIds : allocations[i].status = "TRASHED" /\ allocations'[i].status = "LIVE"
    \/ \E p \in Procs : call'[p].op = "update" /\ Keep \in {call'[p].start, call'[p].end}

Next ==
    /\ \/ \E p \in Procs : Step(p)
       \/ \E i \in AllocIds : Remove(i) \/ Restore(i)
       \/ \E working \in BOOLEAN : SetStatus(working)
    /\ loose' = (loose \/ Loosens)

Spec == Init /\ [][Next]_vars
-----------------------------------------------------------------------------
(* Every variable has its shape.                                           *)
TypeOK ==
    /\ allocations \in [AllocIds -> Rows]
    /\ active \in BOOLEAN
    /\ employeeLock \in Procs \cup {Free}
    /\ pc \in [Procs -> {"idle", "lock", "check", "write"}]
    /\ call \in [Procs -> Calls]
    /\ seen \in [Procs -> [period: [start: Days \cup {0}, end: Ends],
                           previous: SUBSET AllocIds]]
    /\ loose \in BOOLEAN

(* "um colaborador nao ocupa duas obras no mesmo dia".                     *)
NoOverlap ==
    \A i, j \in Live(allocations) : i # j => ~Overlaps(allocations[i], allocations[j])

(* It holds as long as every period was checked as it was written: two     *)
(* calls, transfers among them, never put the employee at two sites.       *)
CheckedNoOverlap == ~loose => NoOverlap

Occupying(day) == {i \in Live(allocations) : Covers(allocations[i], day)}

(* A transfer keeps the past and leaves no day without a site: who         *)
(* occupied a day before it still does, and from its day on it is the new  *)
(* allocation alone.                                                       *)
TransferKeepsHistory ==
    [][~loose' => \A p \in Procs : At(p, "write", "transfer") /\ allocations' # allocations
                        /\ pc'[p] = "idle" =>
        \A day \in Days :
            Occupying(day)' = IF day < call[p].start THEN Occupying(day) ELSE {call[p].id}]_vars
=============================================================================
