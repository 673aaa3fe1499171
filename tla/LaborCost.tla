------------------------------ MODULE LaborCost ------------------------------
(***************************************************************************)
(* The daily attendance of an employee, his pay, and the labour cost that  *)
(* is reported for a site.  It composes with Allocations: the report holds *)
(* the allocations against the attendance.                                 *)
(*                                                                         *)
(* The days are those of one month; the cost of a longer period is the sum *)
(* of its months.  No handler of this module takes a lock: each reads,     *)
(* decides, and writes in another statement.                               *)
(***************************************************************************)
EXTENDS Allocations, Sums

CONSTANTS
    Clerks,         \* concurrent HTTP requests about attendance and pay
    Sites,          \* construction sites
    MaxRate,        \* daily rates are 1..MaxRate, 0 is null
    Costs           \* what a month may cost, in cents

ASSUME MaxRateAssumption == MaxRate \in Nat
ASSUME CostsAssumption == Costs \subseteq Nat
ASSUME SitesAssumption == IsFiniteSet(Sites)

VARIABLES
    siteOf,         \* the site that each allocation is made for; nothing changes it
    employee,       \* Employee: compensationType and dailyRate
    attendance,     \* EmployeeAttendance, at most one row a day
    payslip,        \* the month's Payslip
    desk,           \* where each request is
    overlapped      \* history: two requests were in flight at once

laborVars == <<siteOf, employee, attendance, payslip, desk, overlapped>>
allVars == <<vars, laborVars>>

Rates == 1..MaxRate
Same == MaxRate + 1         \* a column that the statement does not write
Pay == [type: {"CLT", "DAILY"}, rate: 0..MaxRate]

(* rate: the daily rate in force, frozen when the row was written.         *)
NotRecorded == [recorded |-> FALSE]
AttendanceRows == [recorded: {TRUE}, present: BOOLEAN, site: Sites, rate: 0..MaxRate]

(* cost: the gross pay and those of the employer's components that are     *)
(* known; complete: they all are.                                          *)
Contents == [cost: Costs, complete: BOOLEAN, paid: BOOLEAN]
NoPayslip == [status |-> "none"]
Payslips == [status: {"live", "trashed"}, is: Contents]

Idle == [step |-> "idle"]
-----------------------------------------------------------------------------
(* Mutant: the daily rate stays behind.                                    *)
resolverRemuneracaoKeeping(type, stored) ==
    IF type = "CLT" THEN {Same} ELSE Rates \cup (IF stored = 0 THEN {} ELSE {Same})

(* resolverRemuneracao: what may be written in dailyRate.  For CLT it is   *)
(* null, unless it is so already; a DAILY worker needs one, sent or stored.*)
resolverRemuneracao(type, stored) ==
    IF type = "CLT" THEN {0} \cup (IF stored = 0 THEN {Same} ELSE {})
    ELSE Rates \cup (IF stored = 0 THEN {} ELSE {Same})

Begin(c, d) ==
    /\ desk[c] = Idle
    /\ desk' = [desk EXCEPT ![c] = d]
    /\ overlapped' = (overlapped \/ \E b \in Clerks : desk[b] # Idle)

Goto(c, d) == desk' = [desk EXCEPT ![c] = d] /\ UNCHANGED overlapped
AtDesk(c, step) == desk[c].step = step

PeriodsStay == UNCHANGED <<vars, siteOf>>
RowsStay == UNCHANGED <<vars, siteOf, employee, attendance, payslip>>

(* A refusal, or a statement that fails.                                   *)
Refuse(c) == desk[c] # Idle /\ Goto(c, Idle) /\ RowsStay
-----------------------------------------------------------------------------
(* PATCH /rh/funcionarios/:id, decided from the row as it was read.        *)
BeginPatch(c) ==
    /\ \E type \in {"CLT", "DAILY"}, working \in {{}, {TRUE}, {FALSE}} :
        \E rate \in resolverRemuneracao(type, employee.rate) :
            Begin(c, [step |-> "patch", type |-> type, rate |-> rate, working |-> working])
    /\ RowsStay

(* The type is always written, the rate and the status if they are to be.  *)
CommitPatch(c) ==
    /\ AtDesk(c, "patch")
    /\ employee' = [type |-> desk[c].type,
                    rate |-> IF desk[c].rate = Same THEN employee.rate ELSE desk[c].rate]
    /\ \/ desk[c].working = {} /\ employeeLock = Free /\ UNCHANGED vars
       \/ \E working \in desk[c].working : SetStatus(working) /\ UNCHANGED loose
    /\ Goto(c, Idle) /\ UNCHANGED <<siteOf, attendance, payslip>>

(* POST of the attendance of a day at a site: the employee's pay is read.  *)
BeginSave(c) ==
    /\ \E day \in Days, site \in Sites, present \in BOOLEAN :
        Begin(c, [step |-> "snapshot", day |-> day, site |-> site, present |-> present,
                  pay |-> employee])
    /\ RowsStay

Frozen(day) == IF attendance[day].recorded THEN attendance[day].rate ELSE 0

(* Mutant: only the rate of days that were worked is kept.                 *)
diariaDoDiaPresent(day, pay) ==
    CASE pay.type # "DAILY" -> 0
      [] pay.type = "DAILY" /\ Frozen(day) # 0 /\ attendance[day].present -> Frozen(day)
      [] OTHER -> pay.rate

(* The rate to freeze: what is frozen already, or the present one.         *)
diariaDoDia(day, pay) ==
    CASE pay.type # "DAILY" -> 0
      [] pay.type = "DAILY" /\ Frozen(day) # 0 -> Frozen(day)
      [] OTHER -> pay.rate

ReadSnapshot(c) ==
    /\ AtDesk(c, "snapshot")
    /\ LET d == desk[c] IN
        Goto(c, [step |-> "record", day |-> d.day, site |-> d.site, present |-> d.present,
                 rate |-> diariaDoDia(d.day, d.pay)])
    /\ RowsStay

(* upsert by employee and day: another site moves the row.                 *)
CommitSave(c) ==
    /\ AtDesk(c, "record")
    /\ LET d == desk[c] IN
        attendance' = [attendance EXCEPT ![d.day] =
            [recorded |-> TRUE, present |-> d.present, site |-> d.site, rate |-> d.rate]]
    /\ Goto(c, Idle) /\ PeriodsStay /\ UNCHANGED <<employee, payslip>>

(* POST of the payslip: employee and month are unique, removed ones too.   *)
CreatePayslip(cost, complete) ==
    /\ payslip = NoPayslip
    /\ payslip' = [status |-> "live", is |-> [cost |-> cost, complete |-> complete, paid |-> FALSE]]
    /\ PeriodsStay /\ UNCHANGED <<employee, attendance, desk, overlapped>>

BeginPayslip(c) ==
    /\ payslip # NoPayslip /\ payslip.status = "live"
    /\ \/ Begin(c, [step |-> "remove"])
       \/ ~payslip.is.paid /\ \E is \in Contents : Begin(c, [step |-> "edit", is |-> is])
    /\ RowsStay

(* Both update by id alone.                                                *)
CommitPayslip(c) ==
    /\ \/ AtDesk(c, "remove") /\ payslip' = [payslip EXCEPT !.status = "trashed"]
       \/ AtDesk(c, "edit") /\ payslip' = [payslip EXCEPT !.is =
              [desk[c].is EXCEPT !.paid = @ \/ payslip.is.paid]]
    /\ Goto(c, Idle) /\ PeriodsStay /\ UNCHANGED <<employee, attendance>>

(* From the trash.                                                         *)
RestorePayslip ==
    /\ payslip # NoPayslip /\ payslip.status = "trashed"
    /\ payslip' = [payslip EXCEPT !.status = "live"]
    /\ PeriodsStay /\ UNCHANGED <<employee, attendance, desk, overlapped>>
-----------------------------------------------------------------------------
LaborInit ==
    /\ Init
    /\ siteOf \in [AllocIds -> Sites]
    /\ employee \in {p \in Pay : (p.type = "DAILY") = (p.rate # 0)}
    /\ attendance = [d \in Days |-> NotRecorded]
    /\ payslip = NoPayslip
    /\ desk = [c \in Clerks |-> Idle]
    /\ overlapped = FALSE

(* The handlers of Allocations, but for SetStatus: its PATCH is here.      *)
PeriodsNext ==
    /\ \/ \E p \in Procs : Step(p)
       \/ \E i \in AllocIds : Remove(i) \/ Restore(i)
    /\ loose' = (loose \/ Loosens)
    /\ UNCHANGED laborVars

Work(c) ==
    \/ BeginPatch(c) \/ CommitPatch(c)
    \/ BeginSave(c) \/ ReadSnapshot(c) \/ CommitSave(c)
    \/ BeginPayslip(c) \/ CommitPayslip(c) \/ Refuse(c)

LaborNext ==
    \/ PeriodsNext
    \/ \E c \in Clerks : Work(c)
    \/ \E cost \in Costs, complete \in BOOLEAN : CreatePayslip(cost, complete)
    \/ RestorePayslip

LaborSpec == LaborInit /\ [][LaborNext]_allVars
-----------------------------------------------------------------------------
(* byConstructionSite, over the days from..to.                             *)
Present(days) == {d \in days : attendance[d].recorded /\ attendance[d].present}
AtSite(site, days) == {d \in Present(days) : attendance[d].site = site}

(* The allocated days that nobody recorded.                                *)
naoApontados(site, days) ==
    {d \in days : /\ ~attendance[d].recorded
                  /\ \E i \in Live(allocations) :
                        siteOf[i] = site /\ Covers(allocations[i], d)}

(* Decimal division to the cent, half up.                                  *)
HalfUp(a, b) == (2 * a + b) \div (2 * b)

custoDoDiarista(site, days) ==
    [known |-> /\ \A d \in AtSite(site, days) : attendance[d].rate # 0
               /\ naoApontados(site, days) = {},
     value |-> MapThenSumSet(LAMBDA d : attendance[d].rate, AtSite(site, days))]

(* Mutant: the month is divided by the days at the site itself.            *)
ratearPorDiasDaObra(cost, site, days) ==
    HalfUp(cost * Cardinality(AtSite(site, days)), Cardinality(AtSite(site, days)))

(* The share of the days worked anywhere that were worked here.            *)
ratearPorDiasPresentes(cost, site, days) ==
    HalfUp(cost * Cardinality(AtSite(site, days)), Cardinality(Present(days)))

HasPayslip == payslip # NoPayslip /\ payslip.status = "live"

custoDoMensalista(site, days) ==
    [known |-> HasPayslip /\ payslip.is.complete /\ naoApontados(site, days) = {},
     value |-> IF HasPayslip THEN ratearPorDiasPresentes(payslip.is.cost, site, days) ELSE 0]

(* Who has no day at the site in the period is not in the report.          *)
Cost(site, days) ==
    CASE AtSite(site, days) = {} -> [known |-> TRUE, value |-> 0]
      [] AtSite(site, days) # {} /\ employee.type = "DAILY" -> custoDoDiarista(site, days)
      [] OTHER -> custoDoMensalista(site, days)
-----------------------------------------------------------------------------
(* Correctness.                                                            *)

(* One call at a time, a frozen daily rate stays: no raise, correction or  *)
(* second saving of the day changes the past of who is still paid by the   *)
(* day.                                                                    *)
FrozenRate ==
    [][~overlapped' /\ employee.type = "DAILY" =>
        \A d \in Days : Frozen(d) # 0 => attendance'[d].rate = attendance[d].rate]_allVars

(* One call at a time, who is paid by the day has a rate, and nobody else. *)
DailyHasRate == ~overlapped => ((employee.type = "DAILY") = (employee.rate # 0))

Apart(a, b) == IF a < b THEN b - a ELSE a - b

(* The shares of the sites fill the month's cost as soon as a day was      *)
(* worked, but for what rounding each share to the cent adds or drops: at  *)
(* most half a cent a site.                                                *)
SharesFillTheMonth ==
    employee.type = "CLT" /\ HasPayslip /\ Present(Days) # {} =>
        2 * Apart(SumOver([s \in Sites |-> Cost(s, Days).value], Sites), payslip.is.cost)
            <= Cardinality(Sites)

(* "Dias alocados nesta obra e AINDA sem apontamento: e o que torna o custo *)
(* parcial em vez de silenciosamente menor": while a day that an           *)
(* allocation puts at the site is recorded by nobody, the site's cost is   *)
(* not reported as known.                                                  *)
UnrecordedIsPartial ==
    \A site \in Sites, from \in Days, to \in Days :
        naoApontados(site, from..to) # {} => ~Cost(site, from..to).known

(* "apropriado = custo do mes x (dias na obra / dias presentes no mes)":   *)
(* a month reported in two parts costs what it costs as a whole.           *)
PartsMakeTheMonth ==
    employee.type = "CLT" /\ HasPayslip =>
        \A site \in Sites, d \in Days :
            Cost(site, 1..d).value + Cost(site, (d + 1)..Horizon).value <= payslip.is.cost + 1
=============================================================================
