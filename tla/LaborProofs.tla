----------------------------- MODULE LaborProofs -----------------------------
(***************************************************************************)
(* First the allocations on their own, then with attendance and pay.       *)
(*                                                                         *)
(* An employee is never at two sites on one day, for any number of calls,  *)
(* allocations and days, as long as patches carry both ends of the period  *)
(* and nothing has returned from the trash: then the period that was       *)
(* checked under the lock is the one that is written.                      *)
(*                                                                         *)
(* For any number of calls, days, sites, rates and costs, the composition  *)
(* of allocations with attendance, pay and payslips implements the         *)
(* allocations, so that what is proved of these holds of it; one call at a *)
(* time, the past of who is paid by the day stays priced as it was; a cost *)
(* that is reported as known misses nothing; and the shares of the sites   *)
(* fill the cost of the month.                                             *)
(***************************************************************************)
EXTENDS LaborCost, SumTheorems, TLAPS

ProcType ==
    /\ active \in BOOLEAN
    /\ employeeLock \in Procs \cup {Free}
    /\ pc \in [Procs -> {"idle", "lock", "check", "write"}]
    /\ call \in [Procs -> Calls]
    /\ seen \in [Procs -> [period: [start: Days \cup {0}, end: Ends],
                           previous: SUBSET AllocIds]]

Holds(p) == pc[p] \in {"check", "write"}
Creates(p) == call[p].op \in {"create", "transfer"}
Asked(p) == [start |-> call[p].start, end |-> call[p].end]
OpenFrom(p) == [start |-> call[p].start, end |-> OpenEnd]

(* What the check under the lock found, said of the rows as they are now.  *)
CheckedCreate(p) == NoConflict(Asked(p), allocations, {})
CheckedUpdate(p) == NoConflict(Asked(p), allocations, {call[p].id})
CheckedTransfer(p) ==
    /\ NoConflict(OpenFrom(p), Closed(allocations, seen[p].previous, call[p].start - 1), {})
    /\ \A i \in seen[p].previous : Covers(allocations[i], call[p].start - 1)

Decided(p) ==
    /\ pc[p] # "idle" /\ call[p].op \in {"create", "update"} => seen[p].period = Asked(p)
    /\ pc[p] # "idle" /\ call[p].op = "transfer" => seen[p].period = OpenFrom(p)
    /\ call[p].op = "update" => call[p].start # Keep /\ call[p].end # Keep
    /\ At(p, "write", "create") => CheckedCreate(p)
    /\ At(p, "write", "update") => CheckedUpdate(p)
    /\ At(p, "write", "transfer") => CheckedTransfer(p)

(* Ids are given once.                                                     *)
NewIds ==
    \A p \in Procs : Creates(p) =>
        /\ allocations[call[p].id].status = "NONE"
        /\ \A q \in Procs : Creates(q) /\ q # p => call[q].id # call[p].id

Exclusion == \A p \in Procs : Holds(p) => employeeLock = p

IInv ==
    /\ ProcType /\ allocations \in [AllocIds -> Rows]
    /\ Exclusion /\ NewIds /\ NoOverlap
    /\ \A p \in Procs : Decided(p)

LEMMA CallShape ==
    ASSUME NEW c \in Calls
    PROVE  /\ c.op \in {"create", "transfer", "update"} => c.id \in AllocIds
           /\ c.op \in {"create", "transfer"} => c.start \in Days
           /\ c.op = "create" => c.end \in Ends
           /\ c.op = "update" => c.start \in Days \cup {Keep} /\ c.end \in Ends \cup {Keep}
BY DEF Calls, NoCall

LEMMA Arithmetic ==
    /\ Days \subseteq Nat /\ Ends \subseteq Nat /\ OpenEnd \in Ends /\ Days \subseteq Ends
    /\ Keep \notin Ends /\ 0 \in Ends
    /\ \A d \in Days : d - 1 \in Ends /\ d <= OpenEnd
    /\ \A e \in Ends : e <= OpenEnd
BY HorizonAssumption DEF Days, Ends, OpenEnd, Keep

LEMMA RowShape ==
    ASSUME allocations \in [AllocIds -> Rows]
    PROVE  \A i \in AllocIds : /\ allocations[i] \in Rows
                               /\ allocations[i].start \in Nat
                               /\ allocations[i].end \in Nat
<1> SUFFICES ASSUME NEW i \in AllocIds
             PROVE  /\ allocations[i] \in Rows
                    /\ allocations[i].start \in Nat
                    /\ allocations[i].end \in Nat
  OBVIOUS
<1>1. allocations[i] \in Rows
  OBVIOUS
<1>2. allocations[i].start \in Days \cup {0} /\ allocations[i].end \in Ends
  BY <1>1 DEF Rows
<1>3. Days \cup {0} \subseteq Nat
  BY Arithmetic
<1> QED
  BY <1>1, <1>2, <1>3, Arithmetic
-----------------------------------------------------------------------------
(* The steps that do not write allocations.                                *)
LEMMA InitIInv == Init => IInv
<1> SUFFICES ASSUME Init PROVE IInv
  OBVIOUS
<1>1. NoRow \in Rows
  BY Arithmetic DEF NoRow, Rows
<1>2. NothingSeen \in [period: [start: Days \cup {0}, end: Ends], previous: SUBSET AllocIds]
  BY Arithmetic DEF NothingSeen, NoPeriod
<1>3. ProcType /\ allocations \in [AllocIds -> Rows]
  BY <1>1, <1>2 DEF Init, ProcType, Calls
<1>4. Live(allocations) = {}
  BY DEF Init, Live, NoRow
<1>5. NoOverlap
  BY <1>4 DEF NoOverlap
<1>6. Exclusion /\ NewIds /\ \A p \in Procs : Decided(p)
  BY DEF Init, Exclusion, NewIds, Decided, Holds, Creates, At, NoCall
<1> QED
  BY <1>3, <1>5, <1>6 DEF IInv

(* What is said of a call depends on its own place, arguments and reads,   *)
(* and on the rows.                                                        *)
LEMMA OthersDecided ==
    ASSUME IInv, NEW q \in Procs, UNCHANGED allocations,
           pc'[q] = pc[q], call'[q] = call[q], seen'[q] = seen[q]
    PROVE  Decided(q)'
BY DEF IInv, Decided, At, CheckedCreate, CheckedUpdate, CheckedTransfer, Asked, OpenFrom,
       NoConflict, Live, Closed, Covers, Overlaps

LEMMA SameRows ==
    ASSUME IInv, UNCHANGED allocations
    PROVE  NoOverlap' /\ (allocations \in [AllocIds -> Rows])'
BY DEF IInv, NoOverlap, Live, Overlaps

LEMMA StartIInv ==
    ASSUME IInv, NEW p \in Procs, NEW c \in Calls,
           NEW period \in [start: Days \cup {0}, end: Ends], Start(p, c, period),
           c.op \in {"create", "transfer", "update"},
           c.op \in {"create", "transfer"} => Fresh(c.id),
           c.op \in {"create", "update"} => period = [start |-> c.start, end |-> c.end],
           c.op = "transfer" => period = [start |-> c.start, end |-> OpenEnd],
           c.op = "update" => c.start # Keep /\ c.end # Keep
    PROVE  IInv'
<1>0. ProcType /\ UNCHANGED allocations
  BY DEF IInv, Start
<1>1. ProcType'
  BY <1>0 DEF ProcType, Start
<1>2. /\ pc'[p] = "lock" /\ call'[p] = c /\ seen'[p] = [period |-> period, previous |-> {}]
      /\ \A q \in Procs \ {p} : pc'[q] = pc[q] /\ call'[q] = call[q] /\ seen'[q] = seen[q]
  BY <1>0 DEF ProcType, Start
<1>3. Exclusion'
  BY <1>2 DEF IInv, Exclusion, Holds, Start
<1>4. NewIds'
  BY <1>0, <1>2 DEF IInv, NewIds, Creates, Fresh
<1>5. Decided(p)'
  BY <1>2 DEF Decided, At, Asked, OpenFrom
<1>6. \A q \in Procs : Decided(q)'
  BY <1>0, <1>2, <1>5, OthersDecided
<1> QED
  BY <1>0, <1>1, <1>3, <1>4, <1>6, SameRows DEF IInv

LEMMA LockIInv ==
    ASSUME IInv, NEW p \in Procs, LockEmployee(p)
    PROVE  IInv'
<1>0. ProcType /\ UNCHANGED <<allocations, call, seen>>
  BY DEF IInv, LockEmployee
<1>1. ProcType'
  BY <1>0 DEF ProcType, LockEmployee
<1>2. pc'[p] = "check" /\ \A q \in Procs \ {p} : pc'[q] = pc[q]
  BY <1>0 DEF ProcType, LockEmployee
<1>3. \A q \in Procs : ~Holds(q)
  BY FreeAssumption DEF IInv, Exclusion, LockEmployee
<1>4. Exclusion'
  BY <1>2, <1>3 DEF Exclusion, Holds, LockEmployee
<1>5. NewIds'
  BY <1>0 DEF IInv, NewIds, Creates
<1>6. Decided(p)'
  BY <1>0, <1>2 DEF IInv, Decided, At, Asked, OpenFrom, LockEmployee
<1>7. \A q \in Procs : Decided(q)'
  BY <1>0, <1>2, <1>6, OthersDecided
<1> QED
  BY <1>0, <1>1, <1>4, <1>5, <1>7, SameRows DEF IInv

LEMMA CheckedIInv ==
    ASSUME IInv, NEW p \in Procs, pc[p] = "check",
           NEW rows, NEW ignored, NEW previous \in SUBSET AllocIds,
           Checked(p, seen[p].period, rows, ignored, previous),
           call[p].op = "create" => rows = allocations /\ ignored = {},
           call[p].op = "update" => rows = allocations /\ ignored = {call[p].id},
           call[p].op = "transfer" =>
               /\ rows = Closed(allocations, previous, call[p].start - 1) /\ ignored = {}
               /\ \A i \in previous : Covers(allocations[i], call[p].start - 1)
    PROVE  IInv'
<1>0. ProcType /\ UNCHANGED <<allocations, call, active, employeeLock>>
  BY DEF IInv, Checked
<1>1. /\ pc'[p] = "write" /\ seen'[p] = [period |-> seen[p].period, previous |-> previous]
      /\ \A q \in Procs \ {p} : pc'[q] = pc[q] /\ seen'[q] = seen[q]
  BY <1>0 DEF ProcType, Checked
<1>2. ProcType'
  BY <1>0 DEF ProcType, Checked
<1>3. Exclusion'
  BY <1>0, <1>1 DEF IInv, Exclusion, Holds
<1>4. NewIds'
  BY <1>0 DEF IInv, NewIds, Creates
<1>5. Decided(p)'
  <2>1. NoConflict(seen[p].period, rows, ignored)
    BY DEF Checked
  <2>2. Decided(p)
    BY DEF IInv
  <2>3. CASE call[p].op = "create"
    BY <1>0, <1>1, <2>1, <2>2, <2>3
       DEF Decided, At, Asked, CheckedCreate, NoConflict, Live, Overlaps
  <2>4. CASE call[p].op = "update"
    BY <1>0, <1>1, <2>1, <2>2, <2>4
       DEF Decided, At, Asked, CheckedUpdate, NoConflict, Live, Overlaps
  <2>5. CASE call[p].op = "transfer"
    <3>1. seen[p].period = OpenFrom(p)
      BY <2>2, <2>5 DEF Decided
    <3>2. NoConflict(OpenFrom(p), Closed(allocations, previous, call[p].start - 1), {})
      BY <2>1, <2>5, <3>1
    <3>3. seen'[p].previous = previous /\ seen'[p].period = OpenFrom(p)
      BY <1>1, <3>1
    <3>4. CheckedTransfer(p)'
      BY <1>0, <2>5, <3>2, <3>3
         DEF OpenFrom, CheckedTransfer, NoConflict, Live, Overlaps, Closed, Covers
    <3> QED
      BY <1>0, <2>5, <3>3, <3>4 DEF Decided, At, OpenFrom
  <2>6. CASE call[p].op \notin {"create", "update", "transfer"}
    BY <1>0, <2>6 DEF Decided, At
  <2> QED
    BY <2>3, <2>4, <2>5, <2>6
<1>6. \A q \in Procs : Decided(q)'
  BY <1>0, <1>1, <1>5, OthersDecided
<1> QED
  BY <1>0, <1>2, <1>3, <1>4, <1>6, SameRows DEF IInv
-----------------------------------------------------------------------------
(* The steps that write, and the end of a call.                            *)

(* A call ends after writing, under the lock, rows that do not overlap; or *)
(* it ends anywhere and writes nothing.                                    *)
LEMMA FinishIInv ==
    ASSUME IInv, NEW p \in Procs, Finish(p),
           Holds(p) \/ UNCHANGED allocations,
           allocations' \in [AllocIds -> Rows],
           NoOverlap',
           \A i \in AllocIds : (Creates(p) => i # call[p].id) =>
               allocations'[i].status = allocations[i].status
    PROVE  IInv'
<1>0. ProcType
  BY DEF IInv
<1>1. NothingSeen \in [period: [start: Days \cup {0}, end: Ends], previous: SUBSET AllocIds]
  BY Arithmetic DEF NothingSeen, NoPeriod
<1>2. ProcType'
  BY <1>0, <1>1 DEF ProcType, Finish, Calls
<1>3. /\ pc'[p] = "idle" /\ call'[p] = NoCall
      /\ \A q \in Procs \ {p} : pc'[q] = pc[q] /\ call'[q] = call[q] /\ seen'[q] = seen[q]
  BY <1>0 DEF ProcType, Finish
<1>4. Exclusion'
  BY <1>3 DEF IInv, Exclusion, Holds, Finish
<1>5. NewIds'
  <2> SUFFICES ASSUME NEW q \in Procs, Creates(q)'
               PROVE  /\ allocations'[call'[q].id].status = "NONE"
                      /\ \A r \in Procs : Creates(r)' /\ r # q => call'[r].id # call'[q].id
    BY DEF NewIds
  <2>1. q # p /\ call'[q] = call[q] /\ Creates(q)
    BY <1>3 DEF Creates, NoCall
  <2>2. call[q].id \in AllocIds
    BY <1>0, <2>1, CallShape DEF ProcType, Creates
  <2>3. allocations[call[q].id].status = "NONE" /\ (Creates(p) => call[q].id # call[p].id)
    BY <2>1 DEF IInv, NewIds
  <2>4. allocations'[call[q].id].status = "NONE"
    BY <2>2, <2>3
  <2>5. \A r \in Procs : Creates(r)' /\ r # q => r # p /\ Creates(r) /\ call'[r] = call[r]
    BY <1>3 DEF Creates, NoCall
  <2> QED
    BY <2>1, <2>4, <2>5 DEF IInv, NewIds
<1>6. ASSUME NEW q \in Procs PROVE Decided(q)'
  <2>1. CASE q = p
    BY <1>3, <2>1 DEF Decided, At, NoCall
  <2>2. CASE q # p /\ UNCHANGED allocations
    BY <1>3, <2>2, OthersDecided
  <2>3. CASE q # p /\ Holds(p)
    <3>1. ~Holds(q)
      BY <2>3 DEF IInv, Exclusion
    <3> QED
      BY <1>3, <2>3, <3>1 DEF IInv, Decided, At, Holds, Asked, OpenFrom
  <2> QED
    BY <2>1, <2>2, <2>3
<1> QED
  BY <1>2, <1>4, <1>5, <1>6 DEF IInv

LEMMA AbortIInv ==
    ASSUME IInv, NEW p \in Procs, Abort(p)
    PROVE  IInv'
BY FinishIInv, SameRows DEF Abort, IInv

LEMMA CommitCreateIInv ==
    ASSUME IInv, NEW p \in Procs, CommitCreate(p)
    PROVE  IInv'
<1>1. PICK new \in AllocIds, start \in Days, end \in Ends :
          new = call[p].id /\ start = call[p].start /\ end = call[p].end
  BY CallShape DEF IInv, ProcType, CommitCreate, At
<1> DEFINE row == [status |-> "LIVE", start |-> start, end |-> end]
<1>2. /\ Holds(p) /\ Creates(p) /\ Finish(p)
      /\ allocations' = [allocations EXCEPT ![new] = row]
  BY <1>1 DEF CommitCreate, Write, Holds, Creates, At
<1>3. row \in Rows
  BY DEF Rows
<1>4. allocations' \in [AllocIds -> Rows]
  BY <1>2, <1>3 DEF IInv
<1>5. \A i \in AllocIds : allocations'[i] = IF i = new THEN row ELSE allocations[i]
  BY <1>2 DEF IInv
<1>6. \A i \in Live(allocations) : ~Overlaps(row, allocations[i])
  <2>1. NoConflict(Asked(p), allocations, {})
    BY DEF IInv, Decided, CommitCreate, CheckedCreate
  <2> QED
    BY <1>1, <2>1 DEF NoConflict, Asked, Overlaps
<1>7. NoOverlap'
  <2> SUFFICES ASSUME NEW i \in Live(allocations)', NEW j \in Live(allocations)', i # j
               PROVE  ~Overlaps(allocations'[i], allocations'[j])
    BY DEF NoOverlap, Overlaps
  <2>1. i \in AllocIds /\ j \in AllocIds
    BY DEF Live
  <2>2. /\ i # new => i \in Live(allocations)
        /\ j # new => j \in Live(allocations)
    BY <1>5, <2>1 DEF Live
  <2>3. CASE i # new /\ j # new
    BY <1>5, <2>1, <2>2, <2>3 DEF IInv, NoOverlap, Overlaps
  <2>4. CASE i = new /\ j # new
    BY <1>5, <1>6, <2>1, <2>2, <2>4
  <2>5. CASE i # new /\ j = new
    BY <1>5, <1>6, <2>1, <2>2, <2>5 DEF Overlaps
  <2> QED
    BY <2>3, <2>4, <2>5
<1> QED
  BY <1>1, <1>2, <1>4, <1>5, <1>7, FinishIInv

LEMMA CommitUpdateIInv ==
    ASSUME IInv, NEW p \in Procs, CommitUpdate(p)
    PROVE  IInv'
<1>1. PICK id \in AllocIds, start \in Days, end \in Ends :
          id = call[p].id /\ start = call[p].start /\ end = call[p].end
  BY CallShape DEF IInv, ProcType, CommitUpdate, At, Decided
<1>2. start # Keep /\ end # Keep
  BY <1>1 DEF IInv, Decided, CommitUpdate, At
<1> DEFINE row == [status |-> allocations[id].status, start |-> start, end |-> end]
<1>3. /\ Holds(p) /\ ~Creates(p) /\ Finish(p)
      /\ allocations' = [allocations EXCEPT ![id].start = start, ![id].end = end]
  BY <1>1, <1>2 DEF CommitUpdate, Write, Holds, Creates, At, Patched
<1>4. allocations \in [AllocIds -> Rows]
  BY DEF IInv
<1>5. \A i \in AllocIds : allocations'[i] = IF i = id THEN row ELSE allocations[i]
  <2>1. \A i \in AllocIds \ {id} : allocations'[i] = allocations[i]
    BY <1>3, <1>4
  <2>2. allocations[id] \in Rows
    BY <1>4
  <2>3. allocations'[id] = [allocations[id] EXCEPT !.start = start, !.end = end]
    BY <1>3, <1>4
  <2>4. allocations'[id] = row
    BY <2>2, <2>3 DEF Rows
  <2> QED
    BY <2>1, <2>4
<1>6. row \in Rows
  BY <1>4 DEF Rows
<1>7. allocations' \in [AllocIds -> Rows]
  <2>1. \A i \in AllocIds : allocations'[i] \in Rows
    BY <1>4, <1>5, <1>6
  <2>2. allocations' = [i \in AllocIds |-> allocations'[i]]
    BY <1>3, <1>4
  <2> QED
    BY <2>1, <2>2
<1>8. \A i \in Live(allocations) \ {id} : ~Overlaps(row, allocations[i])
  <2>1. NoConflict(Asked(p), allocations, {id})
    BY <1>1 DEF IInv, Decided, CommitUpdate, CheckedUpdate
  <2> QED
    BY <1>1, <2>1 DEF NoConflict, Asked, Overlaps
<1>9. NoOverlap'
  <2> SUFFICES ASSUME NEW i \in Live(allocations)', NEW j \in Live(allocations)', i # j
               PROVE  ~Overlaps(allocations'[i], allocations'[j])
    BY DEF NoOverlap, Overlaps
  <2>1. i \in AllocIds /\ j \in AllocIds
    BY DEF Live
  <2>2. i \in Live(allocations) /\ j \in Live(allocations)
    BY <1>5, <2>1 DEF Live
  <2>3. CASE i # id /\ j # id
    BY <1>5, <2>1, <2>2, <2>3 DEF IInv, NoOverlap, Overlaps
  <2>4. CASE i = id /\ j # id
    BY <1>5, <1>8, <2>1, <2>2, <2>4
  <2>5. CASE i # id /\ j = id
    BY <1>5, <1>8, <2>1, <2>2, <2>5 DEF Overlaps
  <2> QED
    BY <2>3, <2>4, <2>5
<1> QED
  BY <1>1, <1>3, <1>5, <1>7, <1>9, FinishIInv
-----------------------------------------------------------------------------
(* The rows that a transfer writes.                                        *)
LEMMA TransferRows ==
    ASSUME IInv, NEW p \in Procs, CommitTransfer(p)
    PROVE  /\ Holds(p) /\ Creates(p) /\ Finish(p)
           /\ call[p].id \in AllocIds /\ call[p].start \in Days
           /\ \A i \in AllocIds : allocations'[i] =
                  IF i = call[p].id
                  THEN [status |-> "LIVE", start |-> call[p].start, end |-> OpenEnd]
                  ELSE IF i \in seen[p].previous
                  THEN [status |-> allocations[i].status, start |-> allocations[i].start,
                        end |-> call[p].start - 1]
                  ELSE allocations[i]
           /\ allocations' \in [AllocIds -> Rows]
           /\ \A i \in seen[p].previous : Covers(allocations[i], call[p].start - 1)
           /\ \A i \in Live(allocations) : i # call[p].id =>
                  ~Overlaps(OpenFrom(p), allocations'[i])
<1>1. call[p].id \in AllocIds /\ call[p].start \in Days
  BY CallShape DEF IInv, ProcType, CommitTransfer, At
<1>2. Holds(p) /\ Creates(p) /\ Finish(p)
  BY DEF CommitTransfer, Write, Holds, Creates, At
<1> DEFINE eve == call[p].start - 1
           row == [status |-> "LIVE", start |-> call[p].start, end |-> OpenEnd]
           closed == Closed(allocations, seen[p].previous, eve)
           shut(i) == [status |-> allocations[i].status, start |-> allocations[i].start,
                       end |-> eve]
<1>3. allocations \in [AllocIds -> Rows] /\ seen[p].previous \in SUBSET AllocIds
  BY DEF IInv, ProcType
<1>4. \A i \in AllocIds : closed[i] = IF i \in seen[p].previous THEN shut(i) ELSE allocations[i]
  <2> SUFFICES ASSUME NEW i \in AllocIds
               PROVE  closed[i] = IF i \in seen[p].previous THEN shut(i) ELSE allocations[i]
    OBVIOUS
  <2>1. allocations[i] \in Rows
    BY <1>3
  <2>2. [allocations[i] EXCEPT !.end = eve] = shut(i)
    BY <2>1 DEF Rows
  <2> QED
    BY <2>2 DEF Closed
<1>5. allocations' = [closed EXCEPT ![call[p].id] = row]
  BY DEF CommitTransfer, Write
<1>6. closed = [i \in AllocIds |-> closed[i]]
  BY DEF Closed
<1>7. \A i \in AllocIds : allocations'[i] = IF i = call[p].id THEN row ELSE closed[i]
  <2> HIDE DEF closed, row
  <2> QED
    BY <1>5, <1>6
<1>8. \A i \in AllocIds : closed[i] \in Rows /\ row \in Rows
  <2>1. row \in Rows
    BY <1>1, Arithmetic DEF Rows
  <2>2. \A i \in AllocIds : shut(i) \in Rows
    BY <1>1, <1>3, Arithmetic DEF Rows
  <2> HIDE DEF closed, row, shut
  <2> QED
    BY <1>3, <1>4, <2>1, <2>2
<1>9. allocations' \in [AllocIds -> Rows]
  <2> HIDE DEF closed, row
  <2>1. allocations' = [i \in AllocIds |-> IF i = call[p].id THEN row ELSE closed[i]]
    BY <1>5, <1>6, <1>7
  <2> QED
    BY <1>8, <2>1
<1>10. CheckedTransfer(p)
  BY DEF IInv, Decided, CommitTransfer
<1>11. \A i \in Live(allocations) : i # call[p].id => ~Overlaps(OpenFrom(p), allocations'[i])
  <2> SUFFICES ASSUME NEW i \in Live(allocations), i # call[p].id
               PROVE  ~Overlaps(OpenFrom(p), allocations'[i])
    OBVIOUS
  <2>0. i \in AllocIds /\ allocations[i].status = "LIVE" /\ shut(i).status = "LIVE"
    BY DEF Live
  <2>1. i \in AllocIds /\ closed[i].status = "LIVE"
    <3> HIDE DEF closed, shut
    <3> QED
      BY <1>4, <2>0
  <2>2. i \in Live(closed)
    BY <2>1 DEF Live
  <2>3. ~Overlaps(OpenFrom(p), closed[i])
    BY <1>10, <2>2 DEF CheckedTransfer, NoConflict
  <2> HIDE DEF closed, row
  <2> QED
    BY <1>7, <2>1, <2>3
<1>12. \A i \in seen[p].previous : Covers(allocations[i], call[p].start - 1)
  BY <1>10 DEF CheckedTransfer
<1>13. \A i \in AllocIds : allocations'[i] =
          IF i = call[p].id THEN row
          ELSE IF i \in seen[p].previous THEN shut(i) ELSE allocations[i]
  <2> HIDE DEF closed, row, shut
  <2> QED
    BY <1>4, <1>7
<1> QED
  BY <1>1, <1>2, <1>9, <1>11, <1>12, <1>13

(* What a transfer writes, and what it knew of the rows it closes and of the *)
(* rows it leaves.                                                         *)
LEMMA TransferEffect ==
    ASSUME IInv, NEW p \in Procs, CommitTransfer(p)
    PROVE  \E id \in AllocIds, day \in Days :
        /\ id = call[p].id /\ day = call[p].start
        /\ allocations'[id] = [status |-> "LIVE", start |-> day, end |-> OpenEnd]
        /\ \A i \in AllocIds : i # id =>
             /\ allocations'[i].status = allocations[i].status
             /\ allocations'[i].start = allocations[i].start
             /\ allocations'[i].end = IF i \in seen[p].previous
                                      THEN day - 1 ELSE allocations[i].end
        /\ \A i \in seen[p].previous : Covers(allocations[i], day - 1)
        /\ \A i \in Live(allocations) : i # id =>
             ~(day <= allocations'[i].end /\ allocations'[i].start <= OpenEnd)
<1> DEFINE rows == allocations'
<1>1. PICK id \in AllocIds, day \in Days : id = call[p].id /\ day = call[p].start
  BY TransferRows
<1>2. /\ rows[id] = [status |-> "LIVE", start |-> day, end |-> OpenEnd]
      /\ \A i \in AllocIds : i # id =>
             /\ rows[i].status = allocations[i].status
             /\ rows[i].start = allocations[i].start
             /\ rows[i].end = IF i \in seen[p].previous THEN day - 1 ELSE allocations[i].end
      /\ \A i \in seen[p].previous : Covers(allocations[i], day - 1)
      /\ \A i \in Live(allocations) : i # id => ~(day <= rows[i].end /\ rows[i].start <= OpenEnd)
  <2>1. \A i \in AllocIds : rows[i] =
            IF i = id THEN [status |-> "LIVE", start |-> day, end |-> OpenEnd]
            ELSE IF i \in seen[p].previous
            THEN [status |-> allocations[i].status, start |-> allocations[i].start,
                  end |-> day - 1]
            ELSE allocations[i]
    BY <1>1, TransferRows
  <2>2. \A i \in seen[p].previous : Covers(allocations[i], day - 1)
    BY <1>1, TransferRows
  <2>3. \A i \in Live(allocations) : i # id =>
            ~Overlaps([start |-> day, end |-> OpenEnd], rows[i])
    BY <1>1, TransferRows DEF OpenFrom
  <2> HIDE DEF rows
  <2>4. rows[id] = [status |-> "LIVE", start |-> day, end |-> OpenEnd]
    BY <2>1
  <2>5. \A i \in AllocIds : i # id =>
             /\ rows[i].status = allocations[i].status
             /\ rows[i].start = allocations[i].start
             /\ rows[i].end = IF i \in seen[p].previous THEN day - 1 ELSE allocations[i].end
    <3> SUFFICES ASSUME NEW i \in AllocIds, i # id
                 PROVE  /\ rows[i].status = allocations[i].status
                        /\ rows[i].start = allocations[i].start
                        /\ rows[i].end = IF i \in seen[p].previous
                                         THEN day - 1 ELSE allocations[i].end
      OBVIOUS
    <3>1. CASE i \in seen[p].previous
      <4>1. rows[i] = [status |-> allocations[i].status, start |-> allocations[i].start,
                       end |-> day - 1]
        BY <2>1, <3>1
      <4> QED
        BY <3>1, <4>1
    <3>2. CASE i \notin seen[p].previous
      BY <2>1, <3>2
    <3> QED
      BY <3>1, <3>2
  <2>7. \A i \in Live(allocations) : i # id =>
            ~(day <= rows[i].end /\ rows[i].start <= OpenEnd)
    BY <2>3 DEF Overlaps
  <2> QED
    BY <2>2, <2>4, <2>5, <2>7
<1> QED
  BY <1>1, <1>2

LEMMA CommitTransferIInv ==
    ASSUME IInv, NEW p \in Procs, CommitTransfer(p)
    PROVE  IInv'
<1> DEFINE rows == allocations'
<1>1. PICK id \in AllocIds, day \in Days :
      /\ id = call[p].id /\ day = call[p].start
      /\ rows[id] = [status |-> "LIVE", start |-> day, end |-> OpenEnd]
      /\ \A i \in AllocIds : i # id =>
             /\ rows[i].status = allocations[i].status
             /\ rows[i].start = allocations[i].start
             /\ rows[i].end = IF i \in seen[p].previous THEN day - 1 ELSE allocations[i].end
      /\ \A i \in seen[p].previous : Covers(allocations[i], day - 1)
      /\ \A i \in Live(allocations) : i # id => ~(day <= rows[i].end /\ rows[i].start <= OpenEnd)
  BY TransferEffect
<1>2. /\ rows[id] = [status |-> "LIVE", start |-> day, end |-> OpenEnd]
      /\ \A i \in AllocIds : i # id =>
             /\ rows[i].status = allocations[i].status
             /\ rows[i].start = allocations[i].start
             /\ rows[i].end = IF i \in seen[p].previous THEN day - 1 ELSE allocations[i].end
      /\ \A i \in seen[p].previous : day - 1 <= allocations[i].end
      /\ \A i \in Live(allocations) : i # id => ~(day <= rows[i].end /\ rows[i].start <= OpenEnd)
  BY <1>1 DEF Covers
<1>3. day \in Nat /\ day - 1 \in Nat
  BY Arithmetic
<1>4. \A i \in AllocIds : /\ allocations[i].start \in Nat /\ allocations[i].end \in Nat
                          /\ i # id => rows[i].end <= allocations[i].end
  BY <1>2, <1>3, RowShape DEF IInv
<1>5. NoOverlap'
  <2> SUFFICES ASSUME NEW i \in Live(allocations)', NEW j \in Live(allocations)', i # j
               PROVE  ~Overlaps(rows[i], rows[j])
    BY DEF NoOverlap, Overlaps
  <2>1. i \in AllocIds /\ j \in AllocIds
    BY DEF Live
  <2>2. /\ i # id => i \in Live(allocations)
        /\ j # id => j \in Live(allocations)
    BY <1>2, <2>1 DEF Live
  <2> HIDE DEF rows
  <2>3. CASE i # id /\ j # id
    <3>1. ~(allocations[i].start <= allocations[j].end /\ allocations[j].start <= allocations[i].end)
      BY <2>2, <2>3 DEF IInv, NoOverlap, Overlaps
    <3>2. /\ rows[i].start = allocations[i].start /\ rows[j].start = allocations[j].start
          /\ rows[i].end \in Nat /\ rows[j].end \in Nat
          /\ rows[i].end <= allocations[i].end /\ rows[j].end <= allocations[j].end
      BY <1>2, <1>3, <1>4, <2>1, <2>3
    <3> QED
      BY <1>4, <2>1, <3>1, <3>2 DEF Overlaps
  <2>4. CASE i = id /\ j # id
    BY <1>2, <2>1, <2>2, <2>4 DEF Overlaps
  <2>5. CASE i # id /\ j = id
    BY <1>2, <2>1, <2>2, <2>5 DEF Overlaps
  <2> QED
    BY <2>3, <2>4, <2>5
<1>6. \A i \in AllocIds : i # call[p].id => allocations'[i].status = allocations[i].status
  BY <1>1, <1>2
<1> QED
  BY <1>5, <1>6, TransferRows, FinishIInv

(* Removals and changes of the employee.                                   *)
LEMMA RemoveIInv ==
    ASSUME IInv, NEW i \in AllocIds, Remove(i)
    PROVE  IInv'
<1>1. /\ allocations \in [AllocIds -> Rows] /\ allocations[i] \in Rows
      /\ allocations[i].status = "LIVE"
      /\ allocations' = [allocations EXCEPT ![i].status = "TRASHED"]
      /\ UNCHANGED <<active, employeeLock, pc, call, seen>>
  BY DEF IInv, Remove
<1>2. [allocations[i] EXCEPT !.status = "TRASHED"] \in Rows
  BY <1>1 DEF Rows
<1>3. allocations' \in [AllocIds -> Rows]
  BY <1>1, <1>2
<1>4. \A j \in AllocIds : /\ allocations'[j].start = allocations[j].start
                          /\ allocations'[j].end = allocations[j].end
                          /\ j # i => allocations'[j].status = allocations[j].status
  BY <1>1 DEF Rows
<1>5. allocations'[i].status = "TRASHED"
  BY <1>1 DEF Rows
<1>6. Live(allocations)' = Live(allocations) \ {i}
  BY <1>4, <1>5 DEF Live
<1>7. NoOverlap'
  BY <1>4, <1>6 DEF IInv, NoOverlap, Overlaps, Live
<1>8. NewIds'
  <2>1. \A p \in Procs : Creates(p) => call[p].id \in AllocIds /\ call[p].id # i
    BY <1>1, CallShape DEF IInv, ProcType, NewIds, Creates
  <2> QED
    BY <1>1, <1>4, <2>1 DEF IInv, NewIds, Creates
<1>9. ProcType' /\ Exclusion'
  BY <1>1 DEF IInv, ProcType, Exclusion, Holds
<1>10. ASSUME NEW p \in Procs PROVE Decided(p)'
  <2>1. Decided(p)
    BY DEF IInv
  <2>2. CheckedCreate(p) => CheckedCreate(p)'
    BY <1>1, <1>4, <1>6 DEF CheckedCreate, NoConflict, Asked, Overlaps, Live
  <2>3. CheckedUpdate(p) => CheckedUpdate(p)'
    BY <1>1, <1>4, <1>6 DEF CheckedUpdate, NoConflict, Asked, Overlaps, Live
  <2>4. CheckedTransfer(p) => CheckedTransfer(p)'
    <3> DEFINE closed == Closed(allocations, seen[p].previous, call[p].start - 1)
    <3>1. seen[p].previous \in SUBSET AllocIds
      BY DEF IInv, ProcType
    <3>2. \A j \in AllocIds : /\ closed'[j].start = closed[j].start
                              /\ closed'[j].end = closed[j].end
                              /\ j # i => closed'[j].status = closed[j].status
                              /\ closed'[i].status = "TRASHED"
      <4>1. \A j \in AllocIds : allocations[j] \in Rows /\ allocations'[j] \in Rows
        BY <1>1, <1>3
      <4> QED
        BY <1>1, <1>4, <1>5, <4>1 DEF Closed, Rows
    <3>3. Live(closed)' \subseteq Live(closed)
      BY <3>2 DEF Live
    <3>4. \A j \in AllocIds : Covers(allocations[j], call[p].start - 1)
              => Covers(allocations'[j], call[p].start - 1)
      BY <1>4 DEF Covers
    <3>5. ASSUME CheckedTransfer(p)
          PROVE  NoConflict(OpenFrom(p), closed, {})'
      <4> SUFFICES ASSUME NEW j \in Live(closed)'
                   PROVE  ~Overlaps(OpenFrom(p)', closed'[j])
        BY DEF NoConflict, Overlaps
      <4>1. j \in Live(closed) /\ j \in AllocIds
        BY <3>3 DEF Live
      <4>2. ~Overlaps(OpenFrom(p), closed[j])
        BY <3>5, <4>1 DEF CheckedTransfer, NoConflict
      <4> QED
        BY <1>1, <3>2, <4>1, <4>2 DEF Overlaps, OpenFrom
    <3> QED
      BY <1>1, <3>1, <3>4, <3>5 DEF CheckedTransfer
  <2> QED
    BY <1>1, <2>1, <2>2, <2>3, <2>4 DEF Decided, At, Asked, OpenFrom
<1> QED
  BY <1>3, <1>7, <1>8, <1>9, <1>10 DEF IInv

LEMMA StillIInv ==
    ASSUME IInv, UNCHANGED <<allocations, employeeLock, pc, call, seen>>, active' \in BOOLEAN
    PROVE  IInv'
<1>1. \A p \in Procs : Decided(p)'
  BY OthersDecided
<1>2. ProcType' /\ Exclusion' /\ NewIds'
  BY DEF IInv, ProcType, Exclusion, NewIds, Holds, Creates
<1> QED
  BY <1>1, <1>2, SameRows DEF IInv
-----------------------------------------------------------------------------
(* Every step preserves the invariant but those that loosen the checks: a  *)
(* patch of one end, and a restoration from the trash.                     *)
LEMMA NextIInv == IInv /\ [Next]_vars /\ ~loose' => IInv'
<1> SUFFICES ASSUME IInv, [Next]_vars, ~loose' PROVE IInv'
  OBVIOUS
<1>0. Next => ~Loosens
  BY DEF Next
<1>1. ASSUME NEW p \in Procs, BeginCreate(p) PROVE IInv'
  <2>1. PICK i \in AllocIds, start \in Days, end \in Ends :
            /\ Fresh(i)
            /\ Start(p, [op |-> "create", id |-> i, start |-> start, end |-> end],
                     [start |-> start, end |-> end])
    BY <1>1 DEF BeginCreate
  <2>2. [op |-> "create", id |-> i, start |-> start, end |-> end] \in Calls
    BY DEF Calls
  <2>3. [start |-> start, end |-> end] \in [start: Days \cup {0}, end: Ends]
    OBVIOUS
  <2> QED
    BY <2>1, <2>2, <2>3, StartIInv
<1>2. ASSUME NEW p \in Procs, BeginTransfer(p) PROVE IInv'
  <2>1. PICK i \in AllocIds, day \in Days :
            /\ Fresh(i)
            /\ Start(p, [op |-> "transfer", id |-> i, start |-> day],
                     [start |-> day, end |-> OpenEnd])
    BY <1>2 DEF BeginTransfer
  <2>2. [op |-> "transfer", id |-> i, start |-> day] \in Calls
    BY DEF Calls
  <2>3. [start |-> day, end |-> OpenEnd] \in [start: Days \cup {0}, end: Ends]
    BY Arithmetic
  <2> QED
    BY <2>1, <2>2, <2>3, StartIInv
<1>3. ASSUME NEW p \in Procs, BeginUpdate(p), ~Loosens PROVE IInv'
  <2>1. PICK i \in Live(allocations), start \in Days \cup {Keep}, end \in Ends \cup {Keep} :
            Start(p, [op |-> "update", id |-> i, start |-> start, end |-> end],
                  [start |-> Patched(start, allocations[i].start),
                   end |-> Patched(end, allocations[i].end)])
    BY <1>3 DEF BeginUpdate
  <2>6. call'[p] = [op |-> "update", id |-> i, start |-> start, end |-> end]
    BY <2>1 DEF Start, IInv, ProcType
  <2>7. start # Keep /\ end # Keep
    BY <1>3, <2>6 DEF Loosens
  <2>2. i \in AllocIds /\ start \in Days /\ end \in Ends
    BY <2>1, <2>7 DEF Live
  <2>3. [op |-> "update", id |-> i, start |-> start, end |-> end] \in Calls
    BY <2>2 DEF Calls
  <2>4. Start(p, [op |-> "update", id |-> i, start |-> start, end |-> end],
              [start |-> start, end |-> end])
    BY <2>1, <2>7 DEF Patched
  <2>5. [start |-> start, end |-> end] \in [start: Days \cup {0}, end: Ends]
    BY <2>2
  <2> QED
    BY <2>1, <2>2, <2>3, <2>4, <2>5, <2>7, StartIInv
<1>4. ASSUME NEW p \in Procs, CheckCreate(p) PROVE IInv'
  BY <1>4, CheckedIInv DEF CheckCreate, At
<1>5. ASSUME NEW p \in Procs, CheckUpdate(p) PROVE IInv'
  BY <1>5, CheckedIInv DEF CheckUpdate, At
<1>6. ASSUME NEW p \in Procs, CheckTransfer(p) PROVE IInv'
  <2> DEFINE eve == call[p].start - 1
             candidates == {i \in AllocIds : IsPrevious(i, eve)}
  <2>1. pc[p] = "check" /\ call[p].op = "transfer"
    BY <1>6 DEF CheckTransfer, At
  <2>2. PICK previous \in IF candidates = {} THEN {{}} ELSE {{i} : i \in candidates} :
            Checked(p, seen[p].period, Closed(allocations, previous, eve), {}, previous)
    BY <1>6 DEF CheckTransfer
  <2>3. previous \in SUBSET candidates
    BY <2>2
  <2>4. \A i \in previous : Covers(allocations[i], eve)
    BY <2>3 DEF IsPrevious
  <2>5. previous \in SUBSET AllocIds
    BY <2>3
  <2> QED
    BY <2>1, <2>2, <2>4, <2>5, CheckedIInv
<1>7. ASSUME NEW p \in Procs, Step(p), ~Loosens PROVE IInv'
  BY <1>1, <1>2, <1>3, <1>4, <1>5, <1>6, <1>7, LockIInv, AbortIInv,
     CommitCreateIInv, CommitUpdateIInv, CommitTransferIInv DEF Step
<1>8. ASSUME NEW i \in AllocIds, Remove(i) \/ Restore(i), ~Loosens PROVE IInv'
  <2>1. CASE Remove(i)
    BY <2>1, RemoveIInv
  <2>2. CASE Restore(i)
    <3>1. allocations[i].status = "TRASHED" /\ allocations'[i].status = "LIVE"
      BY <2>2 DEF Restore, IInv, Rows
    <3> QED
      BY <1>8, <3>1 DEF Loosens
  <2> QED
    BY <1>8, <2>1, <2>2
<1>9. ASSUME NEW working \in BOOLEAN, SetStatus(working) PROVE IInv'
  BY <1>9, StillIInv DEF SetStatus
<1>10. CASE UNCHANGED vars
  BY <1>10, StillIInv DEF vars, IInv, ProcType
<1> QED
  BY <1>0, <1>7, <1>8, <1>9, <1>10 DEF Next

(* Until something is loose, IInv holds; and loose it remains.             *)
CheckedInv == loose \in BOOLEAN /\ (~loose => IInv)

LEMMA CheckedInvStep == CheckedInv /\ [Next]_vars => CheckedInv'
<1> SUFFICES ASSUME CheckedInv, [Next]_vars PROVE CheckedInv'
  OBVIOUS
<1>1. loose' \in BOOLEAN /\ (~loose' => ~loose)
  BY DEF CheckedInv, Next, vars
<1>2. ASSUME ~loose' PROVE IInv'
  BY <1>1, <1>2, NextIInv DEF CheckedInv
<1> QED
  BY <1>1, <1>2 DEF CheckedInv

LEMMA SpecCheckedInv == Spec => []CheckedInv
<1>1. Init => CheckedInv
  BY InitIInv DEF Init, CheckedInv
<1> QED
  BY <1>1, CheckedInvStep, PTL DEF Spec

(* An employee is never at two sites on one day, as long as nothing is     *)
(* restored from the trash and every patch carries both ends.              *)
THEOREM NeverTwoSites == Spec => []CheckedNoOverlap
<1>1. CheckedInv => CheckedNoOverlap
  BY DEF CheckedInv, CheckedNoOverlap, IInv
<1> QED
  BY SpecCheckedInv, <1>1, PTL

(* A step of another call, or one that writes nothing, is no transfer.     *)
LEMMA TransferStep ==
    ASSUME IInv, [Next]_vars, NEW p \in Procs, At(p, "write", "transfer"),
           allocations' # allocations, pc'[p] = "idle"
    PROVE  CommitTransfer(p)
<1>1. pc \in [Procs -> {"idle", "lock", "check", "write"}]
  BY DEF IInv, ProcType
<1>2. pc'[p] # pc[p]
  BY DEF At
<1>3. ASSUME NEW q \in Procs, Step(q) PROVE q = p
  <2>1. \E step : pc' = [pc EXCEPT ![q] = step]
    BY <1>3 DEF Step, BeginCreate, BeginTransfer, BeginUpdate, CheckCreate, CheckTransfer,
       CheckUpdate, CommitCreate, CommitTransfer, CommitUpdate, LockEmployee, Abort,
       Start, Checked, Write, Finish
  <2> QED
    BY <1>1, <1>2, <2>1
<1>4. ASSUME Step(p) PROVE CommitTransfer(p)
  BY <1>4 DEF Step, BeginCreate, BeginTransfer, BeginUpdate, CheckCreate, CheckTransfer,
     CheckUpdate, CommitCreate, CommitUpdate, LockEmployee, Abort, Start, Checked, At
<1>5. ASSUME NEW i \in AllocIds, Remove(i) \/ Restore(i) PROVE FALSE
  BY <1>2, <1>5 DEF Remove, Restore
<1>6. ASSUME NEW working \in BOOLEAN, SetStatus(working) PROVE FALSE
  BY <1>6 DEF SetStatus
<1>7. ~UNCHANGED vars
  BY DEF vars
<1> QED
  BY <1>3, <1>4, <1>5, <1>6, <1>7 DEF Next

(* Under these assumptions a transfer rewrites no day before its own, and  *)
(* from its own on the employee is at the new site alone.                  *)
LEMMA CommitTransferKeeps ==
    ASSUME IInv, NEW p \in Procs, CommitTransfer(p), NEW day \in Days
    PROVE  Occupying(day)' = IF day < call[p].start THEN Occupying(day) ELSE {call[p].id}
<1> DEFINE rows == allocations'
<1>1. PICK id \in AllocIds, first \in Days :
      /\ id = call[p].id /\ first = call[p].start
      /\ rows[id] = [status |-> "LIVE", start |-> first, end |-> OpenEnd]
      /\ \A i \in AllocIds : i # id =>
             /\ rows[i].status = allocations[i].status
             /\ rows[i].start = allocations[i].start
             /\ rows[i].end = IF i \in seen[p].previous THEN first - 1 ELSE allocations[i].end
      /\ \A i \in seen[p].previous : Covers(allocations[i], first - 1)
      /\ \A i \in Live(allocations) : i # id => ~(first <= rows[i].end /\ rows[i].start <= OpenEnd)
  BY TransferEffect
<1>2. allocations[id].status = "NONE"
  BY <1>1 DEF IInv, NewIds, Creates, CommitTransfer, At
<1>3. first \in Nat /\ day \in Nat /\ OpenEnd \in Nat /\ first <= OpenEnd /\ day <= OpenEnd
  BY Arithmetic
<1>4. \A i \in AllocIds : /\ allocations[i].start \in Nat /\ allocations[i].end \in Nat
                          /\ allocations[i].start <= OpenEnd
  <2>1. \A d \in Days \cup {0} : d <= OpenEnd
    BY Arithmetic
  <2>2. \A i \in AllocIds : allocations[i].start \in Days \cup {0}
    BY DEF IInv, Rows
  <2> QED
    BY <2>1, <2>2, RowShape DEF IInv
<1>5. ASSUME NEW i \in AllocIds, i # id, day < first
      PROVE  i \in Occupying(day)' <=> i \in Occupying(day)
  <2>1. rows[i].status = allocations[i].status /\ rows[i].start = allocations[i].start
    BY <1>1, <1>5
  <2>2. day <= rows[i].end <=> day <= allocations[i].end
    <3>1. CASE i \in seen[p].previous
      <4>1. rows[i].end = first - 1 /\ first - 1 <= allocations[i].end
        BY <1>1, <1>5, <3>1 DEF Covers
      <4> HIDE DEF rows
      <4> QED
        BY <1>3, <1>4, <1>5, <4>1
    <3>2. CASE i \notin seen[p].previous
      BY <1>1, <1>5, <3>2
    <3> QED
      BY <3>1, <3>2
  <2> QED
    BY <2>1, <2>2 DEF Occupying, Live, Covers
<1>6. ASSUME NEW i \in AllocIds, i # id, ~(day < first)
      PROVE  i \notin Occupying(day)'
  <2>1. rows[i].status = allocations[i].status /\ rows[i].start = allocations[i].start
    BY <1>1, <1>6
  <2>2. rows[i].end \in Nat
    <3>1. first - 1 \in Nat
      BY Arithmetic
    <3> QED
      BY <1>1, <1>4, <1>6, <3>1
  <2>3. CASE i \in Live(allocations)
    <3>1. ~(first <= rows[i].end)
      BY <1>1, <1>4, <1>6, <2>1, <2>3
    <3>2. ~(day <= rows[i].end)
      <4> HIDE DEF rows
      <4> QED
        BY <1>3, <1>6, <2>2, <3>1
    <3> QED
      BY <3>2 DEF Occupying, Covers
  <2>4. CASE i \notin Live(allocations)
    BY <2>1, <2>4 DEF Occupying, Live
  <2> QED
    BY <2>3, <2>4
<1>7. /\ id \in Occupying(day)' <=> ~(day < first)
      /\ id \notin Occupying(day)
  <2>1. id \in Occupying(day)' <=> first <= day /\ day <= OpenEnd
    BY <1>1 DEF Occupying, Live, Covers
  <2>2. id \notin Occupying(day)
    BY <1>2 DEF Occupying, Live
  <2> QED
    BY <1>3, <2>1, <2>2
<1>8. Occupying(day)' \subseteq AllocIds /\ Occupying(day) \subseteq AllocIds
  BY DEF Occupying, Live
<1>9. CASE day < first
  <2>1. \A i \in AllocIds : i \in Occupying(day)' <=> i \in Occupying(day)
    BY <1>5, <1>7, <1>9
  <2>2. Occupying(day)' = Occupying(day)
    BY <1>8, <2>1
  <2> QED
    BY <1>1, <1>9, <2>2
<1>10. CASE ~(day < first)
  BY <1>1, <1>6, <1>7, <1>8, <1>10
<1> QED
  BY <1>9, <1>10

(* A transfer keeps the past and leaves no later day to another site,      *)
(* under the same condition.                                               *)
THEOREM TransfersKeepHistory == Spec => TransferKeepsHistory
<1> DEFINE Keeps ==
        ~loose' => \A p \in Procs : At(p, "write", "transfer") /\ allocations' # allocations
                         /\ pc'[p] = "idle" =>
        \A day \in Days :
            Occupying(day)' = IF day < call[p].start THEN Occupying(day) ELSE {call[p].id}
<1>1. [Next]_vars /\ ~loose' => ~loose
  BY DEF Next, vars
<1>2. CheckedInv /\ [Next]_vars => Keeps
  BY <1>1, TransferStep, CommitTransferKeeps DEF CheckedInv
<1>3. CheckedInv /\ [Next]_vars => [Keeps]_vars
  BY <1>2
<1> HIDE DEF Keeps
<1>4. Spec => [][Keeps]_vars
  BY SpecCheckedInv, <1>3, PTL DEF Spec
<1> QED
  BY <1>4 DEF Keeps, TransferKeepsHistory
-----------------------------------------------------------------------------
(* Types, whatever is restored and however much of a period a patch sends. *)
LEMMA TypeStart ==
    ASSUME TypeOK, NEW p \in Procs, NEW c \in Calls,
           NEW period \in [start: Days \cup {0}, end: Ends], Start(p, c, period),
           loose' \in BOOLEAN
    PROVE  TypeOK'
BY DEF TypeOK, Start

LEMMA TypeFinish ==
    ASSUME TypeOK, NEW p \in Procs, Finish(p), (allocations \in [AllocIds -> Rows])',
           loose' \in BOOLEAN
    PROVE  TypeOK'
<1>1. NothingSeen \in [period: [start: Days \cup {0}, end: Ends], previous: SUBSET AllocIds]
  BY Arithmetic DEF NothingSeen, NoPeriod
<1> QED
  BY <1>1 DEF TypeOK, Finish, Calls

LEMMA TypeBegins ==
    ASSUME TypeOK, NEW p \in Procs, BeginCreate(p) \/ BeginTransfer(p) \/ BeginUpdate(p),
           loose' \in BOOLEAN
    PROVE  TypeOK'
<1>1. CASE BeginCreate(p)
  <2>1. PICK i \in AllocIds, start \in Days, end \in Ends :
          Start(p, [op |-> "create", id |-> i, start |-> start, end |-> end],
                [start |-> start, end |-> end])
    BY <1>1 DEF BeginCreate
  <2>2. [op |-> "create", id |-> i, start |-> start, end |-> end] \in Calls
    BY DEF Calls
  <2> QED
    BY <2>1, <2>2, TypeStart DEF TypeOK, Start
<1>2. CASE BeginTransfer(p)
  <2>1. PICK i \in AllocIds, day \in Days :
          Start(p, [op |-> "transfer", id |-> i, start |-> day],
                [start |-> day, end |-> OpenEnd])
    BY <1>2 DEF BeginTransfer
  <2>2. [op |-> "transfer", id |-> i, start |-> day] \in Calls /\ OpenEnd \in Ends
    BY Arithmetic DEF Calls
  <2> QED
    BY <2>1, <2>2, TypeStart DEF TypeOK, Start
<1>3. CASE BeginUpdate(p)
  <2>1. PICK i \in Live(allocations), start \in Days \cup {Keep}, end \in Ends \cup {Keep} :
          Start(p, [op |-> "update", id |-> i, start |-> start, end |-> end],
                [start |-> Patched(start, allocations[i].start),
                 end |-> Patched(end, allocations[i].end)])
    BY <1>3 DEF BeginUpdate
  <2>2. i \in AllocIds /\ allocations[i] \in Rows
    BY DEF Live, TypeOK
  <2>3. [op |-> "update", id |-> i, start |-> start, end |-> end] \in Calls
    BY <2>2 DEF Calls
  <2>4. /\ Patched(start, allocations[i].start) \in Days \cup {0}
        /\ Patched(end, allocations[i].end) \in Ends
    BY <2>2 DEF Patched, Rows
  <2> QED
    BY <2>1, <2>3, <2>4, TypeStart DEF TypeOK, Start
<1> QED
  BY <1>1, <1>2, <1>3

LEMMA TypeUpdate ==
    ASSUME TypeOK, NEW p \in Procs, CommitUpdate(p)
    PROVE  (allocations \in [AllocIds -> Rows])'
<1>1. PICK id \in AllocIds, start \in Days \cup {Keep}, end \in Ends \cup {Keep} :
          id = call[p].id /\ start = call[p].start /\ end = call[p].end
  BY CallShape DEF TypeOK, CommitUpdate, At
<1>2. allocations[id] \in Rows
  BY DEF TypeOK
<1> DEFINE row == [allocations[id] EXCEPT !.start = Patched(start, @), !.end = Patched(end, @)]
<1>3. row \in Rows
  BY <1>2 DEF Rows, Patched
<1>4. allocations' = [allocations EXCEPT ![id] = row]
  BY <1>1, <1>2 DEF CommitUpdate, Write, TypeOK
<1> HIDE DEF row
<1> QED
  BY <1>3, <1>4 DEF TypeOK

LEMMA TypeCommits ==
    ASSUME TypeOK, NEW p \in Procs, CommitCreate(p) \/ CommitTransfer(p) \/ CommitUpdate(p),
           loose' \in BOOLEAN
    PROVE  TypeOK'
<1>1. (allocations \in [AllocIds -> Rows])'
  <2>1. CASE CommitCreate(p)
    <3>1. call[p].start \in Days /\ call[p].end \in Ends
      BY <2>1, CallShape DEF TypeOK, CommitCreate, At
    <3> QED
      BY <2>1, <3>1 DEF TypeOK, CommitCreate, Write, Rows
  <2>2. CASE CommitTransfer(p)
    <3>1. call[p].start \in Days
      BY <2>2, CallShape DEF TypeOK, CommitTransfer, At
    <3>2. call[p].start - 1 \in Ends /\ OpenEnd \in Ends
      BY <3>1, Arithmetic
    <3>3. Closed(allocations, seen[p].previous, call[p].start - 1) \in [AllocIds -> Rows]
      BY <3>2 DEF TypeOK, Closed, Rows
    <3> DEFINE closed == Closed(allocations, seen[p].previous, call[p].start - 1)
               row == [status |-> "LIVE", start |-> call[p].start, end |-> OpenEnd]
    <3>4. allocations' = [closed EXCEPT ![call[p].id] = row] /\ closed \in [AllocIds -> Rows]
      BY <2>2, <3>3 DEF CommitTransfer, Write
    <3>5. row \in Rows
      BY <3>1, <3>2 DEF Rows
    <3> HIDE DEF closed, row
    <3> QED
      BY <3>4, <3>5
  <2>3. CASE CommitUpdate(p)
    BY <2>3, TypeUpdate
  <2> QED
    BY <2>1, <2>2, <2>3
<1> QED
  BY <1>1, TypeFinish DEF CommitCreate, CommitTransfer, CommitUpdate, Write

LEMMA TypeStep == TypeOK /\ [Next]_vars => TypeOK'
<1> SUFFICES ASSUME TypeOK, Next PROVE TypeOK'
  BY DEF vars, TypeOK
<1>0. loose' \in BOOLEAN
  BY DEF Next, TypeOK
<1>1. ASSUME NEW p \in Procs, Step(p) PROVE TypeOK'
  <2>1. CASE CheckCreate(p) \/ CheckTransfer(p) \/ CheckUpdate(p)
    <3>1. PICK previous \in SUBSET AllocIds :
            /\ seen' = [seen EXCEPT ![p] = [period |-> seen[p].period, previous |-> previous]]
            /\ pc' = [pc EXCEPT ![p] = "write"]
            /\ UNCHANGED <<allocations, active, employeeLock, call>>
      BY <2>1 DEF CheckCreate, CheckTransfer, CheckUpdate, Checked
    <3>2. seen[p].period \in [start: Days \cup {0}, end: Ends]
      BY DEF TypeOK
    <3> QED
      BY <1>0, <3>1, <3>2 DEF TypeOK
  <2>2. CASE LockEmployee(p)
    BY <1>0, <2>2 DEF TypeOK, LockEmployee
  <2>3. CASE Abort(p)
    BY <1>0, <2>3, TypeFinish DEF Abort, TypeOK
  <2> QED
    BY <1>0, <1>1, <2>1, <2>2, <2>3, TypeBegins, TypeCommits DEF Step
<1>2. ASSUME NEW i \in AllocIds, Remove(i) \/ Restore(i) PROVE TypeOK'
  <2>1. PICK st \in {"LIVE", "TRASHED"} :
          allocations' = [allocations EXCEPT ![i] = [@ EXCEPT !.status = st]]
    BY <1>2 DEF Remove, Restore
  <2>2. [allocations[i] EXCEPT !.status = st] \in Rows
    BY DEF TypeOK, Rows
  <2>3. (allocations \in [AllocIds -> Rows])'
    BY <2>1, <2>2 DEF TypeOK
  <2> QED
    BY <1>0, <1>2, <2>3 DEF TypeOK, Remove, Restore
<1>3. ASSUME NEW working \in BOOLEAN, SetStatus(working) PROVE TypeOK'
  BY <1>0, <1>3 DEF TypeOK, SetStatus
<1> QED
  BY <1>1, <1>2, <1>3 DEF Next

(* Every variable keeps its shape.                                         *)
THEOREM TypeCorrect == Spec => []TypeOK
<1>1. Init => TypeOK
  <2>1. NoRow \in Rows
    BY Arithmetic DEF NoRow, Rows
  <2>2. NothingSeen \in [period: [start: Days \cup {0}, end: Ends], previous: SUBSET AllocIds]
    BY Arithmetic DEF NothingSeen, NoPeriod
  <2> SUFFICES ASSUME Init PROVE TypeOK
    OBVIOUS
  <2>3. allocations \in [AllocIds -> Rows] /\ seen \in [Procs ->
            [period: [start: Days \cup {0}, end: Ends], previous: SUBSET AllocIds]]
    BY <2>1, <2>2 DEF Init
  <2>4. call \in [Procs -> Calls]
    BY DEF Init, Calls
  <2> QED
    BY <2>3, <2>4 DEF Init, TypeOK
<1> QED
  BY <1>1, TypeStep, PTL DEF Spec
-----------------------------------------------------------------------------
(* Attendance, pay and the composition.                                    *)

(* What a request about attendance, pay or payslip keeps.                  *)
Desks == {Idle, [step |-> "remove"]}
    \cup [step: {"edit"}, is: Contents]
    \cup [step: {"patch"}, type: {"CLT", "DAILY"}, rate: 0..Same,
          working: {{}, {TRUE}, {FALSE}}]
    \cup [step: {"snapshot"}, day: Days, site: Sites, present: BOOLEAN, pay: Pay]
    \cup [step: {"record"}, day: Days, site: Sites, present: BOOLEAN, rate: 0..MaxRate]

LaborType ==
    /\ employee \in Pay
    /\ attendance \in [Days -> {NotRecorded} \cup AttendanceRows]
    /\ desk \in [Clerks -> Desks]
    /\ overlapped \in BOOLEAN

(* What a request decided is what it would decide now.                     *)
Current(c) ==
    /\ AtDesk(c, "patch") => desk[c].rate \in resolverRemuneracao(desk[c].type, employee.rate)
    /\ AtDesk(c, "snapshot") => desk[c].pay = employee
    /\ AtDesk(c, "record") =>
        desk[c].rate = diariaDoDia(desk[c].day, employee)

OneAtATime == \A b, c \in Clerks : desk[b] # Idle /\ desk[c] # Idle => b = c

(* One call at a time, nothing moves between its reads and its writes.     *)
LaborInv ==
    /\ LaborType
    /\ ~overlapped => /\ OneAtATime /\ DailyHasRate
                      /\ \A c \in Clerks : Current(c)
-----------------------------------------------------------------------------
(* The composition implements the allocations.                             *)
LEMMA StatusIsAStep ==
    ASSUME CheckedInv, NEW working \in BOOLEAN, SetStatus(working), UNCHANGED loose
    PROVE  Next
<1>1. ~loose => ~Loosens
  <2> SUFFICES ASSUME ~loose PROVE ~Loosens
    OBVIOUS
  <2>1. \A p \in Procs : call[p].op = "update" => Keep \notin {call[p].start, call[p].end}
    BY DEF CheckedInv, IInv, Decided
  <2> QED
    BY <2>1 DEF Loosens, SetStatus
<1>2. loose' = (loose \/ Loosens)
  BY <1>1 DEF CheckedInv
<1> QED
  BY <1>2 DEF Next

LEMMA DeskShape ==
    ASSUME NEW c \in Clerks, desk \in [Clerks -> Desks]
    PROVE  /\ AtDesk(c, "patch") =>
                /\ desk[c].type \in {"CLT", "DAILY"} /\ desk[c].rate \in 0..Same
                /\ desk[c].working \subseteq BOOLEAN
           /\ AtDesk(c, "snapshot") =>
                /\ desk[c].day \in Days /\ desk[c].site \in Sites
                /\ desk[c].present \in BOOLEAN /\ desk[c].pay \in Pay
           /\ AtDesk(c, "record") =>
                /\ desk[c].day \in Days /\ desk[c].site \in Sites
                /\ desk[c].present \in BOOLEAN /\ desk[c].rate \in 0..MaxRate
<1> DEFINE d == desk[c]
<1>1. d \in Desks
  OBVIOUS
<1> HIDE DEF d
<1>2. /\ d.step = "patch" => /\ d.type \in {"CLT", "DAILY"} /\ d.rate \in 0..Same
                             /\ d.working \in {{}, {TRUE}, {FALSE}}
      /\ d.step = "snapshot" => /\ d.day \in Days /\ d.site \in Sites
                                /\ d.present \in BOOLEAN /\ d.pay \in Pay
      /\ d.step = "record" => /\ d.day \in Days /\ d.site \in Sites
                              /\ d.present \in BOOLEAN /\ d.rate \in 0..MaxRate
  <2>1. CASE d \in {Idle, [step |-> "remove"]}
    <3>1. d.step = "idle" \/ d.step = "remove"
      <4>1. CASE d = Idle
        BY <4>1 DEF Idle
      <4>2. CASE d = [step |-> "remove"]
        BY <4>2
      <4> QED
        BY <2>1, <4>1, <4>2
    <3> QED
      BY <3>1
  <2>2. CASE d \in [step: {"edit"}, is: Contents]
    BY <2>2
  <2>3. CASE d \in [step: {"patch"}, type: {"CLT", "DAILY"}, rate: 0..Same,
                    working: {{}, {TRUE}, {FALSE}}]
    BY <2>3
  <2>4. CASE d \in [step: {"snapshot"}, day: Days, site: Sites, present: BOOLEAN, pay: Pay]
    BY <2>4
  <2>5. CASE d \in [step: {"record"}, day: Days, site: Sites, present: BOOLEAN,
                    rate: 0..MaxRate]
    BY <2>5
  <2> QED
    BY <1>1, <2>1, <2>2, <2>3, <2>4, <2>5 DEF Desks
<1> QED
  BY <1>2 DEF d, AtDesk

LEMMA LaborStep == LaborType /\ CheckedInv /\ [LaborNext]_allVars => [Next]_vars
<1> SUFFICES ASSUME LaborType, CheckedInv, [LaborNext]_allVars PROVE [Next]_vars
  OBVIOUS
<1>1. CASE PeriodsNext
  BY <1>1 DEF PeriodsNext, Next
<1>2. ASSUME NEW c \in Clerks, Work(c) PROVE [Next]_vars
  <2>1. CASE BeginPatch(c) \/ BeginSave(c) \/ ReadSnapshot(c) \/ BeginPayslip(c) \/ Refuse(c)
    BY <2>1 DEF BeginPatch, BeginSave, ReadSnapshot, BeginPayslip, Refuse, RowsStay
  <2>2. CASE CommitSave(c) \/ CommitPayslip(c)
    BY <2>2 DEF CommitSave, CommitPayslip, PeriodsStay
  <2>3. CASE CommitPatch(c)
    <3>1. CASE UNCHANGED vars
      BY <3>1
    <3>2. ASSUME NEW working \in desk[c].working, SetStatus(working), UNCHANGED loose
          PROVE  Next
      <4>1. working \in BOOLEAN
        BY <2>3, DeskShape DEF LaborType, CommitPatch
      <4> QED
        BY <3>2, <4>1, StatusIsAStep
    <3>3. UNCHANGED vars \/ \E working \in desk[c].working : SetStatus(working) /\ UNCHANGED loose
      BY <2>3 DEF CommitPatch
    <3> QED
      BY <3>1, <3>2, <3>3
  <2> QED
    BY <1>2, <2>1, <2>2, <2>3 DEF Work
<1>3. CASE \E cost \in Costs, complete \in BOOLEAN : CreatePayslip(cost, complete)
  BY <1>3 DEF CreatePayslip, PeriodsStay
<1>4. CASE RestorePayslip
  BY <1>4 DEF RestorePayslip, PeriodsStay
<1>5. CASE UNCHANGED allVars
  BY <1>5 DEF allVars
<1> QED
  BY <1>1, <1>2, <1>3, <1>4, <1>5 DEF LaborNext
-----------------------------------------------------------------------------
(* Attendance and pay.                                                     *)
LEMMA RateShape ==
    /\ \A type \in {"CLT", "DAILY"}, stored \in 0..MaxRate :
        /\ resolverRemuneracao(type, stored) \subseteq 0..Same
        /\ \A rate \in resolverRemuneracao(type, stored) :
            LET kept == IF rate = Same THEN stored ELSE rate
            IN  kept \in 0..MaxRate /\ ((type = "DAILY") = (kept # 0))
    /\ 0..MaxRate \subseteq 0..Same
BY MaxRateAssumption DEF resolverRemuneracao, Rates, Same

LEMMA FreezesShape ==
    ASSUME LaborType, NEW day \in Days, NEW pay \in Pay
    PROVE  diariaDoDia(day, pay) \in 0..MaxRate
<1>1. attendance[day] \in {NotRecorded} \cup AttendanceRows
  BY DEF LaborType
<1>2. Frozen(day) \in 0..MaxRate
  <2>1. CASE attendance[day] = NotRecorded
    BY <2>1, MaxRateAssumption DEF NotRecorded, Frozen
  <2>2. CASE attendance[day] \in AttendanceRows
    BY <2>2 DEF AttendanceRows, Frozen
  <2> QED
    BY <1>1, <2>1, <2>2
<1>3. pay.rate \in 0..MaxRate
  BY DEF Pay
<1>4. diariaDoDia(day, pay) \in {0, Frozen(day), pay.rate}
  BY DEF diariaDoDia
<1> QED
  BY <1>2, <1>3, <1>4, MaxRateAssumption

(* A step at a desk that goes on to d, with the rows as they are.          *)
LEMMA DeskStep ==
    ASSUME LaborInv, NEW c \in Clerks, NEW d \in Desks, desk' = [desk EXCEPT ![c] = d],
           UNCHANGED <<employee, attendance>>, overlapped' \in BOOLEAN,
           ~overlapped' => /\ ~overlapped
                           /\ \A b \in Clerks \ {c} : d # Idle => desk[b] = Idle
                           /\ Current(c)'
    PROVE  LaborInv'
<1>1. desk'[c] = d /\ \A b \in Clerks \ {c} : desk'[b] = desk[b]
  BY DEF LaborInv, LaborType
<1>2. LaborType'
  BY DEF LaborInv, LaborType
<1>3. ASSUME ~overlapped' PROVE (OneAtATime /\ DailyHasRate /\ \A b \in Clerks : Current(b))'
  <2>1. OneAtATime'
    BY <1>1, <1>3 DEF LaborInv, OneAtATime
  <2>2. DailyHasRate'
    BY <1>3 DEF LaborInv, DailyHasRate
  <2>3. ASSUME NEW b \in Clerks \ {c} PROVE Current(b)'
    BY <1>1, <1>3 DEF LaborInv, Current, AtDesk, diariaDoDia, Frozen
  <2> QED
    BY <1>3, <2>1, <2>2, <2>3
<1> QED
  BY <1>2, <1>3 DEF LaborInv

(* A call that ends leaves no other one waiting with what it has read.     *)
LEMMA DeskEnds ==
    ASSUME LaborInv, NEW c \in Clerks, desk[c] # Idle, Goto(c, Idle),
           employee' \in Pay, attendance' \in [Days -> {NotRecorded} \cup AttendanceRows],
           ~overlapped => DailyHasRate'
    PROVE  LaborInv'
<1>1. desk'[c] = Idle /\ \A b \in Clerks \ {c} : desk'[b] = desk[b]
  BY DEF LaborInv, LaborType, Goto
<1>2. LaborType'
  BY DEF LaborInv, LaborType, Goto, Desks
<1>3. ASSUME ~overlapped' PROVE (OneAtATime /\ DailyHasRate /\ \A b \in Clerks : Current(b))'
  <2>1. ~overlapped
    BY <1>3 DEF Goto
  <2>2. \A b \in Clerks : desk'[b] = Idle
    BY <1>1, <2>1 DEF LaborInv, OneAtATime
  <2> QED
    BY <2>1, <2>2 DEF OneAtATime, Current, AtDesk, Idle
<1> QED
  BY <1>2, <1>3 DEF LaborInv

LEMMA BeginDesk ==
    ASSUME LaborInv, NEW c \in Clerks, NEW d \in Desks, Begin(c, d),
           UNCHANGED <<employee, attendance>>, ~overlapped => Current(c)'
    PROVE  LaborInv'
BY DeskStep DEF Begin, LaborInv, LaborType

LEMMA PatchInv ==
    ASSUME LaborInv, NEW c \in Clerks, BeginPatch(c) \/ CommitPatch(c)
    PROVE  LaborInv'
<1>0. employee \in Pay /\ employee.rate \in 0..MaxRate
  BY DEF LaborInv, LaborType, Pay
<1>1. CASE BeginPatch(c)
  <2>0. PICK type \in {"CLT", "DAILY"}, working \in {{}, {TRUE}, {FALSE}} :
          \E rate \in resolverRemuneracao(type, employee.rate) :
            Begin(c, [step |-> "patch", type |-> type, rate |-> rate, working |-> working])
    BY <1>1 DEF BeginPatch
  <2>1. PICK rate \in resolverRemuneracao(type, employee.rate) :
          Begin(c, [step |-> "patch", type |-> type, rate |-> rate, working |-> working])
    BY <2>0
  <2> DEFINE d == [step |-> "patch", type |-> type, rate |-> rate, working |-> working]
  <2>2. rate \in 0..Same
    BY <1>0, <2>1, RateShape
  <2>3. d \in Desks
    BY <2>2 DEF Desks
  <2>4. desk'[c] = d /\ UNCHANGED <<employee, attendance>>
    BY <1>1, <2>1 DEF Begin, BeginPatch, RowsStay, LaborInv, LaborType
  <2>5. Current(c)'
    BY <2>1, <2>4 DEF Current, AtDesk
  <2> QED
    BY <2>1, <2>3, <2>4, <2>5, BeginDesk
<1>2. CASE CommitPatch(c)
  <2>1. /\ desk[c].type \in {"CLT", "DAILY"} /\ desk[c].rate \in 0..Same
        /\ desk[c].step = "patch"
    BY <1>2, DeskShape DEF LaborInv, LaborType, CommitPatch, AtDesk
  <2> DEFINE kept == IF desk[c].rate = Same THEN employee.rate ELSE desk[c].rate
  <2>2. kept \in 0..MaxRate
    BY <1>0, <2>1, MaxRateAssumption DEF Same
  <2>3. employee' = [type |-> desk[c].type, rate |-> kept]
    BY <1>2 DEF CommitPatch
  <2>4. employee' \in Pay
    <3> HIDE DEF kept
    <3> QED
      BY <2>1, <2>2, <2>3 DEF Pay
  <2>5. desk[c] # Idle /\ Goto(c, Idle) /\ UNCHANGED attendance
    BY <1>2, <2>1 DEF CommitPatch, Idle
  <2>6. ASSUME ~overlapped PROVE DailyHasRate'
    <3>1. desk[c].rate \in resolverRemuneracao(desk[c].type, employee.rate)
      BY <1>2, <2>6 DEF LaborInv, Current, CommitPatch
    <3>2. (desk[c].type = "DAILY") = (kept # 0)
      BY <1>0, <2>1, <3>1, RateShape
    <3>3. employee'.type = desk[c].type /\ employee'.rate = kept
      BY <2>3
    <3> QED
      BY <3>2, <3>3 DEF DailyHasRate
  <2> QED
    BY <2>4, <2>5, <2>6, DeskEnds DEF LaborInv, LaborType
<1> QED
  BY <1>1, <1>2

LEMMA SaveInv ==
    ASSUME LaborInv, NEW c \in Clerks, BeginSave(c) \/ ReadSnapshot(c) \/ CommitSave(c)
    PROVE  LaborInv'
<1>1. CASE BeginSave(c)
  <2>1. PICK day \in Days, site \in Sites, present \in BOOLEAN :
          Begin(c, [step |-> "snapshot", day |-> day, site |-> site, present |-> present,
                    pay |-> employee])
    BY <1>1 DEF BeginSave
  <2> DEFINE d == [step |-> "snapshot", day |-> day, site |-> site, present |-> present,
                   pay |-> employee]
  <2>2. d \in Desks
    BY DEF Desks, LaborInv, LaborType
  <2>3. desk'[c] = d /\ UNCHANGED <<employee, attendance>>
    BY <1>1, <2>1 DEF Begin, BeginSave, RowsStay, LaborInv, LaborType
  <2>4. Current(c)'
    BY <2>3 DEF Current, AtDesk
  <2> QED
    BY <2>1, <2>2, <2>3, <2>4, BeginDesk
<1>2. CASE ReadSnapshot(c)
  <2>1. PICK day \in Days, site \in Sites, present \in BOOLEAN, pay \in Pay :
          /\ day = desk[c].day /\ site = desk[c].site /\ present = desk[c].present
          /\ pay = desk[c].pay /\ AtDesk(c, "snapshot")
    BY <1>2, DeskShape DEF LaborInv, LaborType, ReadSnapshot
  <2> DEFINE rate == diariaDoDia(day, pay)
             d == [step |-> "record", day |-> day, site |-> site, present |-> present,
                   rate |-> rate]
  <2>2. rate \in 0..MaxRate
    BY FreezesShape DEF LaborInv
  <2>3. d \in Desks
    <3> HIDE DEF rate
    <3> QED
      BY <2>2 DEF Desks
  <2>4. /\ desk' = [desk EXCEPT ![c] = d] /\ overlapped' = overlapped
        /\ UNCHANGED <<employee, attendance>>
    BY <1>2, <2>1 DEF ReadSnapshot, Goto, RowsStay
  <2>5. desk'[c] = d
    BY <2>4 DEF LaborInv, LaborType
  <2>6. ASSUME ~overlapped PROVE Current(c)'
    <3>1. pay = employee
      BY <2>1, <2>6 DEF LaborInv, Current
    <3>2. diariaDoDia(day, employee)' = rate
      BY <2>4, <3>1 DEF diariaDoDia, Frozen
    <3>3. desk'[c].step = "record" /\ desk'[c].day = day /\ desk'[c].rate = rate
      BY <2>5
    <3> QED
      BY <3>2, <3>3 DEF Current, AtDesk
  <2>7. ASSUME ~overlapped PROVE \A b \in Clerks \ {c} : desk[b] = Idle
    BY <2>1, <2>7 DEF LaborInv, OneAtATime, AtDesk, Idle
  <2> QED
    BY <2>3, <2>4, <2>6, <2>7, DeskStep DEF LaborInv, LaborType
<1>3. CASE CommitSave(c)
  <2>1. PICK day \in Days, site \in Sites, present \in BOOLEAN, rate \in 0..MaxRate :
          /\ day = desk[c].day /\ site = desk[c].site /\ present = desk[c].present
          /\ rate = desk[c].rate /\ desk[c].step = "record"
    BY <1>3, DeskShape DEF LaborInv, LaborType, CommitSave, AtDesk
  <2>2. attendance' = [attendance EXCEPT ![day] =
            [recorded |-> TRUE, present |-> present, site |-> site, rate |-> rate]]
    BY <1>3, <2>1 DEF CommitSave
  <2>3. attendance' \in [Days -> {NotRecorded} \cup AttendanceRows]
    BY <2>2 DEF LaborInv, LaborType, AttendanceRows
  <2>4. desk[c] # Idle /\ Goto(c, Idle) /\ UNCHANGED employee
    BY <1>3, <2>1 DEF CommitSave, Idle
  <2> QED
    BY <2>3, <2>4, DeskEnds DEF LaborInv, LaborType, DailyHasRate
<1> QED
  BY <1>1, <1>2, <1>3

LEMMA OtherDesksInv ==
    ASSUME LaborInv, NEW c \in Clerks, BeginPayslip(c) \/ CommitPayslip(c) \/ Refuse(c)
    PROVE  LaborInv'
<1>1. CASE BeginPayslip(c)
  <2>1. PICK d \in Desks : Begin(c, d) /\ d.step \in {"remove", "edit"}
    <3>1. [step |-> "remove"] \in Desks /\ \A is \in Contents : [step |-> "edit", is |-> is] \in Desks
      BY DEF Desks
    <3>2. CASE Begin(c, [step |-> "remove"])
      BY <3>1, <3>2
    <3>3. ASSUME NEW is \in Contents, Begin(c, [step |-> "edit", is |-> is])
          PROVE  \E d \in Desks : Begin(c, d) /\ d.step \in {"remove", "edit"}
      BY <3>1, <3>3
    <3> QED
      BY <1>1, <3>2, <3>3 DEF BeginPayslip
  <2>2. desk'[c] = d /\ UNCHANGED <<employee, attendance>>
    BY <1>1, <2>1 DEF Begin, BeginPayslip, RowsStay, LaborInv, LaborType
  <2>3. Current(c)'
    BY <2>1, <2>2 DEF Current, AtDesk
  <2> QED
    BY <2>1, <2>2, <2>3, BeginDesk
<1>2. CASE CommitPayslip(c) \/ Refuse(c)
  <2>1. desk[c] # Idle /\ Goto(c, Idle) /\ UNCHANGED <<employee, attendance>>
    BY <1>2 DEF CommitPayslip, Refuse, RowsStay, AtDesk, Idle
  <2> QED
    BY <2>1, DeskEnds DEF LaborInv, LaborType, DailyHasRate
<1> QED
  BY <1>1, <1>2

(* What a step leaves of pay, attendance and desks keeps the invariant.    *)
LEMMA QuietInv ==
    ASSUME LaborInv, UNCHANGED <<employee, attendance, desk, overlapped>>
    PROVE  LaborInv'
BY DEF LaborInv, LaborType, OneAtATime, DailyHasRate, Current, AtDesk, diariaDoDia, Frozen

LEMMA LaborNextInv == LaborInv /\ [LaborNext]_allVars => LaborInv'
<1> SUFFICES ASSUME LaborInv, [LaborNext]_allVars PROVE LaborInv'
  OBVIOUS
<1>1. CASE PeriodsNext \/ UNCHANGED allVars
  BY <1>1, QuietInv DEF PeriodsNext, allVars, laborVars
<1>2. CASE \E c \in Clerks : Work(c)
  BY <1>2, PatchInv, SaveInv, OtherDesksInv DEF Work
<1>3. CASE RestorePayslip \/ \E cost \in Costs, complete \in BOOLEAN : CreatePayslip(cost, complete)
  BY <1>3, QuietInv DEF CreatePayslip, RestorePayslip
<1> QED
  BY <1>1, <1>2, <1>3 DEF LaborNext

LEMMA LaborInitInv == LaborInit => LaborInv
<1> SUFFICES ASSUME LaborInit PROVE LaborInv
  OBVIOUS
<1>1. LaborType
  BY DEF LaborInit, LaborType, Desks
<1>2. DailyHasRate /\ OneAtATime /\ \A c \in Clerks : Current(c)
  BY DEF LaborInit, DailyHasRate, OneAtATime, Current, AtDesk, Idle
<1> QED
  BY <1>1, <1>2 DEF LaborInv

LEMMA SpecLaborInv == LaborSpec => []LaborInv
BY LaborInitInv, LaborNextInv, PTL DEF LaborSpec

LEMMA LaborCheckedInv == LaborSpec => []CheckedInv
<1>1. LaborInit => CheckedInv
  BY InitIInv DEF LaborInit, Init, CheckedInv
<1>2. LaborInv /\ CheckedInv /\ [LaborNext]_allVars => CheckedInv'
  BY LaborStep, CheckedInvStep DEF LaborInv
<1> QED
  BY <1>1, <1>2, SpecLaborInv, PTL DEF LaborSpec
-----------------------------------------------------------------------------
(* Attendance, pay and payslips, with all their calls in between, leave    *)
(* the allocations to their own specification.                             *)
THEOREM ImplementsAllocations == LaborSpec => Spec
<1>1. LaborInit => Init
  BY DEF LaborInit
<1>2. LaborInv /\ CheckedInv /\ [LaborNext]_allVars => [Next]_vars
  BY LaborStep DEF LaborInv
<1> QED
  BY <1>1, <1>2, SpecLaborInv, LaborCheckedInv, PTL DEF LaborSpec, Spec

(* Nor is an employee at two sites on one day here, as long as patches     *)
(* carry both ends of a period and nothing is restored.                    *)
THEOREM LaborNeverTwoSites == LaborSpec => []CheckedNoOverlap
BY ImplementsAllocations, NeverTwoSites, PTL

(* And transfers keep the history.                                         *)
THEOREM LaborTransfersKeepHistory == LaborSpec => TransferKeepsHistory
BY ImplementsAllocations, TransfersKeepHistory, PTL

(* One call at a time, who is paid by the day has a rate, and nobody else. *)
THEOREM DailyWorkersHaveRates == LaborSpec => []DailyHasRate
<1>1. LaborInv => DailyHasRate
  BY DEF LaborInv, DailyHasRate
<1> QED
  BY <1>1, SpecLaborInv, PTL

LEMMA FrozenStays ==
    ASSUME LaborInv, [LaborNext]_allVars, ~overlapped', employee.type = "DAILY",
           NEW day \in Days, Frozen(day) # 0
    PROVE  attendance'[day].rate = attendance[day].rate
<1>1. CASE UNCHANGED attendance
  BY <1>1
<1>2. ASSUME NEW c \in Clerks, CommitSave(c)
      PROVE  attendance'[day].rate = attendance[day].rate
  <2>1. ~overlapped /\ AtDesk(c, "record") /\ desk[c].day \in Days
    BY <1>2, DeskShape DEF CommitSave, Goto, LaborInv, LaborType
  <2>2. desk[c].rate = diariaDoDia(desk[c].day, employee)
    BY <2>1 DEF LaborInv, Current
  <2>3. attendance' = [attendance EXCEPT ![desk[c].day] =
            [recorded |-> TRUE, present |-> desk[c].present, site |-> desk[c].site,
             rate |-> desk[c].rate]]
    BY <1>2 DEF CommitSave
  <2>4. CASE desk[c].day = day
    <3>1. attendance'[day].rate = desk[c].rate
      BY <2>3, <2>4 DEF LaborInv, LaborType
    <3>2. desk[c].rate = Frozen(day) /\ Frozen(day) = attendance[day].rate
      BY <2>2, <2>4 DEF diariaDoDia, Frozen
    <3> QED
      BY <3>1, <3>2
  <2>5. CASE desk[c].day # day
    BY <2>3, <2>5 DEF LaborInv, LaborType
  <2> QED
    BY <2>4, <2>5
<1>3. UNCHANGED attendance \/ \E c \in Clerks : CommitSave(c)
  BY DEF LaborNext, PeriodsNext, allVars, laborVars, Work, BeginPatch, CommitPatch, BeginSave,
     ReadSnapshot, BeginPayslip, CommitPayslip, Refuse, RowsStay, CreatePayslip, RestorePayslip
<1> QED
  BY <1>1, <1>2, <1>3

(* One call at a time, no raise, correction or second saving changes the   *)
(* price of a past day of who is still paid by the day.                    *)
THEOREM FrozenRatesStay == LaborSpec => FrozenRate
<1> DEFINE Stays ==
        ~overlapped' /\ employee.type = "DAILY" =>
            \A d \in Days : Frozen(d) # 0 => attendance'[d].rate = attendance[d].rate
<1>1. LaborInv /\ [LaborNext]_allVars => [Stays]_allVars
  BY FrozenStays
<1> HIDE DEF Stays
<1>2. LaborSpec => [][Stays]_allVars
  BY <1>1, SpecLaborInv, PTL DEF LaborSpec
<1> QED
  BY <1>2 DEF Stays, FrozenRate
-----------------------------------------------------------------------------
(* The payslip, and how its cost is shared.                                *)

PayslipInv ==
    /\ payslip \in {NoPayslip} \cup Payslips
    /\ \A c \in Clerks : AtDesk(c, "remove") \/ AtDesk(c, "edit") => payslip # NoPayslip

LEMMA PayslipShape ==
    ASSUME NEW s \in Payslips
    PROVE  /\ s # NoPayslip /\ s.status \in {"live", "trashed"}
           /\ s.is \in Contents /\ s.is.cost \in Nat /\ s.is.paid \in BOOLEAN
           /\ \A st \in {"live", "trashed"} : [s EXCEPT !.status = st] \in Payslips
           /\ \A is \in Contents : [s EXCEPT !.is = is] \in Payslips
<1>1. s.status \in {"live", "trashed"} /\ s.is \in Contents
  BY DEF Payslips
<1>2. s # NoPayslip
  BY <1>1 DEF NoPayslip
<1>3. s.is.cost \in Nat /\ s.is.paid \in BOOLEAN
  BY <1>1, CostsAssumption DEF Contents
<1> QED
  BY <1>1, <1>2, <1>3 DEF Payslips

LEMMA EditShape ==
    ASSUME NEW c \in Clerks, desk \in [Clerks -> Desks], AtDesk(c, "edit")
    PROVE  desk[c].is \in Contents
<1> DEFINE d == desk[c]
<1>1. d \in Desks /\ d.step = "edit"
  BY DEF AtDesk
<1> HIDE DEF d
<1>2. d # Idle /\ d # [step |-> "remove"]
  BY <1>1 DEF Idle
<1>3. d \in [step: {"edit"}, is: Contents]
  BY <1>1, <1>2 DEF Desks
<1> QED
  BY <1>3 DEF d

LEMMA PayslipStep == LaborType /\ PayslipInv /\ [LaborNext]_allVars => PayslipInv'
<1> SUFFICES ASSUME LaborType, PayslipInv, [LaborNext]_allVars PROVE PayslipInv'
  OBVIOUS
<1> DEFINE Edits(c) == AtDesk(c, "remove") \/ AtDesk(c, "edit")
<1>1. CASE /\ payslip' = payslip
           /\ \A c \in Clerks : Edits(c)' => Edits(c) \/ payslip # NoPayslip
  BY <1>1 DEF PayslipInv
<1>2. CASE payslip' \in Payslips
  BY <1>2, PayslipShape DEF PayslipInv
<1>3. CASE UNCHANGED <<payslip, desk>>
  BY <1>1, <1>3 DEF AtDesk
<1>4. ASSUME NEW c \in Clerks, Work(c)
      PROVE  PayslipInv'
  <2>0. \A b \in Clerks \ {c} : desk'[b] = desk[b]
    BY <1>4 DEF Work, BeginPatch, CommitPatch, BeginSave, ReadSnapshot, CommitSave,
       BeginPayslip, CommitPayslip, Refuse, Begin, Goto, LaborType
  <2>1. \A b \in Clerks \ {c} : Edits(b)' => Edits(b)
    BY <2>0 DEF AtDesk
  <2>2. CASE BeginPatch(c) \/ CommitPatch(c) \/ BeginSave(c) \/ ReadSnapshot(c)
             \/ CommitSave(c) \/ Refuse(c)
    <3>1. payslip' = payslip
      BY <2>2 DEF BeginPatch, CommitPatch, BeginSave, ReadSnapshot, CommitSave, Refuse, RowsStay
    <3>2. desk'[c].step \in {"patch", "snapshot", "record", "idle"}
      <4>1. \A d : desk' = [desk EXCEPT ![c] = d] => desk'[c] = d
        BY DEF LaborType
      <4>2. CASE BeginPatch(c)
        <5>1. PICK type \in {"CLT", "DAILY"}, working \in {{}, {TRUE}, {FALSE}} :
                 \E rate \in resolverRemuneracao(type, employee.rate) :
                    desk' = [desk EXCEPT ![c] = [step |-> "patch", type |-> type, rate |-> rate,
                                                 working |-> working]]
          BY <4>2 DEF BeginPatch, Begin
        <5>2. PICK rate : desk' = [desk EXCEPT ![c] = [step |-> "patch", type |-> type,
                                                       rate |-> rate, working |-> working]]
          BY <5>1
        <5> QED
          BY <4>1, <5>2
      <4>3. CASE BeginSave(c)
        <5>1. PICK day \in Days, site \in Sites, present \in BOOLEAN :
                 desk' = [desk EXCEPT ![c] = [step |-> "snapshot", day |-> day, site |-> site,
                                              present |-> present, pay |-> employee]]
          BY <4>3 DEF BeginSave, Begin
        <5> QED
          BY <4>1, <5>1
      <4>4. CASE ReadSnapshot(c)
        BY <4>1, <4>4 DEF ReadSnapshot, Goto
      <4>5. CASE CommitPatch(c) \/ CommitSave(c) \/ Refuse(c)
        BY <4>1, <4>5 DEF CommitPatch, CommitSave, Refuse, Goto, Idle
      <4> QED
        BY <2>2, <4>2, <4>3, <4>4, <4>5
    <3> QED
      BY <1>1, <2>1, <3>1, <3>2 DEF AtDesk
  <2>3. CASE BeginPayslip(c)
    <3>1. payslip' = payslip /\ payslip # NoPayslip
      BY <2>3 DEF BeginPayslip, RowsStay
    <3> QED
      BY <1>1, <3>1
  <2>4. CASE CommitPayslip(c)
    <3>1. payslip \in Payslips
      BY <2>4 DEF CommitPayslip, PayslipInv
    <3>2. CASE AtDesk(c, "remove") /\ payslip' = [payslip EXCEPT !.status = "trashed"]
      BY <1>2, <3>1, <3>2, PayslipShape
    <3>3. CASE AtDesk(c, "edit") /\ payslip' = [payslip EXCEPT !.is =
                   [desk[c].is EXCEPT !.paid = @ \/ payslip.is.paid]]
      <4>1. desk[c].is \in Contents /\ payslip.is.paid \in BOOLEAN
        BY <3>1, <3>3, EditShape, PayslipShape DEF LaborType
      <4>2. [desk[c].is EXCEPT !.paid = @ \/ payslip.is.paid] \in Contents
        <5>1. (desk[c].is.paid \/ payslip.is.paid) \in BOOLEAN
          OBVIOUS
        <5>2. \A b \in BOOLEAN, is \in Contents : [is EXCEPT !.paid = b] \in Contents
          BY DEF Contents
        <5> QED
          BY <4>1, <5>1, <5>2
      <4> QED
        BY <1>2, <3>1, <3>3, <4>2, PayslipShape
    <3> QED
      BY <2>4, <3>2, <3>3 DEF CommitPayslip
  <2> QED
    BY <1>4, <2>2, <2>3, <2>4 DEF Work
<1>5. ASSUME NEW cost \in Costs, NEW complete \in BOOLEAN, CreatePayslip(cost, complete)
      PROVE  PayslipInv'
  <2>1. payslip' = [status |-> "live", is |-> [cost |-> cost, complete |-> complete, paid |-> FALSE]]
    BY <1>5 DEF CreatePayslip
  <2>2. payslip' \in Payslips
    BY <2>1 DEF Payslips, Contents
  <2> QED
    BY <1>2, <2>2
<1>6. CASE RestorePayslip
  <2>1. payslip \in Payslips /\ payslip' = [payslip EXCEPT !.status = "live"]
    BY <1>6 DEF RestorePayslip, PayslipInv
  <2> QED
    BY <1>2, <2>1, PayslipShape
<1>7. CASE UNCHANGED allVars \/ PeriodsNext
  BY <1>3, <1>7 DEF PeriodsNext, allVars, laborVars
<1> QED
  BY <1>4, <1>5, <1>6, <1>7 DEF LaborNext

LEMMA SpecPayslipInv == LaborSpec => []PayslipInv
<1>1. LaborInit => PayslipInv
  BY DEF LaborInit, PayslipInv, AtDesk, Idle
<1>2. LaborInv => LaborType
  BY DEF LaborInv
<1> QED
  BY <1>1, <1>2, PayslipStep, SpecLaborInv, PTL DEF LaborSpec

(* A share is the exact one but for half a cent.                           *)
LEMMA HalfUpIsNear ==
    ASSUME NEW a \in Nat, NEW b \in Nat \ {0}
    PROVE  /\ HalfUp(a, b) \in Int
           /\ (2 * b) * HalfUp(a, b) <= 2 * a + b
           /\ 2 * a <= (2 * b) * HalfUp(a, b) + b
<1> DEFINE m == 2 * a + b
           k == 2 * b
<1>1. m \in Int /\ k \in Int /\ 0 < k
  OBVIOUS
<1>2. m \div k \in Int /\ k * (m \div k) <= m /\ m < k * (m \div k) + k
  <2> HIDE DEF m, k
  <2> QED
    BY <1>1
<1> QED
  BY <1>2 DEF HalfUp

(* The days at each site add up to the days worked.                        *)
LEMMA DaysAddUp ==
    ASSUME attendance \in [Days -> {NotRecorded} \cup AttendanceRows]
    PROVE  /\ IsFiniteSet(Present(Days)) /\ Cardinality(Present(Days)) \in Nat
           /\ \A s \in Sites : Cardinality(AtSite(s, Days)) \in Nat
           /\ SumOver([s \in Sites |-> Cardinality(AtSite(s, Days))], Sites)
                = Cardinality(Present(Days))
<1> DEFINE P == Present(Days)
           at == [d \in Days |-> attendance[d].site]
<1>1. IsFiniteSet(P) /\ Cardinality(P) \in Nat
  <2>1. IsFiniteSet(Days)
    BY HorizonAssumption, FS_Interval DEF Days
  <2>2. P \in SUBSET Days
    BY DEF Present
  <2> QED
    BY <2>1, <2>2, FS_Subset, FS_CardinalityType
<1>2. \A d \in P : at[d] \in Sites /\ at[d] = attendance[d].site
  <2> TAKE d \in P
  <2>1. d \in Days /\ attendance[d].recorded
    BY DEF Present
  <2>2. attendance[d] \in AttendanceRows
    BY <2>1 DEF NotRecorded
  <2> QED
    BY <2>1, <2>2 DEF AttendanceRows
<1>3. \A s : AtSite(s, Days) = {d \in P : at[d] = s}
  BY <1>2 DEF AtSite
<1>4. \A s \in Sites : Cardinality(AtSite(s, Days)) \in Nat
  <2>1. \A s \in Sites : AtSite(s, Days) \in SUBSET P
    BY DEF AtSite
  <2> QED
    BY <1>1, <2>1, FS_Subset, FS_CardinalityType
<1>5. SumOver([s \in Sites |-> Cardinality({d \in P : at[d] = s})], Sites) = Cardinality(P)
  <2> HIDE DEF P, at
  <2> QED
    BY <1>1, <1>2, SitesAssumption, SumOfParts
<1> QED
  BY <1>1, <1>3, <1>4, <1>5

(* The shares of the sites fill the month's cost, but for half a cent a    *)
(* site, as soon as a day was worked (custoDoMensalista over the days      *)
(* present): nothing of a monthly worker's cost is lost or charged twice.  *)
THEOREM SharesMakeTheCost == LaborSpec => []SharesFillTheMonth
<1>1. ASSUME LaborType, PayslipInv PROVE SharesFillTheMonth
  <2> DEFINE D == Cardinality(Present(Days))
             c == payslip.is.cost
             n == Cardinality(Sites)
             days == [s \in Sites |-> Cardinality(AtSite(s, Days))]
             cost == [s \in Sites |-> Cost(s, Days).value]
             H == SumOver(cost, Sites)
  <2> SUFFICES ASSUME employee.type = "CLT", HasPayslip, Present(Days) # {}
               PROVE  2 * Apart(H, c) <= n
    BY DEF SharesFillTheMonth
  <2>1. /\ IsFiniteSet(Present(Days)) /\ D \in Nat /\ \A s \in Sites : days[s] \in Nat
        /\ SumOver(days, Sites) = D
    BY <1>1, DaysAddUp DEF LaborType
  <2>2. D \in Nat \ {0}
    BY <2>1, FS_EmptySet
  <2>3. c \in Nat
    BY <1>1, PayslipShape DEF PayslipInv, HasPayslip
  <2>4. n \in Nat
    BY SitesAssumption, FS_CardinalityType
  <2>5. ASSUME NEW s \in Sites
        PROVE  /\ cost[s] \in Int
               /\ (2 * D) * cost[s] <= (2 * c) * days[s] + D
               /\ (2 * c) * days[s] <= (2 * D) * cost[s] + D
    <3>1. CASE AtSite(s, Days) = {}
      <4>1. cost[s] = 0 /\ days[s] = 0
        BY <3>1, FS_EmptySet DEF Cost
      <4> HIDE DEF cost, days, D, c
      <4> QED
        BY <2>2, <2>3, <4>1
    <3>2. CASE AtSite(s, Days) # {}
      <4>1. cost[s] = HalfUp(c * days[s], D)
        BY <3>2 DEF Cost, custoDoMensalista, ratearPorDiasPresentes
      <4>2. days[s] \in Nat
        BY <2>1
      <4> HIDE DEF cost, days, D, c
      <4>3. c * days[s] \in Nat
        BY <2>3, <4>2
      <4>4. /\ cost[s] \in Int
            /\ (2 * D) * cost[s] <= 2 * (c * days[s]) + D
            /\ 2 * (c * days[s]) <= (2 * D) * cost[s] + D
        BY <2>2, <4>1, <4>3, HalfUpIsNear
      <4>5. 2 * (c * days[s]) = (2 * c) * days[s]
        BY <2>3, <4>2
      <4> QED
        BY <4>4, <4>5
    <3> QED
      BY <3>1, <3>2
  <2>6. H \in Int
    <3>1. \A s \in Sites : cost[s] \in Int
      BY <2>5
    <3> HIDE DEF cost
    <3> QED
      BY <3>1, SitesAssumption, SumInt
  <2>7. (2 * D) * H <= (2 * c) * D + D * n
    <3>1. \A s \in Sites : cost[s] \in Int /\ days[s] \in Int
                           /\ (2 * D) * cost[s] <= (2 * c) * days[s] + D
      BY <2>1, <2>5
    <3>2. 2 * D \in Int /\ 2 * c \in Int /\ D \in Int
      BY <2>1, <2>3
    <3> HIDE DEF cost, days, D, c
    <3>3. (2 * D) * SumOver(cost, Sites) <= (2 * c) * SumOver(days, Sites) + D * Cardinality(Sites)
      BY <3>1, <3>2, SitesAssumption, SumBound
    <3> QED
      BY <2>1, <3>3
  <2>8. (2 * c) * D <= (2 * D) * H + D * n
    <3>1. \A s \in Sites : days[s] \in Int /\ cost[s] \in Int
                           /\ (2 * c) * days[s] <= (2 * D) * cost[s] + D
      BY <2>1, <2>5
    <3>2. 2 * D \in Int /\ 2 * c \in Int /\ D \in Int
      BY <2>1, <2>3
    <3> HIDE DEF cost, days, D, c
    <3>3. (2 * c) * SumOver(days, Sites) <= (2 * D) * SumOver(cost, Sites) + D * Cardinality(Sites)
      BY <3>1, <3>2, SitesAssumption, SumBound
    <3> QED
      BY <2>1, <3>3
  <2> HIDE DEF D, c, n, days, cost, H
  <2>9. 2 * H <= 2 * c + n /\ 2 * c <= 2 * H + n
    <3>1. (2 * D) * H = D * (2 * H) /\ (2 * c) * D + D * n = D * (2 * c + n)
          /\ (2 * c) * D = D * (2 * c) /\ (2 * D) * H + D * n = D * (2 * H + n)
      BY <2>2, <2>3, <2>4, <2>6
    <3>2. D * (2 * H) <= D * (2 * c + n) /\ D * (2 * c) <= D * (2 * H + n)
      BY <2>7, <2>8, <3>1
    <3>3. ASSUME NEW x \in Int, NEW y \in Int, NEW k \in Nat \ {0}, k * x <= k * y
          PROVE  x <= y
      BY <3>3
    <3> QED
      BY <2>2, <2>3, <2>4, <2>6, <3>2, <3>3
  <2> QED
    BY <2>3, <2>4, <2>6, <2>9 DEF Apart
<1>2. LaborInv => LaborType
  BY DEF LaborInv
<1> QED
  BY <1>1, <1>2, SpecLaborInv, SpecPayslipInv, PTL

(* Every variable of the composition keeps its shape, that of the          *)
(* allocations included.                                                   *)
THEOREM LaborTypeCorrect ==
    LaborSpec => [](TypeOK /\ LaborType /\ payslip \in {NoPayslip} \cup Payslips)
<1>1. LaborInv => LaborType
  BY DEF LaborInv
<1>2. PayslipInv => payslip \in {NoPayslip} \cup Payslips
  BY DEF PayslipInv
<1> QED
  BY <1>1, <1>2, ImplementsAllocations, TypeCorrect, SpecLaborInv, SpecPayslipInv, PTL
=============================================================================
