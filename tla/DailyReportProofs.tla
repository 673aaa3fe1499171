-------------------------- MODULE DailyReportProofs --------------------------
(***************************************************************************)
(* One site report, for any number of calls, items and times of day: it is *)
(* finalised once, and the log names nobody but who finalised it; when     *)
(* calls come one at a time, what is finalised is complete and does not    *)
(* change, and its activities have distinct positions.  Then its photos    *)
(* and videos, and last the numbers of the reports of a site.              *)
(***************************************************************************)
EXTENDS DailyReport, ReportMedia, ReportNumbering, FiniteSetTheorems, TLAPS

Shape ==
    /\ exists \in BOOLEAN /\ status \in {"DRAFT", "SUBMITTED"}
    /\ submittedBy \in SUBSET Procs
    /\ schedule \in Schedules /\ items \in [Items -> Rows]
    /\ audit \in SUBSET ({"submit", "remove"} \X Procs)
    /\ pc \in [Procs -> {"idle", "max", "write", "audit"}]
    /\ call \in [Procs -> Calls]
    /\ seen \in [Procs -> 0..MaxPosition]
    /\ workload \in Workloads

(* What each step was reached for, and with which position in hand.        *)
Underway(p) ==
    /\ pc[p] = "max" => call[p].op = "addActivity"
    /\ pc[p] = "write" => call[p].op # "none"
    /\ pc[p] = "write" /\ call[p].op = "addActivity" => seen[p] < MaxPosition
    /\ pc[p] = "audit" => call[p].op \in {"submit", "remove"}

(* Whoever finalised it, in the log or about to be, is the one in the row. *)
Finaliser(p) ==
    (<<"submit", p>> \in audit \/ At(p, "audit", "submit")) /\ exists
        => status = "SUBMITTED" /\ submittedBy = {p}

(* One call at a time: nothing comes between what it read and its write.   *)
Undisturbed ==
    Alone =>
        /\ \A p, q \in Procs : pc[p] # "idle" /\ pc[q] # "idle" => p = q
        /\ \A p \in Procs : pc[p] \in {"max", "write"} /\ call[p].op # "remove" => Writable
        /\ \A p \in Procs : At(p, "write", "submit") => Ready
        /\ Submitted => Ready

Inv ==
    /\ Shape /\ Undisturbed
    /\ \A p \in Procs : Underway(p) /\ Finaliser(p)
-----------------------------------------------------------------------------
LEMMA ItemCalls ==
    ASSUME Shape, NEW p \in Procs,
           call[p].op \in {"addActivity", "addOther", "updateItem", "removeItem"}
    PROVE  call[p].item \in Items
<1>1. call[p] \in Calls
  BY DEF Shape
<1>2. CASE call[p] \in [op: {"update"},
              sent: UNION {[fields -> Minutes \cup {Null}] : fields \in SUBSET Hours}]
  BY <1>2
<1>3. CASE call[p] \in [op: {"addActivity", "addOther", "updateItem", "removeItem"}, item: Items]
  BY <1>3
<1>4. CASE call[p] \in [op: {"submit"}]
  BY <1>4
<1>5. CASE call[p] \in [op: {"remove"}, admin: BOOLEAN]
  BY <1>5
<1>6. CASE call[p] = NoCall
  BY <1>6 DEF NoCall
<1> QED
  BY <1>1, <1>2, <1>3, <1>4, <1>5, <1>6 DEF Calls

LEMMA UpdateCalls ==
    ASSUME Shape, NEW p \in Procs, call[p].op = "update"
    PROVE  \E fields \in SUBSET Hours : call[p].sent \in [fields -> Minutes \cup {Null}]
<1>1. call[p] \in Calls
  BY DEF Shape
<1>2. CASE call[p] \in [op: {"update"},
              sent: UNION {[fields -> Minutes \cup {Null}] : fields \in SUBSET Hours}]
  BY <1>2
<1>3. CASE call[p] \in [op: {"addActivity", "addOther", "updateItem", "removeItem"}, item: Items]
  BY <1>3
<1>4. CASE call[p] \in [op: {"submit"}]
  BY <1>4
<1>5. CASE call[p] \in [op: {"remove"}, admin: BOOLEAN]
  BY <1>5
<1>6. CASE call[p] = NoCall
  BY <1>6 DEF NoCall
<1> QED
  BY <1>1, <1>2, <1>3, <1>4, <1>5, <1>6 DEF Calls

(* When one call comes at a time, one that begins finds the others idle.   *)
LEMMA FirstAlone ==
    ASSUME Alone, Cardinality({q \in Procs : pc[q] # "idle"}) < workload.calls
    PROVE  \A q \in Procs : pc[q] = "idle"
<1> DEFINE busy == {q \in Procs : pc[q] # "idle"}
<1>1. IsFiniteSet(busy)
  BY ProcsAssumption, FS_Subset
<1>2. Cardinality(busy) \in Nat /\ (Cardinality(busy) = 0 <=> busy = {})
  BY <1>1, FS_CardinalityType, FS_EmptySet
<1>3. Cardinality(busy) < 1
  BY DEF Alone
<1>4. busy = {}
  BY <1>2, <1>3
<1> QED
  BY <1>4

LEMMA SmallCalls ==
    /\ NoCall \in Calls /\ [op |-> "submit"] \in Calls
    /\ \A i \in Items, op \in {"addActivity", "addOther", "updateItem", "removeItem"} :
          [op |-> op, item |-> i] \in Calls
    /\ \A admin \in BOOLEAN : [op |-> "remove", admin |-> admin] \in Calls
    /\ \A fields \in SUBSET Hours : \A sent \in [fields -> Minutes \cup {Null}] :
          [op |-> "update", sent |-> sent] \in Calls
<1>1. NoCall \in Calls /\ [op |-> "submit"] \in Calls
  BY DEF Calls
<1>2. ASSUME NEW i \in Items, NEW op \in {"addActivity", "addOther", "updateItem", "removeItem"}
      PROVE  [op |-> op, item |-> i] \in Calls
  BY DEF Calls
<1>3. ASSUME NEW admin \in BOOLEAN PROVE [op |-> "remove", admin |-> admin] \in Calls
  BY DEF Calls
<1>4. ASSUME NEW fields \in SUBSET Hours, NEW sent \in [fields -> Minutes \cup {Null}]
      PROVE  [op |-> "update", sent |-> sent] \in Calls
  <2>1. sent \in UNION {[f -> Minutes \cup {Null}] : f \in SUBSET Hours}
    OBVIOUS
  <2> QED
    BY <2>1 DEF Calls
<1> QED
  BY <1>1, <1>2, <1>3, <1>4

(* A call that begins, with what its handler has checked.                  *)
LEMMA BeginInv ==
    ASSUME Inv, UNCHANGED workload, NEW p \in Procs, NEW c \in Calls,
           NEW step \in {"max", "write"}, Begin(p, c, step),
           c.op # "none", step = "max" => c.op = "addActivity",
           step = "write" => c.op # "addActivity",
           c.op # "remove" => Writable, c.op = "submit" => Ready
    PROVE  Inv'
<1>1. /\ call' = [call EXCEPT ![p] = c] /\ pc' = [pc EXCEPT ![p] = step]
      /\ UNCHANGED <<exists, status, submittedBy, schedule, items, audit, seen>>
      /\ Alone => \A q \in Procs : pc[q] = "idle"
  BY FirstAlone DEF Begin, Report
<1>2. Shape'
  BY <1>1 DEF Inv, Shape
<1>3. /\ pc'[p] = step /\ call'[p] = c
      /\ \A q \in Procs \ {p} : pc'[q] = pc[q] /\ call'[q] = call[q]
  BY <1>1 DEF Inv, Shape
<1>4. \A q \in Procs : Underway(q)' /\ Finaliser(q)'
  BY <1>1, <1>3 DEF Inv, Underway, Finaliser, At
<1>5. Undisturbed'
  BY <1>1, <1>3 DEF Inv, Undisturbed, Alone, At, Writable, Ready, Submitted, Activities
<1> QED
  BY <1>2, <1>4, <1>5 DEF Inv

(* A call that ends, having left the status alone.                         *)
LEMMA FinishInv ==
    ASSUME Inv, UNCHANGED <<workload, exists, status, submittedBy>>,
           NEW p \in Procs, pc[p] # "idle", Finish(p),
           audit' \in SUBSET ({"submit", "remove"} \X Procs),
           \A q \in Procs : <<"submit", q>> \in audit' =>
              <<"submit", q>> \in audit \/ At(q, "audit", "submit"),
           schedule' \in Schedules, items' \in [Items -> Rows],
           Alone /\ Submitted => UNCHANGED <<schedule, items>>
    PROVE  Inv'
<1>1. /\ pc' \in [Procs -> {"idle", "max", "write", "audit"}]
      /\ call' \in [Procs -> Calls] /\ seen' \in [Procs -> 0..MaxPosition]
  <2>1. 0 \in 0..MaxPosition
    BY PositionAssumption
  <2> QED
    BY <2>1, SmallCalls DEF Finish, Inv, Shape
<1>2. Shape'
  BY <1>1 DEF Inv, Shape
<1>3. /\ pc'[p] = "idle" /\ call'[p] = NoCall
      /\ \A q \in Procs \ {p} : pc'[q] = pc[q] /\ call'[q] = call[q] /\ seen'[q] = seen[q]
  BY DEF Finish, Inv, Shape
<1>4. ASSUME NEW q \in Procs PROVE Underway(q)' /\ Finaliser(q)'
  <2>1. Underway(q)'
    BY <1>3 DEF Inv, Underway
  <2>2. At(q, "audit", "submit")' => At(q, "audit", "submit")
    BY <1>3 DEF At
  <2>3. Finaliser(q)'
    BY <2>2 DEF Inv, Finaliser
  <2> QED
    BY <2>1, <2>3
<1>5. Undisturbed'
  <2> SUFFICES ASSUME Alone' PROVE Undisturbed'
    BY DEF Undisturbed
  <2>1. Alone
    BY DEF Alone
  <2>2. \A q, r \in Procs : pc'[q] # "idle" /\ pc'[r] # "idle" => q = r
    BY <1>3, <2>1 DEF Inv, Undisturbed
  <2>3. \A q \in Procs : pc'[q] \in {"max", "write"} /\ call'[q].op # "remove" => Writable'
    BY <1>3, <2>1 DEF Inv, Undisturbed, Writable
  <2>4. ASSUME NEW q \in Procs, At(q, "write", "submit")' PROVE Ready'
    <3>1. q # p /\ pc[q] # "idle"
      BY <1>3, <2>4 DEF At
    <3>2. pc[p] = "idle"
      BY <2>1, <3>1 DEF Inv, Undisturbed
    <3> QED
      BY <3>2
  <2>5. Submitted' => Ready'
    BY <2>1 DEF Inv, Undisturbed, Submitted, Ready, Activities
  <2> QED
    BY <2>2, <2>3, <2>4, <2>5 DEF Undisturbed
<1> QED
  BY <1>2, <1>4, <1>5 DEF Inv

LEMMA BeginSteps ==
    ASSUME Inv, UNCHANGED workload, NEW p \in Procs,
           BeginUpdate(p) \/ BeginAdd(p) \/ BeginWriteItem(p) \/ BeginSubmit(p) \/ BeginRemove(p)
    PROVE  Inv'
<1>0. workload.fields \in SUBSET Hours /\ workload.items \in SUBSET Items
  BY WorkloadAssumption DEF Inv, Shape, Hours
<1>1. CASE BeginUpdate(p)
  <2>1. PICK fields \in SUBSET workload.fields :
          \E sent \in [fields -> Minutes \cup {Null}] :
              Coherent(Merge(schedule, sent)) /\ Begin(p, [op |-> "update", sent |-> sent], "write")
    BY <1>1 DEF BeginUpdate
  <2>2. PICK sent \in [fields -> Minutes \cup {Null}] :
          Begin(p, [op |-> "update", sent |-> sent], "write")
    BY <2>1
  <2>3. fields \in SUBSET Hours /\ Writable
    BY <1>0, <1>1 DEF BeginUpdate
  <2>4. [op |-> "update", sent |-> sent] \in Calls
    BY <2>3, SmallCalls
  <2> QED
    BY <2>2, <2>3, <2>4, BeginInv
<1>2. CASE BeginAdd(p)
  <2>1. PICK i \in workload.items :
          \/ Begin(p, [op |-> "addActivity", item |-> i], "max")
          \/ Begin(p, [op |-> "addOther", item |-> i], "write")
    BY <1>2 DEF BeginAdd
  <2>2. /\ [op |-> "addActivity", item |-> i] \in Calls
        /\ [op |-> "addOther", item |-> i] \in Calls
        /\ Writable
    BY <1>0, <1>2, SmallCalls DEF BeginAdd
  <2> QED
    BY <2>1, <2>2, BeginInv
<1>3. CASE BeginWriteItem(p)
  <2>1. PICK i \in workload.items, op \in {"updateItem", "removeItem"} :
          Begin(p, [op |-> op, item |-> i], "write")
    BY <1>3 DEF BeginWriteItem
  <2>2. [op |-> op, item |-> i] \in Calls /\ Writable
    BY <1>0, <1>3, SmallCalls DEF BeginWriteItem
  <2> QED
    BY <2>1, <2>2, BeginInv
<1>4. CASE BeginSubmit(p)
  BY <1>4, SmallCalls, BeginInv DEF BeginSubmit
<1>5. CASE BeginRemove(p)
  <2>1. PICK admin \in BOOLEAN : Begin(p, [op |-> "remove", admin |-> admin], "write")
    BY <1>5 DEF BeginRemove
  <2> QED
    BY <2>1, SmallCalls, BeginInv
<1> QED
  BY <1>1, <1>2, <1>3, <1>4, <1>5

LEMMA ReadMaxInv ==
    ASSUME Inv, UNCHANGED workload, NEW p \in Procs, ReadMax(p)
    PROVE  Inv'
<1>1. PICK m \in 0..MaxPosition : m < MaxPosition /\ seen' = [seen EXCEPT ![p] = m]
  BY DEF ReadMax
<1>2. /\ At(p, "max", "addActivity") /\ pc' = [pc EXCEPT ![p] = "write"]
      /\ UNCHANGED <<exists, status, submittedBy, schedule, items, audit, call>>
  BY DEF ReadMax, Report
<1>3. Shape'
  BY <1>1, <1>2 DEF Inv, Shape
<1>4. \A q \in Procs : Underway(q)' /\ Finaliser(q)'
  BY <1>1, <1>2 DEF Inv, Shape, Underway, Finaliser, At
<1>5. Undisturbed'
  BY <1>2 DEF Inv, Shape, Undisturbed, Alone, At, Writable, Ready, Submitted, Activities
<1> QED
  BY <1>3, <1>4, <1>5 DEF Inv

(* The writes of content: a call alone finds the draft that it read.       *)
LEMMA WriteSteps ==
    ASSUME Inv, UNCHANGED workload, NEW p \in Procs,
           \/ CommitUpdate(p) \/ CommitAdd(p) \/ CommitUpdateItem(p)
           \/ CommitRemoveItem(p) \/ Abort(p)
    PROVE  Inv'
<1>0. /\ pc[p] # "idle" /\ Finish(p) /\ UNCHANGED <<exists, status, submittedBy, audit>>
  BY DEF CommitUpdate, CommitAdd, CommitUpdateItem, CommitRemoveItem, Abort, At, Report
<1>1. audit' \in SUBSET ({"submit", "remove"} \X Procs)
  BY <1>0 DEF Inv, Shape
<1>2. ASSUME Alone, Submitted PROVE UNCHANGED <<schedule, items>>
  <2>1. ~Writable
    BY <1>2 DEF Submitted, Writable
  <2>2. pc[p] = "write" => call[p].op = "remove"
    BY <1>2, <2>1 DEF Inv, Undisturbed
  <2>3. ~CommitUpdate(p) /\ ~CommitAdd(p) /\ ~CommitUpdateItem(p) /\ ~CommitRemoveItem(p)
    BY <2>2 DEF CommitUpdate, CommitAdd, CommitUpdateItem, CommitRemoveItem, At
  <2> QED
    BY <2>3 DEF Abort, Report
<1>3. schedule' \in Schedules
  <2>1. CASE CommitUpdate(p)
    <3>1. PICK fields \in SUBSET Hours : call[p].sent \in [fields -> Minutes \cup {Null}]
      BY <2>1, UpdateCalls DEF CommitUpdate, At, Inv
    <3>2. schedule' = [h \in Hours |->
                          IF h \in fields THEN call[p].sent[h] ELSE schedule[h]]
      BY <2>1, <3>1 DEF CommitUpdate, Merge
    <3> QED
      BY <3>1, <3>2 DEF Inv, Shape, Schedules
  <2>2. CASE ~CommitUpdate(p)
    BY <2>2 DEF CommitAdd, CommitUpdateItem, CommitRemoveItem, Abort, Report, Inv, Shape
  <2> QED
    BY <2>1, <2>2
<1>4. items' \in [Items -> Rows]
  <2>0. items \in [Items -> Rows] /\ seen[p] \in 0..MaxPosition
    BY DEF Inv, Shape
  <2>1. CASE CommitUpdate(p) \/ Abort(p)
    BY <2>0, <2>1 DEF CommitUpdate, Abort, Report
  <2>2. CASE CommitAdd(p)
    <3> DEFINE new == IF call[p].op = "addActivity"
           THEN [kind |-> "activity", position |-> seen[p] + 1, text |-> 0]
           ELSE [kind |-> "other", position |-> 0, text |-> 0]
    <3>1. call[p].op = "addActivity" => seen[p] < MaxPosition
      BY <2>2 DEF CommitAdd, Inv, Underway
    <3>2. new \in Rows
      BY <2>0, <3>1, PositionAssumption DEF Rows
    <3>3. items' = [items EXCEPT ![call[p].item] = new]
      BY <2>2 DEF CommitAdd
    <3> QED
      BY <2>0, <3>2, <3>3
  <2>3. CASE CommitUpdateItem(p)
    <3>1. call[p].item \in Items /\ items' = [items EXCEPT ![call[p].item].text = 1 - @]
      BY <2>3, ItemCalls DEF CommitUpdateItem, At, Inv
    <3>2. [items[call[p].item] EXCEPT !.text = 1 - @] \in Rows
      BY <2>0, <3>1 DEF Rows
    <3> QED
      BY <2>0, <3>1, <3>2
  <2>4. CASE CommitRemoveItem(p)
    <3>1. NoItem \in Rows
      BY PositionAssumption DEF NoItem, Rows
    <3> QED
      BY <2>0, <2>4, <3>1 DEF CommitRemoveItem
  <2> QED
    BY <2>1, <2>2, <2>3, <2>4
<1> QED
  BY <1>0, <1>1, <1>2, <1>3, <1>4, FinishInv

LEMMA CommitSubmitInv ==
    ASSUME Inv, UNCHANGED workload, NEW p \in Procs, CommitSubmit(p)
    PROVE  Inv'
<1>1. /\ At(p, "write", "submit") /\ exists /\ status = "DRAFT"
      /\ status' = "SUBMITTED" /\ submittedBy' = {p} /\ pc' = [pc EXCEPT ![p] = "audit"]
      /\ UNCHANGED <<exists, schedule, items, audit, call, seen>>
  BY DEF CommitSubmit, Audited, Writable
<1>2. Shape'
  BY <1>1 DEF Inv, Shape
<1>3. \A q \in Procs : Underway(q)' /\ Finaliser(q)'
  BY <1>1 DEF Inv, Shape, Underway, Finaliser, At
<1>4. Undisturbed'
  BY <1>1 DEF Inv, Shape, Undisturbed, Alone, At, Ready, Activities
<1> QED
  BY <1>2, <1>3, <1>4 DEF Inv

LEMMA CommitRemoveInv ==
    ASSUME Inv, UNCHANGED workload, NEW p \in Procs, CommitRemove(p)
    PROVE  Inv'
<1>1. /\ At(p, "write", "remove") /\ exists' = FALSE /\ status' = "DRAFT" /\ submittedBy' = {}
      /\ schedule' = NoHours /\ items' = [i \in Items |-> NoItem]
      /\ pc' = [pc EXCEPT ![p] = "audit"] /\ UNCHANGED <<audit, call, seen>>
  BY DEF CommitRemove, Audited
<1>2. Shape'
  <2>1. NoHours \in Schedules /\ NoItem \in Rows
    BY PositionAssumption DEF NoHours, Schedules, NoItem, Rows
  <2> QED
    BY <1>1, <2>1 DEF Inv, Shape
<1>3. \A q \in Procs : Underway(q)' /\ Finaliser(q)'
  BY <1>1 DEF Inv, Shape, Underway, Finaliser, At
<1>4. Undisturbed'
  BY <1>1 DEF Inv, Shape, Undisturbed, Alone, At, Submitted
<1> QED
  BY <1>2, <1>3, <1>4 DEF Inv

LEMMA WriteAuditInv ==
    ASSUME Inv, UNCHANGED workload, NEW p \in Procs, WriteAudit(p)
    PROVE  Inv'
<1>1. /\ pc[p] = "audit" /\ audit' = audit \cup {<<call[p].op, p>>} /\ Finish(p)
      /\ UNCHANGED <<exists, status, submittedBy, schedule, items>>
  BY DEF WriteAudit, Report
<1>2. call[p].op \in {"submit", "remove"}
  BY <1>1 DEF Inv, Underway
<1>3. audit' \in SUBSET ({"submit", "remove"} \X Procs)
  BY <1>1, <1>2 DEF Inv, Shape
<1>4. \A q \in Procs : <<"submit", q>> \in audit' =>
          <<"submit", q>> \in audit \/ At(q, "audit", "submit")
  BY <1>1 DEF At
<1>5. schedule' \in Schedules /\ items' \in [Items -> Rows]
  BY <1>1 DEF Inv, Shape
<1> QED
  BY <1>1, <1>3, <1>4, <1>5, FinishInv

LEMMA InitInv == Init => Inv
<1> SUFFICES ASSUME Init PROVE Inv
  OBVIOUS
<1>1. Shape
  <2>1. NoHours \in Schedules /\ NoItem \in Rows /\ 0 \in 0..MaxPosition
    BY PositionAssumption DEF NoHours, Schedules, NoItem, Rows
  <2> QED
    BY <2>1, SmallCalls DEF Init, Shape
<1> QED
  BY <1>1 DEF Init, Inv, Undisturbed, Underway, Finaliser, At, Submitted

LEMMA NextInv == Inv /\ [Next]_vars => Inv'
<1> SUFFICES ASSUME Inv, [Next]_vars PROVE Inv'
  OBVIOUS
<1>1. CASE UNCHANGED vars
  BY <1>1 DEF vars, Report, Inv, Shape, Underway, Finaliser, Undisturbed, Alone, At, Writable,
              Ready, Submitted, Activities
<1>2. ASSUME UNCHANGED workload, NEW p \in Procs, Step(p) PROVE Inv'
  BY <1>2, BeginSteps, ReadMaxInv, WriteSteps, CommitSubmitInv, CommitRemoveInv, WriteAuditInv
     DEF Step
<1> QED
  BY <1>1, <1>2 DEF Next

LEMMA SpecInv == Spec => []Inv
BY InitInv, NextInv, PTL DEF Spec
-----------------------------------------------------------------------------
(* Every variable keeps its shape; no position passes its bound.           *)
THEOREM TypeCorrect == Spec => []TypeOK
<1>1. Inv => TypeOK
  BY DEF Inv, Shape, TypeOK
<1> QED
  BY <1>1, SpecInv, PTL

(* The log names nobody but the one who finalised the report, whoever      *)
(* finalises and deletes at once (submit, AuditLoggerService.log).         *)
THEOREM LogTellsWhoFinalised == Spec => []AuditTellsWhoSubmitted
<1>1. Inv => AuditTellsWhoSubmitted
  BY DEF Inv, Finaliser, Submitted, AuditTellsWhoSubmitted
<1> QED
  BY <1>1, SpecInv, PTL

(* One call at a time, what finalising requires is there in a finalised    *)
(* report (assertReadyToSubmit).                                           *)
THEOREM FinalisedIsComplete == Spec => []SubmittedReady
<1>1. Inv => SubmittedReady
  BY DEF Inv, Undisturbed, SubmittedReady
<1> QED
  BY <1>1, SpecInv, PTL

LEMMA FinalisedStep ==
    ASSUME Inv, [Next]_vars, Submitted, exists'
    PROVE  /\ Submitted' /\ submittedBy' = submittedBy
           /\ Alone => UNCHANGED Content
<1>1. CASE UNCHANGED vars
  BY <1>1 DEF vars, Report, Submitted, Content
<1>2. ASSUME NEW p \in Procs, Step(p)
      PROVE  UNCHANGED <<exists, status, submittedBy>> /\ (Alone => UNCHANGED <<schedule, items>>)
  <2>1. ~Writable
    BY DEF Submitted, Writable
  <2>2. ~CommitSubmit(p) /\ ~CommitRemove(p)
    BY <2>1 DEF CommitSubmit, CommitRemove
  <2>3. Alone /\ pc[p] = "write" => call[p].op = "remove"
    BY <2>1 DEF Inv, Undisturbed
  <2>4. Alone => ~CommitUpdate(p) /\ ~CommitAdd(p) /\ ~CommitUpdateItem(p) /\ ~CommitRemoveItem(p)
    BY <2>3 DEF CommitUpdate, CommitAdd, CommitUpdateItem, CommitRemoveItem, At
  <2>5. CASE CommitUpdate(p) \/ CommitAdd(p) \/ CommitUpdateItem(p) \/ CommitRemoveItem(p)
    BY <2>4, <2>5 DEF CommitUpdate, CommitAdd, CommitUpdateItem, CommitRemoveItem
  <2>6. CASE \/ BeginUpdate(p) \/ BeginAdd(p) \/ BeginWriteItem(p) \/ BeginSubmit(p)
             \/ BeginRemove(p) \/ ReadMax(p) \/ WriteAudit(p) \/ Abort(p)
    BY <2>6 DEF BeginUpdate, BeginAdd, BeginWriteItem, BeginSubmit, BeginRemove, Begin, ReadMax,
                WriteAudit, Abort, Report
  <2> QED
    BY <1>2, <2>2, <2>5, <2>6 DEF Step
<1> QED
  BY <1>1, <1>2 DEF Next, Submitted, Content

(* A report is finalised once, by one user, for ever (submit, remove).     *)
THEOREM FinalisedOnce == Spec => SubmittedOnce
<1>1. Inv /\ [Next]_vars => (Submitted /\ exists' => Submitted' /\ submittedBy' = submittedBy)
  BY FinalisedStep
<1> QED
  BY <1>1, SpecInv, PTL DEF Spec, SubmittedOnce

(* One call at a time, a finalised report does not change (assertWritable).*)
THEOREM FinalisedIsFrozen == Spec => SubmittedIsFrozen
<1>1. Inv /\ [Next]_vars => (Alone /\ Submitted /\ exists' => UNCHANGED Content)
  BY FinalisedStep
<1> QED
  BY <1>1, SpecInv, PTL DEF Spec, SubmittedIsFrozen
-----------------------------------------------------------------------------
(* Positions: who read the greatest one alone still holds it when it       *)
(* writes, and rows that are rewritten keep theirs.                        *)
MaximaHold ==
    Alone => \A p \in Procs : At(p, "write", "addActivity") =>
                 \A i \in Activities : items[i].position <= seen[p]

PositionsInv == PositionsDistinct /\ MaximaHold

(* Rows that disappear or keep their kind and position; what is held of    *)
(* the greatest position is held still.                                    *)
LEMMA KeepPositions ==
    ASSUME PositionsInv, UNCHANGED workload,
           \A i \in Activities' : i \in Activities /\ items'[i].position = items[i].position,
           \A q \in Procs : At(q, "write", "addActivity")' =>
              At(q, "write", "addActivity") /\ seen'[q] = seen[q]
    PROVE  PositionsInv'
<1>1. Alone' => Alone
  BY DEF Alone
<1>2. PositionsDistinct'
  BY <1>1 DEF PositionsInv, PositionsDistinct
<1>3. MaximaHold'
  BY <1>1 DEF PositionsInv, MaximaHold
<1> QED
  BY <1>2, <1>3 DEF PositionsInv

(* A call that begins writes later, once it has read; one that ends does   *)
(* not write.                                                              *)
LEMMA OthersHold ==
    ASSUME Inv, NEW p \in Procs,
           \/ \E c \in Calls, step \in {"max", "write"} :
                  Begin(p, c, step) /\ (step = "write" => c.op # "addActivity")
           \/ Finish(p)
    PROVE  \A q \in Procs : At(q, "write", "addActivity")' =>
               At(q, "write", "addActivity") /\ seen'[q] = seen[q]
BY DEF Inv, Shape, Begin, Finish, At, NoCall

LEMMA AddPositions ==
    ASSUME Inv, PositionsInv, UNCHANGED workload, NEW p \in Procs, CommitAdd(p)
    PROVE  PositionsInv'
<1> DEFINE new == IF call[p].op = "addActivity"
                  THEN [kind |-> "activity", position |-> seen[p] + 1, text |-> 0]
                  ELSE [kind |-> "other", position |-> 0, text |-> 0]
<1>1. /\ pc[p] = "write" /\ call[p].op \in {"addActivity", "addOther"} /\ Finish(p)
      /\ items' = [items EXCEPT ![call[p].item] = new]
  BY DEF CommitAdd
<1>2. items \in [Items -> Rows] /\ call[p].item \in Items
  BY <1>1, ItemCalls DEF Inv, Shape
<1>3. /\ items'[call[p].item] = new
      /\ \A i \in Items \ {call[p].item} : items'[i] = items[i]
  BY <1>1, <1>2
<1>4. CASE call[p].op = "addOther"
  <2>1. new.kind = "other"
    BY <1>4
  <2>2. \A i \in Activities' : i \in Activities /\ items'[i].position = items[i].position
    BY <1>3, <2>1 DEF Activities
  <2> QED
    BY <1>1, <2>2, OthersHold, KeepPositions
<1>5. CASE call[p].op = "addActivity"
  <2> SUFFICES ASSUME Alone' PROVE PositionsInv'
    BY DEF PositionsInv, PositionsDistinct, MaximaHold
  <2>1. Alone
    BY DEF Alone
  <2>2. \A i \in Activities : items[i].position <= seen[p]
    BY <1>1, <1>5, <2>1 DEF PositionsInv, MaximaHold, At
  <2>3. new.position = seen[p] + 1
    BY <1>5
  <2>4. \A i \in Activities' : i # call[p].item =>
            i \in Activities /\ items'[i].position = items[i].position
    BY <1>3 DEF Activities
  <2>5. \A i \in Activities : items[i].position # seen[p] + 1
    <3>1. \A i \in Activities : items[i].position \in Nat
      BY <1>2 DEF Activities, Rows
    <3>2. seen[p] \in Nat
      BY DEF Inv, Shape
    <3> QED
      BY <2>2, <3>1, <3>2
  <2>6. PositionsDistinct'
    <3> HIDE DEF new
    <3> SUFFICES ASSUME NEW i \in Activities', NEW j \in Activities', i # j
                 PROVE  items'[i].position # items'[j].position
      BY DEF PositionsDistinct
    <3>1. CASE i # call[p].item /\ j # call[p].item
      BY <2>1, <2>4, <3>1 DEF PositionsInv, PositionsDistinct
    <3>2. CASE i = call[p].item
      BY <1>3, <2>3, <2>4, <2>5, <3>2
    <3>3. CASE j = call[p].item
      BY <1>3, <2>3, <2>4, <2>5, <3>3
    <3> QED
      BY <3>1, <3>2, <3>3
  <2>7. MaximaHold'
    <3> SUFFICES ASSUME NEW q \in Procs, At(q, "write", "addActivity")' PROVE FALSE
      BY DEF MaximaHold
    <3>1. q # p /\ pc[q] # "idle"
      BY <1>1 DEF Finish, At, Inv, Shape
    <3> QED
      BY <1>1, <2>1, <3>1 DEF Inv, Undisturbed
  <2> QED
    BY <2>6, <2>7 DEF PositionsInv
<1> QED
  BY <1>1, <1>4, <1>5

LEMMA ReadPositions ==
    ASSUME Inv, PositionsInv, UNCHANGED workload, NEW p \in Procs, ReadMax(p)
    PROVE  PositionsInv'
<1>1. PICK m \in 0..MaxPosition :
          /\ \A i \in Activities : items[i].position <= m
          /\ seen' = [seen EXCEPT ![p] = m]
  BY DEF ReadMax
<1>2. UNCHANGED <<items, call>> /\ pc' = [pc EXCEPT ![p] = "write"]
  BY DEF ReadMax, Report
<1>3. /\ seen'[p] = m
      /\ \A q \in Procs \ {p} : pc'[q] = pc[q] /\ seen'[q] = seen[q]
  BY <1>1, <1>2 DEF Inv, Shape
<1>4. Activities' = Activities /\ (Alone' <=> Alone)
  BY <1>2 DEF Activities, Alone
<1>5. MaximaHold'
  BY <1>1, <1>2, <1>3, <1>4 DEF PositionsInv, MaximaHold, At
<1>6. PositionsDistinct'
  BY <1>2, <1>4 DEF PositionsInv, PositionsDistinct
<1> QED
  BY <1>5, <1>6 DEF PositionsInv

(* What each handler begins with.                                          *)
LEMMA BegunCalls ==
    ASSUME Inv, NEW p \in Procs,
           BeginUpdate(p) \/ BeginAdd(p) \/ BeginWriteItem(p) \/ BeginSubmit(p) \/ BeginRemove(p)
    PROVE  \E c \in Calls, step \in {"max", "write"} :
               Begin(p, c, step) /\ (step = "write" => c.op # "addActivity")
<1>0. workload.fields \in SUBSET Hours /\ workload.items \in SUBSET Items
  BY WorkloadAssumption DEF Inv, Shape, Hours
<1>1. CASE BeginUpdate(p)
  <2>1. PICK fields \in SUBSET workload.fields :
          \E sent \in [fields -> Minutes \cup {Null}] :
              Coherent(Merge(schedule, sent)) /\ Begin(p, [op |-> "update", sent |-> sent], "write")
    BY <1>1 DEF BeginUpdate
  <2>2. PICK sent \in [fields -> Minutes \cup {Null}] :
          Begin(p, [op |-> "update", sent |-> sent], "write")
    BY <2>1
  <2>3. fields \in SUBSET Hours /\ Writable
    BY <1>0, <1>1 DEF BeginUpdate
  <2>4. [op |-> "update", sent |-> sent] \in Calls
    BY <2>3, SmallCalls
  <2> QED
    BY <2>2, <2>3, <2>4
<1>2. CASE BeginAdd(p)
  <2>1. PICK i \in workload.items :
          \/ Begin(p, [op |-> "addActivity", item |-> i], "max")
          \/ Begin(p, [op |-> "addOther", item |-> i], "write")
    BY <1>2 DEF BeginAdd
  <2>2. /\ [op |-> "addActivity", item |-> i] \in Calls
        /\ [op |-> "addOther", item |-> i] \in Calls
        /\ Writable
    BY <1>0, <1>2, SmallCalls DEF BeginAdd
  <2> QED
    BY <2>1, <2>2
<1>3. CASE BeginWriteItem(p)
  <2>1. PICK i \in workload.items, op \in {"updateItem", "removeItem"} :
          Begin(p, [op |-> op, item |-> i], "write")
    BY <1>3 DEF BeginWriteItem
  <2>2. [op |-> op, item |-> i] \in Calls /\ Writable
    BY <1>0, <1>3, SmallCalls DEF BeginWriteItem
  <2> QED
    BY <2>1, <2>2
<1>4. CASE BeginSubmit(p)
  BY <1>4, SmallCalls DEF BeginSubmit
<1>5. CASE BeginRemove(p)
  <2>1. PICK admin \in BOOLEAN : Begin(p, [op |-> "remove", admin |-> admin], "write")
    BY <1>5 DEF BeginRemove
  <2> QED
    BY <2>1, SmallCalls
<1> QED
  BY <1>1, <1>2, <1>3, <1>4, <1>5

LEMMA OtherPositions ==
    ASSUME Inv, PositionsInv, UNCHANGED workload, NEW p \in Procs, Step(p),
           ~CommitAdd(p), ~ReadMax(p)
    PROVE  PositionsInv'
<1>0. items \in [Items -> Rows]
  BY DEF Inv, Shape
<1>1. CASE \/ BeginUpdate(p) \/ BeginAdd(p) \/ BeginWriteItem(p) \/ BeginSubmit(p)
           \/ BeginRemove(p)
  <2>1. \E c \in Calls, step \in {"max", "write"} :
            Begin(p, c, step) /\ (step = "write" => c.op # "addActivity")
    BY <1>1, BegunCalls
  <2>2. UNCHANGED items
    BY <2>1 DEF Begin, Report
  <2> QED
    BY <2>1, <2>2, OthersHold, KeepPositions DEF Activities
<1>2. CASE CommitUpdate(p) \/ WriteAudit(p) \/ Abort(p)
  <2>1. Finish(p) /\ UNCHANGED items
    BY <1>2 DEF CommitUpdate, WriteAudit, Abort, Report
  <2> QED
    BY <2>1, OthersHold, KeepPositions DEF Activities
<1>3. CASE CommitUpdateItem(p)
  <2>1. Finish(p) /\ items' = [items EXCEPT ![call[p].item].text = 1 - @]
    BY <1>3 DEF CommitUpdateItem
  <2>2. \A i \in Items : items'[i].kind = items[i].kind /\ items'[i].position = items[i].position
    BY <1>0, <2>1 DEF Rows
  <2>3. \A i \in Activities' : i \in Activities /\ items'[i].position = items[i].position
    BY <2>2 DEF Activities
  <2> QED
    BY <2>1, <2>3, OthersHold, KeepPositions
<1>4. CASE CommitRemoveItem(p)
  <2>1. Finish(p) /\ items' = [items EXCEPT ![call[p].item] = NoItem]
    BY <1>4 DEF CommitRemoveItem
  <2>2. \A i \in Activities' : i \in Activities /\ items'[i].position = items[i].position
    BY <1>0, <2>1 DEF Activities, NoItem
  <2> QED
    BY <2>1, <2>2, OthersHold, KeepPositions
<1>5. CASE CommitSubmit(p)
  <2>1. UNCHANGED <<items, call, seen>> /\ pc' = [pc EXCEPT ![p] = "audit"]
    BY <1>5 DEF CommitSubmit, Audited
  <2>2. \A q \in Procs : At(q, "write", "addActivity")' =>
            At(q, "write", "addActivity") /\ seen'[q] = seen[q]
    BY <2>1 DEF At, Inv, Shape
  <2> QED
    BY <2>1, <2>2, KeepPositions DEF Activities
<1>6. CASE CommitRemove(p)
  <2>1. items' = [i \in Items |-> NoItem] /\ UNCHANGED <<call, seen>>
        /\ pc' = [pc EXCEPT ![p] = "audit"]
    BY <1>6 DEF CommitRemove, Audited
  <2>2. \A q \in Procs : At(q, "write", "addActivity")' =>
            At(q, "write", "addActivity") /\ seen'[q] = seen[q]
    BY <2>1 DEF At, Inv, Shape
  <2>3. \A i \in Activities' : FALSE
    BY <2>1 DEF Activities, NoItem
  <2> QED
    BY <2>2, <2>3, KeepPositions
<1> QED
  BY <1>1, <1>2, <1>3, <1>4, <1>5, <1>6 DEF Step

(* One call at a time, the positions of the activities never repeat        *)
(* (createActivity: _max of position, then the row).                       *)
THEOREM PositionsNeverRepeat == Spec => []PositionsDistinct
<1>1. Init => PositionsInv
  BY DEF Init, PositionsInv, PositionsDistinct, MaximaHold, Activities, NoItem, At
<1>2. Inv /\ PositionsInv /\ [Next]_vars => PositionsInv'
  <2> SUFFICES ASSUME Inv, PositionsInv, [Next]_vars PROVE PositionsInv'
    OBVIOUS
  <2>1. CASE UNCHANGED vars
    BY <2>1 DEF vars, PositionsInv, PositionsDistinct, MaximaHold, Alone, Activities, At
  <2>2. ASSUME UNCHANGED workload, NEW p \in Procs, Step(p) PROVE PositionsInv'
    BY <2>2, AddPositions, ReadPositions, OtherPositions
  <2> QED
    BY <2>1, <2>2 DEF Next
<1>3. PositionsInv => PositionsDistinct
  BY DEF PositionsInv
<1> QED
  BY <1>1, <1>2, <1>3, SpecInv, PTL DEF Spec
-----------------------------------------------------------------------------
(***************************************************************************)
(* The photos and videos of a report.                                      *)
(*                                                                         *)
(* No row points to an object that is not there, and no upload that failed *)
(* leaves an object, for any number of requests and uploads, wherever the  *)
(* process ends.                                                           *)
(*                                                                         *)
(* Uploads have objects of their own, so that what a request removes from  *)
(* the storage belongs to uploads that have ended, and what an upload has  *)
(* written stays until its row is there.                                   *)
(***************************************************************************)
Uploading(p) == at[p] \in {"file", "thumbnail", "row"}
Own(m) == {Original(m), Thumbnail(m)}

(* Every row points to the objects of its upload, which has started.       *)
RowsOwn == \A m \in MediaIds : rows[m] \subseteq Own(m) /\ (m \notin used => rows[m] = {})

(* An upload is in one request's hands, which knows what it has written.   *)
InHand ==
    \A p \in Requests : Uploading(p) => \E m \in used :
        /\ media[p] = {m} /\ rows[m] = {}
        /\ keys[p] \subseteq Own(m) \cap files
        /\ at[p] = "file" => keys[p] = {}
        /\ \A q \in Requests : Uploading(q) /\ q # p => m \notin media[q]

(* Other requests have objects of uploads that have ended.                 *)
Ended ==
    \A p \in Requests : ~Uploading(p) => \A key \in keys[p] :
        /\ key[1] \in used
        /\ \A q \in Requests : Uploading(q) => key[1] \notin media[q]

EmptyHanded == \A p \in Requests : at[p] \in {"idle", "find"} => keys[p] = {}

(* A deletion is of one row.                                               *)
OneAsked == \A p \in Requests : at[p] = "find" => \E m \in MediaIds : media[p] = {m}

(* A row that is to be deleted is as it was when it was found, or gone.    *)
Found ==
    \A p \in Requests : at[p] = "delete" => \E m \in used :
        /\ media[p] = {m} /\ keys[p] \subseteq Own(m) /\ rows[m] \in {keys[p], {}}
        /\ \A q \in Requests : Uploading(q) => m \notin media[q]

(* What is being removed has no row.                                       *)
Unreferenced ==
    \A p \in Requests : at[p] = "clean" => \A m \in MediaIds : keys[p] \cap rows[m] = {}

HeldBy(p) == IF Uploading(p) \/ at[p] = "clean" THEN keys[p] ELSE {}

(* Whatever is in the storage has a row, is in hand, or was lost.          *)
Accounted ==
    report # "GONE" => \A key \in files :
        \/ key \in lost
        \/ \E m \in MediaIds : key \in rows[m]
        \/ \E p \in Requests : key \in HeldBy(p)

Referencing == \A m \in MediaIds : rows[m] \subseteq files

MediaInv ==
    /\ MediaTypeOK /\ RowsOwn /\ InHand /\ Ended /\ EmptyHanded /\ OneAsked /\ Found
    /\ Unreferenced /\ Accounted /\ Referencing
-----------------------------------------------------------------------------
LEMMA OwnKeys ==
    \A m \in MediaIds :
        /\ Own(m) \subseteq Keys
        /\ \A key \in Own(m) : key[1] = m
        /\ \A n \in MediaIds : n # m => Own(m) \cap Own(n) = {}
BY DEF Own, Original, Thumbnail, Keys

LEMMA MediaTypeStep == MediaTypeOK /\ [MediaNext]_mediaVars => MediaTypeOK'
<1> SUFFICES ASSUME MediaTypeOK, [MediaNext]_mediaVars PROVE MediaTypeOK'
  OBVIOUS
<1>1. CASE Submit /\ UNCHANGED lost
  BY <1>1 DEF Submit, MediaTypeOK
<1>2. ASSUME NEW p \in Requests, MediaStep(p), UNCHANGED lost PROVE MediaTypeOK'
  <2>1. CASE BeginUpload(p) \/ BeginRemoveMedia(p)
    BY <1>2, <2>1 DEF BeginUpload, BeginRemoveMedia, Goto, MediaTypeOK
  <2>2. CASE SaveFile(p) \/ SaveThumbnail(p)
    <3>1. \A m \in media[p] : m \in MediaIds /\ Original(m) \in Keys /\ Thumbnail(m) \in Keys
      BY DEF MediaTypeOK, Original, Thumbnail, Keys
    <3> QED
      BY <1>2, <2>2, <3>1 DEF SaveFile, SaveThumbnail, Save, Goto, MediaTypeOK
  <2>3. CASE FailThumbnail(p) \/ FailRow(p)
    BY <1>2, <2>3 DEF FailThumbnail, FailRow, Clean, Goto, MediaTypeOK
  <2>4. CASE CreateRow(p) \/ Cleaned(p) \/ Refuse(p)
    BY <1>2, <2>4 DEF CreateRow, Cleaned, Refuse, Done, Goto, MediaTypeOK
  <2>5. CASE FindMedia(p)
    BY <1>2, <2>5 DEF FindMedia, Goto, MediaTypeOK
  <2>6. CASE DeleteRow(p) \/ DropReport(p)
    BY <1>2, <2>6 DEF DeleteRow, DropReport, Clean, Goto, MediaTypeOK
  <2>7. CASE BeginRemoveReport(p)
    <3>1. Referenced \in SUBSET Keys
      BY DEF Referenced, MediaTypeOK
    <3> QED
      BY <1>2, <2>7, <3>1 DEF BeginRemoveReport, Goto, MediaTypeOK
  <2> QED
    BY <1>2, <2>1, <2>2, <2>3, <2>4, <2>5, <2>6, <2>7 DEF MediaStep
<1>3. ASSUME NEW p \in Requests, RemoveObject(p) \/ Crash(p) PROVE MediaTypeOK'
  BY <1>3 DEF RemoveObject, Crash, Done, Goto, MediaTypeOK
<1>4. CASE UNCHANGED mediaVars
  BY <1>4 DEF mediaVars, MediaTypeOK
<1> QED
  BY <1>1, <1>2, <1>3, <1>4 DEF MediaNext

(* Every variable keeps its shape.                                         *)
THEOREM MediaTypeCorrect == MediaSpec => []MediaTypeOK
<1>1. MediaInit => MediaTypeOK
  BY DEF MediaInit, MediaTypeOK
<1> QED
  BY <1>1, MediaTypeStep, PTL DEF MediaSpec
-----------------------------------------------------------------------------
(* A step of the request p leaves the others where they are.               *)
Apart(p) == \A q \in Requests \ {p} : at'[q] = at[q] /\ media'[q] = media[q] /\ keys'[q] = keys[q]

LEMMA UploadBegins ==
    ASSUME MediaInv, NEW p \in Requests, BeginUpload(p), UNCHANGED lost
    PROVE  MediaInv'
<1>1. PICK m \in MediaIds \ used :
        /\ media' = [media EXCEPT ![p] = {m}] /\ used' = used \cup {m}
        /\ at[p] = "idle" /\ at' = [at EXCEPT ![p] = "file"]
        /\ UNCHANGED <<report, rows, files, keys, lost>>
  BY DEF BeginUpload, Doing, Goto
<1>2. Apart(p) /\ at'[p] = "file" /\ media'[p] = {m}
  BY <1>1 DEF Apart, MediaInv, MediaTypeOK
<1>3. MediaTypeOK'
  BY MediaTypeStep DEF MediaInv, MediaNext, MediaStep
<1>4. \A q \in Requests : Uploading(q) => m \notin media[q]
  BY DEF MediaInv, InHand
<1>5. RowsOwn' /\ EmptyHanded' /\ OneAsked' /\ Found' /\ Unreferenced' /\ Referencing'
  BY <1>1, <1>2, <1>4
     DEF MediaInv, RowsOwn, EmptyHanded, OneAsked, Found, Unreferenced, Referencing, Uploading, Apart
<1>6. Ended'
  BY <1>1, <1>2, <1>4 DEF MediaInv, Ended, Uploading, Apart
<1>7. InHand'
  BY <1>1, <1>2, <1>4 DEF MediaInv, InHand, RowsOwn, EmptyHanded, Uploading, Apart
<1>8. Accounted'
  <2>1. \A q \in Requests : HeldBy(q) \subseteq HeldBy(q)'
    BY <1>1, <1>2 DEF MediaInv, EmptyHanded, HeldBy, Uploading, Apart
  <2> QED
    BY <1>1, <2>1 DEF MediaInv, Accounted
<1> QED
  BY <1>3, <1>5, <1>6, <1>7, <1>8 DEF MediaInv

(* An upload writes an object of its own.                                  *)
LEMMA UploadWrites ==
    ASSUME MediaInv, NEW p \in Requests, SaveFile(p) \/ SaveThumbnail(p), UNCHANGED lost
    PROVE  MediaInv'
<1>0. Uploading(p)
  BY DEF SaveFile, SaveThumbnail, Doing, Uploading
<1>1. PICK m \in used : /\ media[p] = {m} /\ rows[m] = {} /\ keys[p] \subseteq Own(m) \cap files
                        /\ \A q \in Requests : Uploading(q) /\ q # p => m \notin media[q]
  BY <1>0 DEF MediaInv, InHand
<1>2. PICK key \in Own(m) :
        /\ files' = files \cup {key} /\ keys' = [keys EXCEPT ![p] = @ \cup {key}]
        /\ UNCHANGED <<report, rows, used, media, lost>>
        /\ at' \in {[at EXCEPT ![p] = "thumbnail"], [at EXCEPT ![p] = "row"]}
  BY <1>1 DEF SaveFile, SaveThumbnail, Save, Goto, Own
<1>3. /\ Apart(p) /\ at'[p] \in {"thumbnail", "row"} /\ keys'[p] = keys[p] \cup {key}
      /\ media'[p] = {m}
  BY <1>1, <1>2 DEF Apart, MediaInv, MediaTypeOK
<1>4. MediaTypeOK'
  BY MediaTypeStep DEF MediaInv, MediaNext, MediaStep
<1>5. \A q \in Requests : Uploading(q)' <=> Uploading(q)
  BY <1>0, <1>3 DEF Uploading, Apart
<1>6. RowsOwn' /\ EmptyHanded' /\ OneAsked' /\ Referencing'
  BY <1>2, <1>3 DEF MediaInv, RowsOwn, EmptyHanded, OneAsked, Referencing, Apart
<1>7. InHand'
  BY <1>0, <1>1, <1>2, <1>3, <1>5 DEF MediaInv, InHand, Apart
<1>8. Ended' /\ Found' /\ Unreferenced'
  BY <1>2, <1>3, <1>5 DEF MediaInv, Ended, Found, Unreferenced, Apart, Uploading
<1>9. Accounted'
  <2>1. key \in HeldBy(p)' /\ \A q \in Requests : HeldBy(q) \subseteq HeldBy(q)'
    BY <1>0, <1>3, <1>5 DEF HeldBy, Uploading, Apart
  <2> QED
    BY <1>2, <2>1 DEF MediaInv, Accounted
<1> QED
  BY <1>4, <1>6, <1>7, <1>8, <1>9 DEF MediaInv

(* The row takes the objects over.                                         *)
LEMMA RowIsCreated ==
    ASSUME MediaInv, NEW p \in Requests, CreateRow(p), UNCHANGED lost
    PROVE  MediaInv'
<1>0. Uploading(p)
  BY DEF CreateRow, Doing, Uploading
<1>1. PICK m \in used : /\ media[p] = {m} /\ rows[m] = {} /\ keys[p] \subseteq Own(m) \cap files
                        /\ \A q \in Requests : Uploading(q) /\ q # p => m \notin media[q]
  BY <1>0 DEF MediaInv, InHand
<1>2. m \in MediaIds
  BY <1>1 DEF MediaInv, MediaTypeOK
<1>3. /\ rows' = [rows EXCEPT ![m] = keys[p]]
      /\ UNCHANGED <<report, files, used, lost>>
  BY <1>1 DEF CreateRow
<1>4. /\ Apart(p) /\ at'[p] = "idle" /\ keys'[p] = {} /\ media'[p] = {}
      /\ rows'[m] = keys[p] /\ \A n \in MediaIds \ {m} : rows'[n] = rows[n]
  BY <1>2, <1>3 DEF CreateRow, Done, Goto, Apart, MediaInv, MediaTypeOK
<1>5. MediaTypeOK'
  BY MediaTypeStep DEF MediaInv, MediaNext, MediaStep
<1>6. \A q \in Requests : Uploading(q)' <=> Uploading(q) /\ q # p
  BY <1>4 DEF Uploading, Apart
<1>7. RowsOwn' /\ EmptyHanded' /\ OneAsked' /\ Referencing'
  BY <1>1, <1>3, <1>4 DEF MediaInv, RowsOwn, EmptyHanded, OneAsked, Referencing, Apart
<1>8. InHand'
  BY <1>1, <1>3, <1>4, <1>6 DEF MediaInv, InHand, MediaTypeOK, Apart
<1>9. Ended'
  BY <1>3, <1>4, <1>6 DEF MediaInv, Ended, Apart
<1>10. Found'
  <2> SUFFICES ASSUME NEW q \in Requests, at'[q] = "delete"
               PROVE  \E n \in used' :
                        /\ media'[q] = {n} /\ keys'[q] \subseteq Own(n) /\ rows'[n] \in {keys'[q], {}}
                        /\ \A r \in Requests : Uploading(r)' => n \notin media'[r]
    BY DEF Found
  <2>1. q # p
    BY <1>4
  <2>2. PICK n \in used : /\ media[q] = {n} /\ keys[q] \subseteq Own(n) /\ rows[n] \in {keys[q], {}}
                          /\ \A r \in Requests : Uploading(r) => n \notin media[r]
    BY <1>4, <2>1 DEF MediaInv, Found, Apart
  <2>3. n # m /\ n \in MediaIds
    BY <1>0, <1>1, <2>2 DEF MediaInv, MediaTypeOK
  <2> QED
    BY <1>3, <1>4, <1>6, <2>1, <2>2, <2>3 DEF Apart
<1>11. Unreferenced'
  <2> SUFFICES ASSUME NEW q \in Requests, at'[q] = "clean", NEW n \in MediaIds
               PROVE  keys'[q] \cap rows'[n] = {}
    BY DEF Unreferenced
  <2>1. q # p /\ at[q] = "clean" /\ keys'[q] = keys[q] /\ ~Uploading(q)
    BY <1>4 DEF Apart, Uploading
  <2>2. CASE n # m
    BY <1>4, <2>1, <2>2 DEF MediaInv, Unreferenced
  <2>3. CASE n = m
    <3>1. \A key \in keys[q] : key[1] # m
      BY <1>0, <1>1, <2>1 DEF MediaInv, Ended
    <3>2. \A key \in keys[p] : key[1] = m
      BY <1>1, <1>2, OwnKeys
    <3> QED
      BY <1>4, <2>1, <2>3, <3>1, <3>2
  <2> QED
    BY <2>2, <2>3
<1>12. Accounted'
  <2>1. \A q \in Requests \ {p} : HeldBy(q)' = HeldBy(q)
    BY <1>4 DEF HeldBy, Uploading, Apart
  <2>2. HeldBy(p) = rows'[m] /\ \A n \in MediaIds : rows[n] \subseteq rows'[n]
    BY <1>0, <1>1, <1>4 DEF HeldBy
  <2> QED
    BY <1>2, <1>3, <2>1, <2>2 DEF MediaInv, Accounted
<1> QED
  BY <1>5, <1>7, <1>8, <1>9, <1>10, <1>11, <1>12 DEF MediaInv

(* An upload that fails goes to remove what it has written.                *)
LEMMA UploadFails ==
    ASSUME MediaInv, NEW p \in Requests, FailThumbnail(p) \/ FailRow(p), UNCHANGED lost
    PROVE  MediaInv'
<1>0. Uploading(p)
  BY DEF FailThumbnail, FailRow, Doing, Uploading
<1>1. PICK m \in used : /\ media[p] = {m} /\ rows[m] = {} /\ keys[p] \subseteq Own(m) \cap files
                        /\ \A q \in Requests : Uploading(q) /\ q # p => m \notin media[q]
  BY <1>0 DEF MediaInv, InHand
<1>2. m \in MediaIds
  BY <1>1 DEF MediaInv, MediaTypeOK
<1>3. UNCHANGED <<report, rows, files, used, lost, media, keys>> /\ Apart(p) /\ at'[p] = "clean"
  BY DEF FailThumbnail, FailRow, Clean, Goto, Apart, MediaInv, MediaTypeOK
<1>4. MediaTypeOK'
  BY MediaTypeStep DEF MediaInv, MediaNext, MediaStep
<1>5. \A q \in Requests : Uploading(q)' <=> Uploading(q) /\ q # p
  BY <1>3 DEF Uploading, Apart
<1>6. RowsOwn' /\ EmptyHanded' /\ OneAsked' /\ Referencing'
  BY <1>3 DEF MediaInv, RowsOwn, EmptyHanded, OneAsked, Referencing, Apart
<1>7. InHand' /\ Found'
  BY <1>3, <1>5 DEF MediaInv, InHand, Found, Apart
<1>8. Ended'
  <2>1. \A key \in keys[p] : key[1] = m
    BY <1>1, <1>2, OwnKeys
  <2> QED
    BY <1>1, <1>3, <1>5, <2>1 DEF MediaInv, Ended, Apart
<1>9. Unreferenced'
  <2>1. \A n \in MediaIds : keys[p] \cap rows[n] = {}
    BY <1>1, <1>2, OwnKeys DEF MediaInv, RowsOwn
  <2> QED
    BY <1>3, <2>1 DEF MediaInv, Unreferenced, Apart
<1>10. Accounted'
  <2>1. \A q \in Requests : HeldBy(q)' = HeldBy(q)
    BY <1>0, <1>3 DEF HeldBy, Uploading, Apart
  <2> QED
    BY <1>3, <2>1 DEF MediaInv, Accounted
<1> QED
  BY <1>4, <1>6, <1>7, <1>8, <1>9, <1>10 DEF MediaInv
-----------------------------------------------------------------------------
(* A request that is not an upload, or no longer one, moves on while rows  *)
(* and storage stay: what it has in hand then is of uploads that ended.    *)
LEMMA MovesOn ==
    ASSUME MediaInv, MediaTypeOK', NEW p \in Requests, Apart(p), ~Uploading(p)',
           UNCHANGED <<report, rows, files, used>>, lost \subseteq lost',
           HeldBy(p) \subseteq HeldBy(p)' \cup lost',
           at'[p] \in {"idle", "find"} => keys'[p] = {},
           at'[p] = "find" => \E m \in MediaIds : media'[p] = {m},
           \A key \in keys'[p] : /\ key[1] \in used
                                 /\ \A q \in Requests : Uploading(q) => key[1] \notin media[q],
           at'[p] = "clean" => keys'[p] = {},
           at'[p] = "delete" => \E m \in used :
               /\ media'[p] = {m} /\ keys'[p] \subseteq Own(m) /\ rows[m] \in {keys'[p], {}}
               /\ \A q \in Requests : Uploading(q) => m \notin media[q]
    PROVE  MediaInv'
<1>1. \A q \in Requests : Uploading(q)' => Uploading(q) /\ q # p
  BY DEF Uploading, Apart
<1>2. RowsOwn' /\ EmptyHanded' /\ OneAsked' /\ Referencing'
  BY DEF MediaInv, RowsOwn, EmptyHanded, OneAsked, Referencing, Apart
<1>3. InHand'
  BY <1>1 DEF MediaInv, InHand, Apart
<1>4. Ended'
  BY <1>1 DEF MediaInv, Ended, Apart, Uploading
<1>5. Found'
  BY <1>1 DEF MediaInv, Found, Apart
<1>6. Unreferenced'
  BY DEF MediaInv, Unreferenced, Apart
<1>7. Accounted'
  <2>1. \A q \in Requests \ {p} : HeldBy(q)' = HeldBy(q)
    BY DEF HeldBy, Uploading, Apart
  <2> QED
    BY <2>1 DEF MediaInv, Accounted
<1> QED
  BY <1>2, <1>3, <1>4, <1>5, <1>6, <1>7 DEF MediaInv

LEMMA RemovalBegins ==
    ASSUME MediaInv, NEW p \in Requests, BeginRemoveMedia(p) \/ BeginRemoveReport(p), UNCHANGED lost
    PROVE  MediaInv'
<1>1. /\ Apart(p) /\ ~Uploading(p)' /\ UNCHANGED <<report, rows, files, used>> /\ HeldBy(p) = {}
      /\ at'[p] \in {"find", "dropDraft", "dropAny"}
      /\ keys'[p] \in {keys[p], Referenced} /\ at[p] = "idle"
      /\ at'[p] = "find" => keys'[p] = keys[p] /\ \E m \in MediaIds : media'[p] = {m}
  BY DEF BeginRemoveMedia, BeginRemoveReport, Doing, Goto, Apart, Uploading, HeldBy, MediaInv, MediaTypeOK
<1>2. keys[p] = {}
  BY <1>1 DEF MediaInv, EmptyHanded
<1>3. ASSUME NEW key \in keys'[p]
      PROVE  key[1] \in used /\ \A q \in Requests : Uploading(q) => key[1] \notin media[q]
  <2>1. PICK m \in MediaIds : key \in rows[m]
    BY <1>1, <1>2, <1>3 DEF Referenced
  <2>2. key[1] = m /\ m \in used
    BY <2>1, OwnKeys DEF MediaInv, RowsOwn
  <2> QED
    BY <2>1, <2>2 DEF MediaInv, InHand
<1>4. MediaTypeOK'
  BY MediaTypeStep DEF MediaInv, MediaNext, MediaStep
<1> QED
  BY <1>1, <1>2, <1>3, <1>4, MovesOn

LEMMA RowIsFound ==
    ASSUME MediaInv, NEW p \in Requests, FindMedia(p), UNCHANGED lost
    PROVE  MediaInv'
<1>1. PICK m \in MediaIds : m \in media[p] /\ keys' = [keys EXCEPT ![p] = rows[m]]
  BY DEF FindMedia, MediaInv, MediaTypeOK
<1>2. rows[m] # {}
  BY <1>1 DEF FindMedia, WithRow
<1>3. m \in used /\ rows[m] \subseteq Own(m)
  BY <1>2 DEF MediaInv, RowsOwn
<1>4. \A q \in Requests : Uploading(q) => m \notin media[q]
  BY <1>2 DEF MediaInv, InHand
<1>5. \A key \in rows[m] : key[1] = m
  BY <1>3, OwnKeys
<1>6. /\ Apart(p) /\ ~Uploading(p)' /\ UNCHANGED <<report, rows, files, used>> /\ HeldBy(p) = {}
      /\ at'[p] = "delete" /\ keys'[p] = rows[m] /\ media'[p] = media[p]
  BY <1>1 DEF FindMedia, Doing, Goto, Apart, Uploading, HeldBy, MediaInv, MediaTypeOK
<1>7. MediaTypeOK'
  BY MediaTypeStep DEF MediaInv, MediaNext, MediaStep
<1>8. media[p] = {m}
  BY <1>1 DEF MediaInv, OneAsked, FindMedia, Doing
<1> QED
  BY <1>3, <1>4, <1>5, <1>6, <1>7, <1>8, MovesOn

(* A request ends without objects of an upload that it would have to       *)
(* remove; or the process ends, and loses them.                            *)
LEMMA RequestEnds ==
    ASSUME MediaInv, NEW p \in Requests,
           ((Cleaned(p) \/ Refuse(p)) /\ UNCHANGED lost) \/ Crash(p)
    PROVE  MediaInv'
<1>1. /\ Apart(p) /\ at'[p] = "idle" /\ keys'[p] = {} /\ ~Uploading(p)'
      /\ UNCHANGED <<report, rows, files, used>>
  BY DEF Cleaned, Refuse, Crash, Done, Goto, Apart, Uploading, MediaInv, MediaTypeOK
<1>2. HeldBy(p) \subseteq lost' /\ lost \subseteq lost'
  BY DEF Cleaned, Refuse, Crash, HeldBy, Uploading, Doing, MediaInv, InHand
<1>3. MediaTypeOK'
  BY MediaTypeStep DEF MediaInv, MediaNext, MediaStep
<1> QED
  BY <1>1, <1>2, <1>3, MovesOn

(* The row goes first; what it pointed to is to be removed.                *)
LEMMA RowGoes ==
    ASSUME MediaInv, NEW p \in Requests, DeleteRow(p), UNCHANGED lost
    PROVE  MediaInv'
<1>1. PICK m \in used : /\ media[p] = {m} /\ keys[p] \subseteq Own(m) /\ rows[m] \in {keys[p], {}}
                        /\ \A q \in Requests : Uploading(q) => m \notin media[q]
  BY DEF DeleteRow, Doing, MediaInv, Found
<1>2. m \in MediaIds /\ rows[m] = keys[p]
  BY <1>1 DEF DeleteRow, WithRow, MediaInv, MediaTypeOK
<1>3. /\ rows' = [rows EXCEPT ![m] = {}]
      /\ UNCHANGED <<report, files, used, lost, media, keys>>
      /\ Apart(p) /\ at'[p] = "clean" /\ ~Uploading(p)
  BY <1>1 DEF DeleteRow, Clean, Doing, Goto, Apart, Uploading, MediaInv, MediaTypeOK
<1>4. rows'[m] = {} /\ \A n \in MediaIds \ {m} : rows'[n] = rows[n]
  BY <1>2, <1>3 DEF MediaInv, MediaTypeOK
<1>5. MediaTypeOK'
  BY MediaTypeStep DEF MediaInv, MediaNext, MediaStep
<1>6. \A q \in Requests : Uploading(q)' <=> Uploading(q)
  BY <1>3 DEF Uploading, Apart
<1>7. RowsOwn' /\ EmptyHanded' /\ OneAsked' /\ Referencing'
  BY <1>3, <1>4 DEF MediaInv, RowsOwn, EmptyHanded, OneAsked, Referencing, Apart
<1>8. InHand' /\ Ended'
  <2>1. InHand'
    BY <1>3, <1>4, <1>6 DEF MediaInv, InHand, MediaTypeOK, Apart
  <2>2. ASSUME NEW q \in Requests, ~Uploading(q)', NEW key \in keys'[q]
        PROVE  key[1] \in used' /\ \A r \in Requests : Uploading(r)' => key[1] \notin media'[r]
    <3>1. CASE q = p
      BY <1>1, <1>3, <1>6, <2>2, <3>1, OwnKeys DEF Own, Original, Thumbnail
    <3>2. CASE q # p
      BY <1>3, <1>6, <2>2, <3>2 DEF MediaInv, Ended, Apart
    <3> QED
      BY <3>1, <3>2
  <2> QED
    BY <2>1, <2>2 DEF Ended
<1>9. Found'
  BY <1>3, <1>4, <1>6 DEF MediaInv, Found, MediaTypeOK, Apart
<1>10. Unreferenced'
  <2>1. \A n \in MediaIds : keys[p] \cap rows'[n] = {}
    BY <1>1, <1>2, <1>4, OwnKeys DEF MediaInv, RowsOwn
  <2>2. \A n \in MediaIds : rows'[n] \subseteq rows[n]
    BY <1>4
  <2> QED
    BY <1>3, <2>1, <2>2 DEF MediaInv, Unreferenced, Apart
<1>11. Accounted'
  <2>1. \A q \in Requests : HeldBy(q) \subseteq HeldBy(q)'
    BY <1>3 DEF HeldBy, Uploading, Apart
  <2>2. HeldBy(p)' = rows[m]
    BY <1>2, <1>3 DEF HeldBy
  <2> QED
    BY <1>3, <1>4, <2>1, <2>2 DEF MediaInv, Accounted
<1> QED
  BY <1>5, <1>7, <1>8, <1>9, <1>10, <1>11 DEF MediaInv

(* The report goes, and every row with it.                                 *)
LEMMA ReportGoes ==
    ASSUME MediaInv, NEW p \in Requests, DropReport(p), UNCHANGED lost
    PROVE  MediaInv'
<1>1. /\ report' = "GONE" /\ rows' = [m \in MediaIds |-> {}]
      /\ UNCHANGED <<files, used, lost, media, keys>>
      /\ Apart(p) /\ at'[p] = "clean" /\ ~Uploading(p)
  BY DEF DropReport, Clean, Doing, Goto, Apart, Uploading, MediaInv, MediaTypeOK
<1>2. \A m \in MediaIds : rows'[m] = {}
  BY <1>1
<1>3. MediaTypeOK'
  BY MediaTypeStep DEF MediaInv, MediaNext, MediaStep
<1>4. \A q \in Requests : Uploading(q)' <=> Uploading(q)
  BY <1>1 DEF Uploading, Apart
<1>5. RowsOwn' /\ EmptyHanded' /\ OneAsked' /\ Referencing' /\ Unreferenced' /\ Accounted'
  BY <1>1, <1>2 DEF MediaInv, RowsOwn, EmptyHanded, OneAsked, Referencing, Unreferenced, Accounted, Apart
<1>6. InHand' /\ Ended' /\ Found'
  BY <1>1, <1>2, <1>4 DEF MediaInv, InHand, Ended, Found, MediaTypeOK, Apart
<1> QED
  BY <1>3, <1>5, <1>6 DEF MediaInv

LEMMA ObjectGoes ==
    ASSUME MediaInv, NEW p \in Requests, RemoveObject(p)
    PROVE  MediaInv'
<1>1. PICK key \in keys[p] :
        /\ keys' = [keys EXCEPT ![p] = @ \ {key}]
        /\ files \ {key} \subseteq files' /\ files' \subseteq files
        /\ lost \subseteq lost' /\ (key \in files' => key \in lost')
        /\ UNCHANGED <<report, rows, used, at, media>> /\ at[p] = "clean"
  BY DEF RemoveObject, Doing
<1>2. /\ keys'[p] = keys[p] \ {key} /\ \A q \in Requests \ {p} : keys'[q] = keys[q]
      /\ ~Uploading(p)
  BY <1>1 DEF MediaInv, MediaTypeOK, Uploading
<1>3. MediaTypeOK'
  BY MediaTypeStep DEF MediaInv, MediaNext
<1>4. \A m \in MediaIds : key \notin rows[m]
  BY <1>1 DEF MediaInv, Unreferenced
<1>5. \A q \in Requests : Uploading(q)' <=> Uploading(q)
  BY <1>1 DEF Uploading
<1>6. RowsOwn' /\ EmptyHanded' /\ OneAsked' /\ Referencing' /\ Unreferenced'
  BY <1>1, <1>2, <1>4 DEF MediaInv, RowsOwn, EmptyHanded, OneAsked, Referencing, Unreferenced
<1>7. InHand'
  <2> SUFFICES ASSUME NEW q \in Requests, Uploading(q)'
               PROVE  \E m \in used' :
                        /\ media'[q] = {m} /\ rows'[m] = {}
                        /\ keys'[q] \subseteq Own(m) \cap files'
                        /\ at'[q] = "file" => keys'[q] = {}
                        /\ \A r \in Requests : Uploading(r)' /\ r # q => m \notin media'[r]
    BY DEF InHand
  <2>1. PICK m \in used : /\ media[q] = {m} /\ rows[m] = {} /\ keys[q] \subseteq Own(m) \cap files
                          /\ at[q] = "file" => keys[q] = {}
                          /\ \A r \in Requests : Uploading(r) /\ r # q => m \notin media[r]
    BY <1>5 DEF MediaInv, InHand
  <2>2. key \notin Own(m)
    <3>1. key[1] # m
      BY <1>1, <1>2, <1>5, <2>1 DEF MediaInv, Ended
    <3>2. m \in MediaIds
      BY <2>1 DEF MediaInv, MediaTypeOK
    <3> QED
      BY <3>1, <3>2, OwnKeys
  <2>3. q # p /\ keys'[q] = keys[q]
    BY <1>2, <1>5
  <2> QED
    BY <1>1, <1>5, <2>1, <2>2, <2>3
<1>8. Ended' /\ Found'
  BY <1>1, <1>2, <1>5 DEF MediaInv, Ended, Found
<1>9. Accounted'
  <2>1. \A q \in Requests : HeldBy(q) \subseteq HeldBy(q)' \cup {key}
    BY <1>1, <1>2 DEF HeldBy, Uploading
  <2> QED
    BY <1>1, <2>1 DEF MediaInv, Accounted
<1> QED
  BY <1>3, <1>6, <1>7, <1>8, <1>9 DEF MediaInv
-----------------------------------------------------------------------------
LEMMA MediaNextInv == MediaInv /\ [MediaNext]_mediaVars => MediaInv'
<1> SUFFICES ASSUME MediaInv, [MediaNext]_mediaVars PROVE MediaInv'
  OBVIOUS
<1>1. ASSUME NEW p \in Requests, MediaStep(p), UNCHANGED lost PROVE MediaInv'
  BY <1>1, UploadBegins, UploadWrites, RowIsCreated, UploadFails, RemovalBegins, RowIsFound,
     RequestEnds, RowGoes, ReportGoes DEF MediaStep
<1>2. ASSUME NEW p \in Requests, RemoveObject(p) \/ Crash(p) PROVE MediaInv'
  BY <1>2, ObjectGoes, RequestEnds
<1>3. CASE UNCHANGED <<rows, files, used, at, media, keys, lost>> /\ (report' = "GONE" <=> report = "GONE")
  <2>1. MediaTypeOK'
    BY MediaTypeStep DEF MediaInv
  <2> QED
    BY <1>3, <2>1 DEF MediaInv, RowsOwn, InHand, Ended, EmptyHanded, OneAsked, Found, Unreferenced,
       Accounted, Referencing, HeldBy, Uploading
<1> QED
  BY <1>1, <1>2, <1>3 DEF MediaNext, Submit, mediaVars

LEMMA MediaInitInv == MediaInit => MediaInv
BY DEF MediaInit, MediaInv, MediaTypeOK, RowsOwn, InHand, Ended, EmptyHanded, OneAsked, Found, Unreferenced,
   Accounted, Referencing, Uploading

LEMMA MediaSpecInv == MediaSpec => []MediaInv
BY MediaInitInv, MediaNextInv, PTL DEF MediaSpec

(* No row ever points to an object that is not in the storage.             *)
THEOREM NoDanglingRow == MediaSpec => []RowsHaveFiles
<1>1. MediaInv => RowsHaveFiles
  BY DEF MediaInv, Referencing, RowsHaveFiles, Referenced
<1> QED
  BY MediaSpecInv, <1>1, PTL

(* Between requests the storage has nothing without a row, but what a      *)
(* failed removal or the end of the process left.                          *)
THEOREM NothingForgotten == MediaSpec => []NoOrphans
<1>1. MediaInv => NoOrphans
  BY DEF MediaInv, Accounted, NoOrphans, Referenced, HeldBy, Uploading, Doing
<1> QED
  BY MediaSpecInv, <1>1, PTL
-----------------------------------------------------------------------------
(* The numbers of the reports of a site, for any number of calls, reports, *)
(* dates and typed numbers.  The lock makes what a handler read of the     *)
(* numbers still true when it writes; deletions may only have removed      *)
(* rows, and finalising changes no number.                                 *)

(* One report per day, and no number twice in a numbering.                 *)
DatesDistinct == \A q, r \in Existing : DateOf(q) = DateOf(r) => q = r
NoneTwice(numbering) ==
    \A q, r \in Existing : numbering[q] = numbering[r] => q = r

(* What the holder of the lock has read and is about to write.             *)
Holds(p) == stage[p] \in {"read", "write"}

Stages ==
    \A p \in Callers :
        /\ Holds(p) => lock = p
        /\ Serving(p, "write", "create") => \A r \in Existing : NumberOf(r) < known[p].next
        /\ Serving(p, "write", "renumber") =>
               /\ \A r \in Existing : known[p].from[r] = NumberOf(r)
               /\ NoneTwice(known[p].to)

IInv == NumberingTypeOK /\ DatesDistinct /\ NumbersDistinct /\ Stages
-----------------------------------------------------------------------------
LEMMA RowType ==
    ASSUME NumberingTypeOK
    PROVE  \A s \in Existing : DateOf(s) \in Nat /\ NumberOf(s) \in Nat
<1>1. SUFFICES ASSUME NEW s \in Existing
               PROVE  DateOf(s) \in Nat /\ NumberOf(s) \in Nat
  OBVIOUS
<1>2. reports[s] \in ReportRows
  BY DEF NumberingTypeOK, Existing
<1>3. reports[s].number \in Nat /\ reports[s].date \in Dates \cup {0}
  BY <1>2 DEF ReportRows
<1>4. Dates \cup {0} \subseteq Nat
  BY DatesAssumption
<1>5. reports[s].date \in Nat
  BY <1>3, <1>4
<1> QED
  BY <1>3, <1>5 DEF DateOf, NumberOf

(* Two reports that follow the pivot at different dates are at different   *)
(* distances from it.                                                      *)
LEMMA BetweenGrows ==
    ASSUME NumberingTypeOK, NEW pivot \in Existing, NEW q \in Existing, NEW r \in Existing,
           DateOf(pivot) <= DateOf(q), DateOf(q) < DateOf(r)
    PROVE  /\ Cardinality(Between(pivot, q)) \in Nat
           /\ Cardinality(Between(pivot, r)) \in Nat
           /\ Cardinality(Between(pivot, q)) < Cardinality(Between(pivot, r))
<1>1. \A s \in Existing : DateOf(s) \in Nat
  BY RowType
<1>2. IsFiniteSet(Existing)
  <2>1. Existing \in SUBSET ReportIds
    BY DEF Existing
  <2> QED
    BY <2>1, IdsAssumption, FS_Subset
<1>3. Between(pivot, q) \in SUBSET Existing /\ Between(pivot, r) \in SUBSET Existing
  BY DEF Between
<1>4. IsFiniteSet(Between(pivot, q)) /\ IsFiniteSet(Between(pivot, r))
  BY <1>2, <1>3, FS_Subset
<1>5. Between(pivot, q) \in SUBSET Between(pivot, r)
  BY <1>1 DEF Between
<1>6. Between(pivot, q) # Between(pivot, r)
  <2>1. q \in Between(pivot, r)
    BY <1>1 DEF Between
  <2>2. q \notin Between(pivot, q)
    BY <1>1 DEF Between
  <2> QED
    BY <2>1, <2>2
<1>7. /\ Cardinality(Between(pivot, q)) <= Cardinality(Between(pivot, r))
      /\ Cardinality(Between(pivot, q)) # Cardinality(Between(pivot, r))
  BY <1>4, <1>5, <1>6, FS_Subset
<1> QED
  BY <1>4, <1>7, FS_CardinalityType

LEMMA RenumberedType ==
    ASSUME NumberingTypeOK, NEW pivot \in Existing, NEW n \in Nat
    PROVE  Renumbered(pivot, n) \in Numbers
<1> SUFFICES ASSUME NEW q \in ReportIds
             PROVE  Renumbered(pivot, n)[q] \in Nat
  BY DEF Renumbered, Numbers
<1>1. NumberOf(q) \in Nat
  BY DEF NumberingTypeOK, ReportRows, NumberOf
<1>2. Cardinality(Between(pivot, q)) \in Nat
  <2>1. Between(pivot, q) \in SUBSET ReportIds
    BY DEF Between, Existing
  <2> QED
    BY <2>1, IdsAssumption, FS_Subset, FS_CardinalityType
<1> QED
  BY <1>1, <1>2 DEF Renumbered

(* A numbering written from a pivot whose number is above all those before *)
(* it has no number twice.                                                 *)
LEMMA RenumberedDistinct ==
    ASSUME NumberingTypeOK, DatesDistinct, NumbersDistinct,
           NEW pivot \in Existing, NEW n \in Nat,
           \A s \in Existing : DateOf(s) < DateOf(pivot) => NumberOf(s) < n
    PROVE  NoneTwice(Renumbered(pivot, n))
<1> DEFINE to == Renumbered(pivot, n)
           Later(q) == DateOf(pivot) <= DateOf(q)
<1>1. \A s \in Existing : DateOf(s) \in Nat /\ NumberOf(s) \in Nat
  BY RowType
<1>2. \A s \in Existing : /\ Later(s) => to[s] = n + Cardinality(Between(pivot, s))
                          /\ ~Later(s) => to[s] = NumberOf(s)
  BY DEF Renumbered, Existing
<1>3. \A s \in Existing : Cardinality(Between(pivot, s)) \in Nat
  <2>1. \A s \in Existing : Between(pivot, s) \in SUBSET ReportIds
    BY DEF Between, Existing
  <2> QED
    BY <2>1, IdsAssumption, FS_Subset, FS_CardinalityType
<1>4. \A q, r \in Existing : Later(q) /\ DateOf(q) < DateOf(r) => to[q] # to[r]
  <2> SUFFICES ASSUME NEW q \in Existing, NEW r \in Existing, Later(q), DateOf(q) < DateOf(r)
               PROVE  to[q] # to[r]
    OBVIOUS
  <2>1. Cardinality(Between(pivot, q)) < Cardinality(Between(pivot, r))
    BY BetweenGrows
  <2>2. Later(r)
    BY <1>1
  <2> HIDE DEF to
  <2> QED
    BY <1>2, <1>3, <2>1, <2>2
<1>5. \A q, r \in Existing : ~Later(q) /\ Later(r) => to[q] # to[r]
  <2> HIDE DEF to
  <2> QED
    BY <1>1, <1>2, <1>3
<1>6. \A q, r \in Existing : ~Later(q) /\ ~Later(r) /\ to[q] = to[r] => q = r
  <2> HIDE DEF to
  <2> QED
    BY <1>2 DEF NumbersDistinct
<1> HIDE DEF to
<1>7. \A q, r \in Existing : to[q] = to[r] => q = r
  <2> SUFFICES ASSUME NEW q \in Existing, NEW r \in Existing, to[q] = to[r]
               PROVE  q = r
    OBVIOUS
  <2>1. CASE Later(q) /\ Later(r)
    <3>1. ~(DateOf(q) < DateOf(r)) /\ ~(DateOf(r) < DateOf(q))
      BY <1>4, <2>1
    <3>2. DateOf(q) = DateOf(r)
      BY <1>1, <3>1
    <3> QED
      BY <3>2 DEF DatesDistinct
  <2>2. CASE ~Later(q) /\ ~Later(r)
    BY <1>6, <2>2
  <2>3. CASE ~Later(q) /\ Later(r)
    BY <1>5, <2>3
  <2>4. CASE Later(q) /\ ~Later(r)
    BY <1>5, <2>4
  <2> QED
    BY <2>1, <2>2, <2>3, <2>4
<1> QED
  BY <1>7 DEF NoneTwice, to
-----------------------------------------------------------------------------
(* Steps that leave the reports alone keep what is said of the numbers.    *)
LEMMA SameReports ==
    ASSUME IInv, UNCHANGED reports
    PROVE  /\ Existing' = Existing
           /\ \A r \in ReportIds : NumberOf(r)' = NumberOf(r)
           /\ DatesDistinct' /\ NumbersDistinct'
BY DEF IInv, Existing, ReportExists, NumberOf, DateOf, DatesDistinct, NumbersDistinct

LEMMA InitIInv == NumberingInit => IInv
<1> SUFFICES ASSUME NumberingInit PROVE IInv
  OBVIOUS
<1>1. NoReport \in ReportRows
  BY DEF NoReport, ReportRows
<1>2. NothingSeen \in [next: Nat, from: Numbers, to: Numbers, found: BOOLEAN]
  BY DEF NothingSeen, Nothing, Numbers
<1>3. NumberingTypeOK
  BY <1>1, <1>2 DEF NumberingInit, NumberingTypeOK, Asks
<1>4. Existing = {}
  BY DEF NumberingInit, Existing, ReportExists, NoReport
<1>5. Stages
  BY DEF NumberingInit, Stages, Holds, Serving
<1> QED
  BY <1>3, <1>4, <1>5 DEF IInv, DatesDistinct, NumbersDistinct

(* The end of a call: whoever else holds the lock is where it was, and if  *)
(* the call itself held it nobody else did.                                *)
LEMMA FinishStages ==
    ASSUME IInv, NEW p \in Callers, Release(p),
           UNCHANGED reports \/ Holds(p)
    PROVE  Stages'
<1> SUFFICES ASSUME NEW q \in Callers
             PROVE  /\ Holds(q)' => lock' = q
                    /\ Serving(q, "write", "create")' =>
                           (\A r \in Existing : NumberOf(r) < known[q].next)'
                    /\ Serving(q, "write", "renumber")' =>
                           /\ (\A r \in Existing : known[q].from[r] = NumberOf(r))'
                           /\ NoneTwice(known[q].to)'
  BY DEF Stages
<1>1. Stages /\ stage \in [Callers -> {"idle", "lock", "read", "write"}]
      /\ ask \in [Callers -> Asks]
      /\ known \in [Callers -> [next: Nat, from: Numbers, to: Numbers, found: BOOLEAN]]
  BY DEF IInv, NumberingTypeOK
<1>2. CASE q = p
  BY <1>1, <1>2 DEF Release, Holds, Serving
<1>3. CASE q # p
  <2>1. stage'[q] = stage[q] /\ ask'[q] = ask[q] /\ known'[q] = known[q]
    BY <1>1, <1>3 DEF Release
  <2>2. Holds(q) => lock' = q
    BY <1>1, <1>3 DEF Release, Stages
  <2>3. CASE Holds(p)
    <3>1. ~Holds(q)
      BY <1>1, <1>3, <2>3 DEF Stages
    <3> QED
      BY <2>1, <3>1 DEF Holds, Serving
  <2>4. CASE UNCHANGED reports
    BY <1>1, <2>1, <2>2, <2>4, SameReports
       DEF Holds, Serving, Stages, Existing, ReportExists, NumberOf, NoneTwice
  <2> QED
    BY <2>3, <2>4
<1> QED
  BY <1>2, <1>3

LEMMA FinishType ==
    ASSUME IInv, NEW p \in Callers, Release(p), reports' \in [ReportIds -> ReportRows]
    PROVE  NumberingTypeOK'
<1>1. NothingSeen \in [next: Nat, from: Numbers, to: Numbers, found: BOOLEAN]
  BY DEF NothingSeen, Nothing, Numbers
<1>2. NoAsk \in Asks
  BY DEF Asks
<1> QED
  BY <1>1, <1>2 DEF IInv, NumberingTypeOK, Release

LEMMA AbortIInv ==
    ASSUME IInv, NEW p \in Callers, GiveUp(p)
    PROVE  IInv'
<1>1. reports' \in [ReportIds -> ReportRows]
  BY DEF IInv, NumberingTypeOK, GiveUp
<1> QED
  BY <1>1, FinishType, FinishStages, SameReports DEF GiveUp, IInv

LEMMA StartIInv ==
    ASSUME IInv, NEW p \in Callers, NEW c \in Asks, Start(p, c)
    PROVE  IInv'
<1>1. NumberingTypeOK'
  BY DEF IInv, NumberingTypeOK, Start
<1>2. Stages'
  BY SameReports DEF IInv, NumberingTypeOK, Start, Stages, Holds, Serving, Existing, ReportExists,
                     NumberOf, NoneTwice
<1> QED
  BY <1>1, <1>2, SameReports DEF Start, IInv

LEMMA AcquireLockIInv ==
    ASSUME IInv, NEW p \in Callers, AcquireLock(p)
    PROVE  IInv'
<1>1. NumberingTypeOK'
  BY DEF IInv, NumberingTypeOK, AcquireLock
<1>2. \A q \in Callers : ~Holds(q)
  BY FreeAssumption DEF IInv, Stages, AcquireLock
<1>3. Stages'
  BY <1>2, SameReports DEF IInv, NumberingTypeOK, AcquireLock, Stages, Holds, Serving
<1> QED
  BY <1>1, <1>3, SameReports DEF AcquireLock, IInv

(* Under the lock, what is read is what the numbers are.                   *)
LEMMA ReadIInv ==
    ASSUME IInv, NEW p \in Callers, stage[p] = "read",
           NEW what \in [next: Nat, from: Numbers, to: Numbers, found: BOOLEAN],
           Read(p, what),
           ask[p].op = "create" => \A r \in Existing : NumberOf(r) < what.next,
           ask[p].op = "renumber" => /\ \A r \in Existing : what.from[r] = NumberOf(r)
                                     /\ NoneTwice(what.to)
    PROVE  IInv'
<1>1. NumberingTypeOK'
  BY DEF IInv, NumberingTypeOK, Read
<1>2. Stages'
  <2> SUFFICES ASSUME NEW q \in Callers
               PROVE  /\ Holds(q)' => lock' = q
                      /\ Serving(q, "write", "create")' =>
                             (\A r \in Existing : NumberOf(r) < known[q].next)'
                      /\ Serving(q, "write", "renumber")' =>
                             /\ (\A r \in Existing : known[q].from[r] = NumberOf(r))'
                             /\ NoneTwice(known[q].to)'
    BY DEF Stages
  <2>1. Stages /\ stage \in [Callers -> {"idle", "lock", "read", "write"}]
        /\ known \in [Callers -> [next: Nat, from: Numbers, to: Numbers, found: BOOLEAN]]
    BY DEF IInv, NumberingTypeOK
  <2>2. lock = p /\ Holds(p)
    BY <2>1 DEF Stages, Holds
  <2>3. CASE q = p
    <3>1. known'[q] = what /\ lock' = q /\ ask'[q] = ask[p]
      BY <2>1, <2>2, <2>3 DEF Read
    <3>2. UNCHANGED reports
      BY DEF Read
    <3> QED
      BY <3>1, <3>2, SameReports DEF Serving, Holds, NoneTwice, Existing, ReportExists, NumberOf
  <2>4. CASE q # p
    <3>1. ~Holds(q) /\ stage'[q] = stage[q]
      BY <2>1, <2>2, <2>4 DEF Stages, Read
    <3> QED
      BY <3>1 DEF Holds, Serving
  <2> QED
    BY <2>3, <2>4
<1> QED
  BY <1>1, <1>2, SameReports DEF Read, IInv
-----------------------------------------------------------------------------
(* The writes.                                                             *)
LEMMA CommitCreateIInv ==
    ASSUME IInv, NEW p \in Callers, CommitCreate(p)
    PROVE  IInv'
<1>1. NumberingTypeOK /\ Holds(p) /\ Release(p)
  BY DEF IInv, CommitCreate, Serving, Holds
<1>2. PICK new \in ReportIds, date \in Dates, next \in Nat :
          new = ask[p].report /\ date = ask[p].date /\ next = known[p].next
  <2>1. ask[p] \in Asks /\ ask[p].op = "create"
    BY <1>1 DEF NumberingTypeOK, CommitCreate, Serving
  <2>2. ask[p] \in [op: {"create"}, report: ReportIds, date: Dates]
    BY <2>1 DEF Asks, NoAsk
  <2> QED
    BY <1>1, <2>2 DEF NumberingTypeOK
<1> DEFINE row == [status |-> "DRAFT", number |-> next, date |-> date]
<1>3. row \in ReportRows
  BY DEF ReportRows
<1>4. reports \in [ReportIds -> ReportRows] /\ reports' = [reports EXCEPT ![new] = row]
  BY <1>1, <1>2 DEF NumberingTypeOK, CommitCreate
<1>5. NumberingTypeOK'
  BY <1>1, <1>2, <1>3, <1>4, FinishType
<1>6. Stages'
  BY <1>1, FinishStages
<1>7. /\ Existing' = Existing \cup {new}
      /\ NumberOf(new)' = next /\ DateOf(new)' = date
      /\ \A r \in Existing \ {new} : NumberOf(r)' = NumberOf(r) /\ DateOf(r)' = DateOf(r)
  <2>1. \A r \in ReportIds : reports'[r] = IF r = new THEN row ELSE reports[r]
    BY <1>4
  <2>2. row.status = "DRAFT" /\ row.number = next /\ row.date = date
    OBVIOUS
  <2> HIDE DEF row
  <2>3. Existing' = Existing \cup {new}
    BY <1>2, <2>1, <2>2 DEF Existing, ReportExists
  <2>4. NumberOf(new)' = next /\ DateOf(new)' = date
    BY <1>2, <2>1, <2>2 DEF NumberOf, DateOf
  <2>5. \A r \in Existing \ {new} : NumberOf(r)' = NumberOf(r) /\ DateOf(r)' = DateOf(r)
    BY <2>1 DEF Existing, NumberOf, DateOf
  <2> QED
    BY <2>3, <2>4, <2>5
<1>8. \A r \in Existing : NumberOf(r) < next /\ NumberOf(r) \in Nat
  BY <1>1, <1>2, RowType DEF IInv, Stages, CommitCreate
<1>9. NumbersDistinct'
  <2> SUFFICES ASSUME NEW q \in Existing', NEW r \in Existing', NumberOf(q)' = NumberOf(r)'
               PROVE  q = r
    BY DEF NumbersDistinct
  <2>1. q \in Existing \cup {new} /\ r \in Existing \cup {new}
    BY <1>7
  <2>2. CASE q # new /\ r # new
    BY <1>7, <2>1, <2>2 DEF IInv, NumbersDistinct
  <2>3. CASE q = new /\ r # new
    BY <1>2, <1>7, <1>8, <2>1, <2>3 DEF NumberOf
  <2>4. CASE q # new /\ r = new
    BY <1>2, <1>7, <1>8, <2>1, <2>4 DEF NumberOf
  <2> QED
    BY <2>2, <2>3, <2>4
<1>10. DatesDistinct'
  <2>1. \A r \in Existing : DateOf(r) # date
    BY <1>2 DEF CommitCreate
  <2> QED
    BY <1>7, <2>1 DEF IInv, DatesDistinct, DateOf
<1> QED
  BY <1>5, <1>6, <1>9, <1>10 DEF IInv

LEMMA CommitRenumberIInv ==
    ASSUME IInv, NEW p \in Callers, CommitRenumber(p)
    PROVE  IInv'
<1> DEFINE row(q) == [reports[q] EXCEPT !.number = (@ + known[p].to[q]) - known[p].from[q]]
<1>1. NumberingTypeOK /\ Holds(p) /\ Release(p)
  BY DEF IInv, CommitRenumber, Serving, Holds
<1>2. /\ \A r \in Existing : known[p].from[r] = NumberOf(r)
      /\ NoneTwice(known[p].to)
  BY DEF IInv, Stages, CommitRenumber
<1>3. /\ reports \in [ReportIds -> ReportRows]
      /\ known[p].to \in Numbers
  BY <1>1 DEF NumberingTypeOK
<1>4. \A q \in Existing : /\ row(q) \in ReportRows
                          /\ row(q).number = known[p].to[q]
                          /\ row(q).date = DateOf(q) /\ row(q).status = reports[q].status
  <2> SUFFICES ASSUME NEW q \in Existing
               PROVE  /\ row(q) \in ReportRows
                      /\ row(q).number = known[p].to[q]
                      /\ row(q).date = DateOf(q) /\ row(q).status = reports[q].status
    OBVIOUS
  <2>1. q \in ReportIds /\ reports[q] \in ReportRows
    BY <1>3 DEF Existing
  <2>2. known[p].to[q] \in Nat /\ known[p].from[q] = reports[q].number /\ reports[q].number \in Nat
    BY <1>2, <1>3, <2>1 DEF Numbers, NumberOf, ReportRows
  <2>3. (reports[q].number + known[p].to[q]) - known[p].from[q] = known[p].to[q]
    BY <2>2
  <2> QED
    BY <2>1, <2>2, <2>3 DEF ReportRows, DateOf
<1>5. \A q \in ReportIds : reports'[q] = IF q \in Existing THEN row(q) ELSE reports[q]
  BY DEF CommitRenumber
<1>6. reports' \in [ReportIds -> ReportRows]
  <2>1. reports' = [q \in ReportIds |-> IF q \in Existing THEN row(q) ELSE reports[q]]
    BY DEF CommitRenumber
  <2> QED
    BY <1>3, <1>4, <2>1
<1>7. /\ Existing' = Existing
      /\ \A q \in Existing : NumberOf(q)' = known[p].to[q] /\ DateOf(q)' = DateOf(q)
  <2>1. \A q \in ReportIds : reports'[q].status = reports[q].status
    BY <1>4, <1>5
  <2>2. Existing' = Existing
    BY <2>1 DEF Existing, ReportExists
  <2>3. \A q \in Existing : reports'[q] = row(q)
    BY <1>5 DEF Existing
  <2>4. \A q \in Existing : reports'[q].number = known[p].to[q] /\ reports'[q].date = DateOf(q)
    BY <1>4, <2>3
  <2> QED
    BY <2>2, <2>4 DEF NumberOf, DateOf
<1>8. NumbersDistinct' /\ DatesDistinct'
  BY <1>2, <1>7 DEF IInv, NumbersDistinct, DatesDistinct, NoneTwice
<1> QED
  BY <1>1, <1>6, <1>8, FinishType, FinishStages DEF IInv

(* Finalising or deleting a report: no number changes and none is added.   *)
LEMMA ShrinkIInv ==
    ASSUME IInv, UNCHANGED <<lock, stage, ask, known>>,
           reports' \in [ReportIds -> ReportRows],
           Existing' \subseteq Existing,
           \A q \in Existing' : NumberOf(q)' = NumberOf(q) /\ DateOf(q)' = DateOf(q)
    PROVE  IInv'
<1>1. NumberingTypeOK'
  BY DEF IInv, NumberingTypeOK
<1>2. NumbersDistinct' /\ DatesDistinct'
  BY DEF IInv, NumbersDistinct, DatesDistinct
<1>3. Stages'
  BY DEF IInv, Stages, Holds, Serving, NoneTwice
<1> QED
  BY <1>1, <1>2, <1>3 DEF IInv

LEMMA SubmitIInv ==
    ASSUME IInv, NEW r \in ReportIds, SubmitReport(r)
    PROVE  IInv'
<1>1. reports \in [ReportIds -> ReportRows]
  BY DEF IInv, NumberingTypeOK
<1>2. reports' \in [ReportIds -> ReportRows]
  <2>1. reports[r] \in ReportRows
    BY <1>1
  <2>2. [reports[r] EXCEPT !.status = "SUBMITTED"] \in ReportRows
    BY <2>1 DEF ReportRows
  <2> QED
    BY <1>1, <2>2 DEF SubmitReport
<1>3. Existing' = Existing
  BY <1>1 DEF SubmitReport, Existing, ReportExists
<1>4. \A q \in Existing : NumberOf(q)' = NumberOf(q) /\ DateOf(q)' = DateOf(q)
  <2>1. reports[r] \in ReportRows
    BY <1>1
  <2> QED
    BY <1>1, <2>1 DEF SubmitReport, Existing, NumberOf, DateOf, ReportRows
<1> QED
  BY <1>2, <1>3, <1>4, ShrinkIInv DEF SubmitReport

LEMMA RemoveIInv ==
    ASSUME IInv, NEW r \in ReportIds, NEW admin \in BOOLEAN, Remove(r, admin)
    PROVE  IInv'
<1>1. reports \in [ReportIds -> ReportRows]
  BY DEF IInv, NumberingTypeOK
<1>2. reports' = [reports EXCEPT ![r] = [status |-> "DELETED", number |-> 0, date |-> 0]]
  <2>1. [NoReport EXCEPT !.status = "DELETED"] = [status |-> "DELETED", number |-> 0, date |-> 0]
    BY DEF NoReport
  <2> QED
    BY <2>1 DEF Remove
<1>3. reports' \in [ReportIds -> ReportRows]
  BY <1>1, <1>2 DEF ReportRows
<1>4. Existing' = Existing \ {r}
  BY <1>1, <1>2 DEF Existing, ReportExists
<1>5. \A q \in Existing' : NumberOf(q)' = NumberOf(q) /\ DateOf(q)' = DateOf(q)
  BY <1>1, <1>2, <1>4 DEF NumberOf, DateOf
<1> QED
  BY <1>3, <1>4, <1>5, ShrinkIInv DEF Remove

LEMMA ReadMaxIInv ==
    ASSUME IInv, NEW p \in Callers, ReadMaxNumber(p)
    PROVE  IInv'
<1>1. NumberingTypeOK
  BY DEF IInv
<1>2. PICK n \in {FirstNumber} \cup {NumberOf(r) + 1 : r \in Existing} :
          IsNextNumber(n) /\ Read(p, [NothingSeen EXCEPT !.next = n])
  BY DEF ReadMaxNumber
<1>3. n \in Nat
  <2>1. \A r \in Existing : NumberOf(r) + 1 \in Nat
    BY <1>1, RowType
  <2> QED
    BY <1>2, <2>1, NumbersAssumption
<1>4. \A r \in Existing : NumberOf(r) < n
  <2>1. CASE Existing = {}
    BY <2>1
  <2>2. CASE Existing # {}
    <3>1. PICK m \in Existing : /\ \A r \in Existing : NumberOf(r) <= NumberOf(m)
                                /\ n = NumberOf(m) + 1
      BY <1>2, <2>2 DEF IsNextNumber
    <3> QED
      BY <1>1, <3>1, RowType
  <2> QED
    BY <2>1, <2>2
<1>5. [NothingSeen EXCEPT !.next = n] \in
          [next: Nat, from: Numbers, to: Numbers, found: BOOLEAN]
  BY <1>3 DEF NothingSeen, Nothing, Numbers
<1>6. [NothingSeen EXCEPT !.next = n].next = n
  BY DEF NothingSeen
<1>7. stage[p] = "read" /\ ask[p].op = "create"
  BY DEF ReadMaxNumber, Serving
<1> QED
  BY <1>2, <1>4, <1>5, <1>6, <1>7, ReadIInv

LEMMA ReadSiteIInv ==
    ASSUME IInv, NEW p \in Callers, ReadSite(p)
    PROVE  IInv'
<1> DEFINE n == ask[p].number
           what(pivot) == [next |-> 0, from |-> [q \in ReportIds |-> NumberOf(q)],
                           to |-> Renumbered(pivot, n),
                           found |-> ReportExists(ask[p].report)]
<1>1. NumberingTypeOK /\ DatesDistinct /\ NumbersDistinct
  BY DEF IInv
<1>2. stage[p] = "read" /\ ask[p].op = "renumber"
  BY DEF ReadSite, Serving
<1>3. n \in Nat
  <2>1. ask[p] \in [op: {"renumber"}, report: ReportIds, number: TypedNumbers,
                       date: Dates \cup {0}]
    BY <1>1, <1>2 DEF NumberingTypeOK, Asks, NoAsk
  <2> QED
    BY <2>1, NumbersAssumption
<1>4. PICK pivot \in Existing :
          /\ \A s \in Existing : DateOf(s) < DateOf(pivot) => NumberOf(s) < n
          /\ Read(p, what(pivot))
  BY DEF ReadSite
<1>5. Renumbered(pivot, n) \in Numbers
  BY <1>1, <1>3, RenumberedType
<1>6. NoneTwice(Renumbered(pivot, n))
  BY <1>1, <1>3, <1>4, RenumberedDistinct
<1>7. [q \in ReportIds |-> NumberOf(q)] \in Numbers
  BY <1>1 DEF Numbers, NumberingTypeOK, ReportRows, NumberOf
<1>8. what(pivot) \in [next: Nat, from: Numbers, to: Numbers, found: BOOLEAN]
  BY <1>5, <1>7 DEF ReportExists
<1>9. \A r \in Existing : what(pivot).from[r] = NumberOf(r)
  BY DEF Existing
<1> QED
  BY <1>2, <1>4, <1>6, <1>8, <1>9, ReadIInv
-----------------------------------------------------------------------------
LEMMA NextIInv == IInv /\ [NumberingNext]_numberingVars => IInv'
<1> SUFFICES ASSUME IInv, [NumberingNext]_numberingVars PROVE IInv'
  OBVIOUS
<1>1. ASSUME NEW p \in Callers, BeginCreate(p) PROVE IInv'
  <2>1. PICK r \in ReportIds, date \in Dates :
            Start(p, [op |-> "create", report |-> r, date |-> date])
    BY <1>1 DEF BeginCreate
  <2>2. [op |-> "create", report |-> r, date |-> date] \in Asks
    BY DEF Asks
  <2> QED
    BY <2>1, <2>2, StartIInv
<1>2. ASSUME NEW p \in Callers, BeginRenumber(p) PROVE IInv'
  <2>1. PICK r \in Existing, n \in TypedNumbers :
            Start(p, [op |-> "renumber", report |-> r, number |-> n, date |-> DateOf(r)])
    BY <1>2 DEF BeginRenumber
  <2>2. r \in ReportIds /\ (DateOf(r) \in Dates \cup {0})
    BY DEF IInv, NumberingTypeOK, Existing, ReportRows, DateOf
  <2>3. [op |-> "renumber", report |-> r, number |-> n, date |-> DateOf(r)] \in Asks
    BY <2>2 DEF Asks
  <2> QED
    BY <2>1, <2>3, StartIInv
<1>3. ASSUME NEW p \in Callers, NumberingStep(p) PROVE IInv'
  BY <1>1, <1>2, <1>3, AcquireLockIInv, ReadMaxIInv, ReadSiteIInv, CommitCreateIInv,
     CommitRenumberIInv, AbortIInv DEF NumberingStep, BeginCopy
<1>4. ASSUME NEW r \in ReportIds, SubmitReport(r) PROVE IInv'
  BY <1>4, SubmitIInv
<1>5. ASSUME NEW r \in ReportIds, NEW admin \in BOOLEAN, Remove(r, admin) PROVE IInv'
  BY <1>5, RemoveIInv
<1>6. CASE UNCHANGED numberingVars
  <2>1. UNCHANGED reports /\ UNCHANGED <<lock, stage, ask, known>>
    BY <1>6 DEF numberingVars
  <2> QED
    BY <2>1, SameReports, ShrinkIInv DEF IInv, NumberingTypeOK, NumberOf, DateOf
<1> QED
  BY <1>3, <1>4, <1>5, <1>6 DEF NumberingNext

LEMMA IInvHolds == NumberingSpec => []IInv
BY InitIInv, NextIInv, PTL DEF NumberingSpec

(* Every variable keeps its shape, however many calls and reports.         *)
THEOREM NumberingTypeCorrect == NumberingSpec => []NumberingTypeOK
<1>1. IInv => NumberingTypeOK
  BY DEF IInv
<1> QED
  BY <1>1, IInvHolds, PTL

(* The numbering of a site never repeats a number: neither a creation nor  *)
(* a renumbering meets the unique index.                                   *)
THEOREM NumbersNeverRepeat == NumberingSpec => []NumbersDistinct
<1>1. IInv => NumbersDistinct
  BY DEF IInv
<1> QED
  BY <1>1, IInvHolds, PTL
-----------------------------------------------------------------------------
(* Renumbering follows the dates.                                          *)

(* A numbering of the reports there are that leaves those before a date    *)
(* alone, and grows with the dates from there on.                          *)
FollowsDates(numbering, date) ==
    \A q, r \in Existing :
        /\ DateOf(q) < date => numbering[q] = NumberOf(q)
        /\ DateOf(q) < DateOf(r) /\ date <= DateOf(r) => numbering[q] < numbering[r]

(* Ids are given once, so that nobody creates the report that a call is    *)
(* about to renumber, and what that call writes follows its date.          *)
FreshIds ==
    \A p \in Callers : ask[p].op = "create" =>
        /\ reports[ask[p].report].status = "NONE"
        /\ \A q \in Callers :
               ask[q].op = "create" /\ ask[q].report = ask[p].report => q = p

KnownPivots ==
    \A p \in Callers : ask[p].op = "renumber" =>
        /\ reports[ask[p].report].status # "NONE"
        /\ ReportExists(ask[p].report) => DateOf(ask[p].report) = ask[p].date

NumberingsFollow ==
    \A p \in Callers :
        /\ Serving(p, "write", "create") => ~known[p].found
        /\ Serving(p, "write", "renumber") /\ known[p].found => FollowsDates(known[p].to, ask[p].date)

DatesInv == FreshIds /\ KnownPivots /\ NumberingsFollow

LEMMA CallType ==
    ASSUME NEW c \in Asks
    PROVE  /\ c.op \in {"create", "renumber"} => c.report \in ReportIds
           /\ c.op = "renumber" => c.number \in Nat /\ c.date \in Nat
<1>1. Dates \cup {0} \subseteq Nat /\ TypedNumbers \subseteq Nat
  BY NumbersAssumption, DatesAssumption
<1>2. c.op \in {"create", "renumber"} => c.report \in ReportIds
  BY DEF Asks, NoAsk
<1>3. ASSUME c.op = "renumber" PROVE c.number \in Nat /\ c.date \in Nat
  <2>1. c.number \in TypedNumbers /\ c.date \in Dates \cup {0}
    BY <1>3 DEF Asks, NoAsk
  <2> QED
    BY <1>1, <2>1
<1> QED
  BY <1>2, <1>3

(* The numbering written from a pivot that is still there.                 *)
LEMMA RenumberedFollows ==
    ASSUME NumberingTypeOK, NEW pivot \in Existing, NEW n \in Nat,
           \A s \in Existing : DateOf(s) < DateOf(pivot) => NumberOf(s) < n
    PROVE  FollowsDates(Renumbered(pivot, n), DateOf(pivot))
<1> DEFINE to == Renumbered(pivot, n)
<1> SUFFICES ASSUME NEW q \in Existing, NEW r \in Existing
             PROVE  /\ DateOf(q) < DateOf(pivot) => to[q] = NumberOf(q)
                    /\ DateOf(q) < DateOf(r) /\ DateOf(pivot) <= DateOf(r) => to[q] < to[r]
  BY DEF FollowsDates
<1>1. \A s \in Existing : DateOf(s) \in Nat /\ NumberOf(s) \in Nat
  BY RowType
<1>2. \A s \in Existing :
          /\ DateOf(pivot) <= DateOf(s) => to[s] = n + Cardinality(Between(pivot, s))
          /\ ~(DateOf(pivot) <= DateOf(s)) => to[s] = NumberOf(s)
  BY DEF Renumbered, Existing
<1>3. \A s \in Existing : Cardinality(Between(pivot, s)) \in Nat
  <2>1. \A s \in Existing : Between(pivot, s) \in SUBSET ReportIds
    BY DEF Between, Existing
  <2> QED
    BY <2>1, IdsAssumption, FS_Subset, FS_CardinalityType
<1> HIDE DEF to
<1>4. DateOf(q) < DateOf(pivot) => to[q] = NumberOf(q)
  BY <1>1, <1>2
<1>5. ASSUME DateOf(q) < DateOf(r), DateOf(pivot) <= DateOf(r)
      PROVE  to[q] < to[r]
  <2>1. CASE DateOf(pivot) <= DateOf(q)
    <3>1. Cardinality(Between(pivot, q)) < Cardinality(Between(pivot, r))
      BY <1>5, <2>1, BetweenGrows
    <3> QED
      BY <1>2, <1>3, <1>5, <2>1, <3>1
  <2>2. CASE ~(DateOf(pivot) <= DateOf(q))
    <3>1. NumberOf(q) < n
      BY <1>1, <2>2
    <3> QED
      BY <1>1, <1>2, <1>3, <1>5, <2>2, <3>1
  <2> QED
    BY <2>1, <2>2
<1> QED
  BY <1>4, <1>5

(* Steps that begin, read and create nothing: a call goes on as it was or  *)
(* ends, and reports are at most deleted or finalised, or written by the   *)
(* only one who had read them.                                             *)
LEMMA KeepDates ==
    ASSUME NumberingTypeOK, DatesInv,
           \A q \in Callers : ask'[q] = ask[q] \/ ask'[q] = NoAsk,
           \A q \in Callers : \/ stage'[q] = stage[q] /\ known'[q] = known[q]
                              \/ stage'[q] # "write",
           \A r \in ReportIds : /\ reports[r].status = "NONE" => reports'[r].status = "NONE"
                                /\ reports[r].status # "NONE" => reports'[r].status # "NONE",
           \A r \in ReportIds : ReportExists(r)' => ReportExists(r) /\ DateOf(r)' = DateOf(r),
           \A q \in Callers : Serving(q, "write", "renumber")' =>
               \A r \in Existing' : NumberOf(r)' = NumberOf(r)
    PROVE  DatesInv'
<1>1. \A q \in Callers : ask[q] \in Asks
  BY DEF NumberingTypeOK
<1>2. \A q \in Callers : ask'[q].op \in {"create", "renumber"} =>
          ask'[q] = ask[q] /\ ask[q].report \in ReportIds
  BY <1>1, CallType DEF NoAsk
<1>3. FreshIds'
  BY <1>2 DEF DatesInv, FreshIds
<1>4. KnownPivots'
  BY <1>2 DEF DatesInv, KnownPivots
<1>5. \A r \in Existing' : r \in Existing /\ DateOf(r)' = DateOf(r)
  BY DEF Existing
<1>6. NumberingsFollow'
  <2> SUFFICES ASSUME NEW q \in Callers
               PROVE  /\ Serving(q, "write", "create")' => ~known'[q].found
                      /\ Serving(q, "write", "renumber")' /\ known'[q].found =>
                             FollowsDates(known[q].to, ask[q].date)'
    BY DEF NumberingsFollow
  <2>1. Serving(q, "write", "create")' => ~known'[q].found
    BY <1>2 DEF DatesInv, NumberingsFollow, Serving
  <2>2. ASSUME Serving(q, "write", "renumber")', known'[q].found
        PROVE  FollowsDates(known[q].to, ask[q].date)'
    <3>1. known'[q] = known[q] /\ ask'[q] = ask[q] /\ Serving(q, "write", "renumber")
      BY <1>2, <2>2 DEF Serving
    <3>2. FollowsDates(known[q].to, ask[q].date)
      BY <2>2, <3>1 DEF DatesInv, NumberingsFollow
    <3>3. \A r \in Existing' : NumberOf(r)' = NumberOf(r)
      BY <2>2
    <3> QED
      BY <1>5, <3>1, <3>2, <3>3 DEF FollowsDates
  <2> QED
    BY <2>1, <2>2
<1> QED
  BY <1>3, <1>4, <1>6 DEF DatesInv

LEMMA FinishDates ==
    ASSUME NumberingTypeOK, NEW p \in Callers, Release(p)
    PROVE  /\ stage'[p] = "idle" /\ ask'[p] = NoAsk
           /\ \A q \in Callers \ {p} : stage'[q] = stage[q] /\ ask'[q] = ask[q] /\ known'[q] = known[q]
BY DEF NumberingTypeOK, Release

LEMMA StartDates ==
    ASSUME NumberingTypeOK, DatesInv, NEW p \in Callers, NEW c \in Asks, Start(p, c),
           c.op = "create" =>
               /\ reports[c.report].status = "NONE"
               /\ \A q \in Callers : ask[q].op = "create" => ask[q].report # c.report,
           c.op = "renumber" => ReportExists(c.report) /\ DateOf(c.report) = c.date
    PROVE  DatesInv'
<1>1. /\ stage'[p] = "lock" /\ ask'[p] = c
      /\ \A q \in Callers \ {p} : stage'[q] = stage[q] /\ ask'[q] = ask[q]
      /\ known' = known /\ reports' = reports
  BY DEF NumberingTypeOK, Start
<1>2. FreshIds'
  BY <1>1 DEF DatesInv, FreshIds
<1>3. KnownPivots'
  <2> SUFFICES ASSUME NEW q \in Callers, ask'[q].op = "renumber"
               PROVE  /\ reports'[ask'[q].report].status # "NONE"
                      /\ ReportExists(ask[q].report)' => DateOf(ask[q].report)' = ask'[q].date
    BY DEF KnownPivots
  <2>1. CASE q = p
    BY <1>1, <2>1 DEF ReportExists, DateOf
  <2>2. CASE q # p
    BY <1>1, <2>2 DEF DatesInv, KnownPivots, ReportExists, DateOf
  <2> QED
    BY <2>1, <2>2
<1>4. NumberingsFollow'
  BY <1>1 DEF DatesInv, NumberingsFollow, Serving, FollowsDates, Existing, ReportExists, DateOf, NumberOf
<1> QED
  BY <1>2, <1>3, <1>4 DEF DatesInv

LEMMA ReadDates ==
    ASSUME NumberingTypeOK, DatesInv, NEW p \in Callers, NEW what, Read(p, what),
           ask[p].op = "create" => ~what.found,
           ask[p].op = "renumber" /\ what.found => FollowsDates(what.to, ask[p].date)
    PROVE  DatesInv'
<1>1. /\ stage'[p] = "write" /\ known'[p] = what
      /\ \A q \in Callers \ {p} : stage'[q] = stage[q] /\ known'[q] = known[q]
      /\ ask' = ask /\ reports' = reports
  BY DEF NumberingTypeOK, Read
<1>2. FreshIds' /\ KnownPivots'
  BY <1>1 DEF DatesInv, FreshIds, KnownPivots, ReportExists, DateOf
<1>3. NumberingsFollow'
  BY <1>1 DEF DatesInv, NumberingsFollow, Serving, FollowsDates, Existing, ReportExists, DateOf, NumberOf
<1> QED
  BY <1>2, <1>3 DEF DatesInv

LEMMA CommitCreateDates ==
    ASSUME IInv, DatesInv, NEW p \in Callers, CommitCreate(p)
    PROVE  DatesInv'
<1> DEFINE new == ask[p].report
<1>1. NumberingTypeOK /\ Release(p) /\ ask[p].op = "create" /\ stage[p] = "write"
  BY DEF IInv, CommitCreate, Serving
<1>2. new \in ReportIds
  BY <1>1, CallType DEF NumberingTypeOK
<1>3. reports[new].status = "NONE"
  BY <1>1 DEF DatesInv, FreshIds
<1>4. /\ reports'[new].status = "DRAFT"
      /\ \A r \in ReportIds \ {new} : reports'[r] = reports[r]
  BY <1>1, <1>2 DEF NumberingTypeOK, CommitCreate
<1>5. \A q \in Callers : ask'[q].op \in {"create", "renumber"} =>
          /\ q # p /\ ask'[q] = ask[q]
          /\ ask[q].report \in ReportIds \ {new}
  <2> SUFFICES ASSUME NEW q \in Callers, ask'[q].op \in {"create", "renumber"}
               PROVE  q # p /\ ask'[q] = ask[q] /\ ask[q].report \in ReportIds \ {new}
    OBVIOUS
  <2>1. q # p /\ ask'[q] = ask[q]
    BY <1>1, FinishDates DEF NoAsk
  <2>2. ask[q].report \in ReportIds
    BY <1>1, <2>1, CallType DEF NumberingTypeOK
  <2>3. ask[q].report # new
    BY <1>1, <1>3, <2>1 DEF DatesInv, FreshIds, KnownPivots
  <2> QED
    BY <2>1, <2>2, <2>3
<1>6. FreshIds'
  BY <1>4, <1>5 DEF DatesInv, FreshIds
<1>7. KnownPivots'
  BY <1>4, <1>5 DEF DatesInv, KnownPivots, ReportExists, DateOf
<1>8. \A q \in Callers : stage'[q] # "write"
  <2>1. \A q \in Callers : Holds(q) => q = p
    BY <1>1 DEF IInv, Stages, Holds
  <2> QED
    BY <1>1, <2>1, FinishDates DEF Holds
<1>9. NumberingsFollow'
  BY <1>8 DEF NumberingsFollow, Serving
<1> QED
  BY <1>6, <1>7, <1>9 DEF DatesInv

(* What the writing of a renumbering makes of the reports.                 *)
LEMMA WrittenNumbers ==
    ASSUME IInv, NEW p \in Callers, CommitRenumber(p)
    PROVE  /\ Existing' = Existing
           /\ \A r \in ReportIds : reports'[r].status = reports[r].status
           /\ \A r \in Existing : NumberOf(r)' = known[p].to[r] /\ DateOf(r)' = DateOf(r)
<1> DEFINE row(q) == [reports[q] EXCEPT !.number = (@ + known[p].to[q]) - known[p].from[q]]
<1>1. NumberingTypeOK /\ \A r \in Existing : known[p].from[r] = NumberOf(r)
  BY DEF IInv, Stages, CommitRenumber
<1>2. \A q \in ReportIds : reports'[q] = IF q \in Existing THEN row(q) ELSE reports[q]
  BY DEF CommitRenumber
<1>3. \A q \in Existing : /\ row(q).status = reports[q].status
                          /\ row(q).date = reports[q].date
                          /\ row(q).number = known[p].to[q]
  <2> SUFFICES ASSUME NEW q \in Existing
               PROVE  /\ row(q).status = reports[q].status
                      /\ row(q).date = reports[q].date
                      /\ row(q).number = known[p].to[q]
    OBVIOUS
  <2>1. q \in ReportIds /\ reports[q] \in ReportRows
    BY <1>1 DEF NumberingTypeOK, Existing
  <2>2. known[p].to[q] \in Nat /\ known[p].from[q] = reports[q].number /\ reports[q].number \in Nat
    BY <1>1, <2>1 DEF NumberingTypeOK, Numbers, NumberOf, ReportRows
  <2>3. (reports[q].number + known[p].to[q]) - known[p].from[q] = known[p].to[q]
    BY <2>2
  <2> QED
    BY <2>1, <2>3 DEF ReportRows
<1> HIDE DEF row
<1>4. \A r \in ReportIds : reports'[r].status = reports[r].status
  BY <1>2, <1>3
<1>5. Existing' = Existing
  BY <1>4 DEF Existing, ReportExists
<1>6. \A r \in Existing : NumberOf(r)' = known[p].to[r] /\ DateOf(r)' = DateOf(r)
  <2>1. \A r \in Existing : r \in ReportIds
    BY DEF Existing
  <2> QED
    BY <1>2, <1>3, <2>1 DEF NumberOf, DateOf
<1> QED
  BY <1>4, <1>5, <1>6

LEMMA CommitRenumberDates ==
    ASSUME IInv, DatesInv, NEW p \in Callers, CommitRenumber(p)
    PROVE  DatesInv'
<1>1. NumberingTypeOK /\ Release(p) /\ Holds(p)
  BY DEF IInv, CommitRenumber, Serving, Holds
<1>2. \A q \in Callers : stage'[q] # "write"
  <2>1. \A q \in Callers : Holds(q) => q = p
    BY <1>1 DEF IInv, Stages
  <2> QED
    BY <1>1, <2>1, FinishDates DEF Holds
<1>3. \A q \in Callers : ~Serving(q, "write", "renumber")'
  BY <1>2 DEF Serving
<1>4. \A r \in ReportIds : ReportExists(r)' => ReportExists(r) /\ DateOf(r)' = DateOf(r)
  BY WrittenNumbers DEF Existing, ReportExists
<1> QED
  BY <1>1, <1>2, <1>3, <1>4, WrittenNumbers, FinishDates, KeepDates DEF DatesInv

LEMMA ReadSiteDates ==
    ASSUME IInv, DatesInv, NEW p \in Callers, ReadSite(p)
    PROVE  DatesInv'
<1> DEFINE what(pivot) == [next |-> 0, from |-> [q \in ReportIds |-> NumberOf(q)],
                           to |-> Renumbered(pivot, ask[p].number),
                           found |-> ReportExists(ask[p].report)]
<1>1. NumberingTypeOK /\ ask[p].op = "renumber"
  BY DEF IInv, ReadSite, Serving
<1>2. ask[p].number \in Nat
  BY <1>1, CallType DEF NumberingTypeOK
<1>3. PICK pivot \in Existing :
          /\ IsPivot(ask[p].report, pivot)
          /\ \A s \in Existing : DateOf(s) < DateOf(pivot) => NumberOf(s) < ask[p].number
          /\ Read(p, what(pivot))
  BY DEF ReadSite
<1>4. ASSUME ReportExists(ask[p].report)
      PROVE  FollowsDates(Renumbered(pivot, ask[p].number), ask[p].date)
  <2>1. pivot = ask[p].report /\ DateOf(pivot) = ask[p].date
    BY <1>1, <1>3, <1>4 DEF IsPivot, DatesInv, KnownPivots
  <2> QED
    BY <1>1, <1>2, <1>3, <2>1, RenumberedFollows
<1> QED
  BY <1>1, <1>3, <1>4, ReadDates

LEMMA NextDates == IInv /\ DatesInv /\ [NumberingNext]_numberingVars => DatesInv'
<1> SUFFICES ASSUME IInv, DatesInv, [NumberingNext]_numberingVars PROVE DatesInv'
  OBVIOUS
<1> USE DEF IInv
<1>1. ASSUME NEW p \in Callers, BeginCreate(p) PROVE DatesInv'
  <2>1. PICK r \in ReportIds, date \in Dates :
            /\ reports[r].status = "NONE"
            /\ \A q \in Callers : ask[q].op = "create" => ask[q].report # r
            /\ Start(p, [op |-> "create", report |-> r, date |-> date])
    BY <1>1 DEF BeginCreate
  <2>2. [op |-> "create", report |-> r, date |-> date] \in Asks
    BY DEF Asks
  <2> QED
    BY <2>1, <2>2, StartDates
<1>2. ASSUME NEW p \in Callers, BeginRenumber(p) PROVE DatesInv'
  <2>1. PICK r \in Existing, n \in TypedNumbers :
            Start(p, [op |-> "renumber", report |-> r, number |-> n, date |-> DateOf(r)])
    BY <1>2 DEF BeginRenumber
  <2>2. r \in ReportIds /\ (DateOf(r) \in Dates \cup {0}) /\ ReportExists(r)
    BY DEF NumberingTypeOK, Existing, ReportRows, DateOf
  <2>3. [op |-> "renumber", report |-> r, number |-> n, date |-> DateOf(r)] \in Asks
    BY <2>2 DEF Asks
  <2> QED
    BY <2>1, <2>2, <2>3, StartDates
<1>3. ASSUME NEW p \in Callers, ReadMaxNumber(p) PROVE DatesInv'
  <2>1. PICK n : Read(p, [NothingSeen EXCEPT !.next = n])
    BY <1>3 DEF ReadMaxNumber
  <2>2. ask[p].op = "create" /\ ~[NothingSeen EXCEPT !.next = n].found
    BY <1>3 DEF ReadMaxNumber, Serving, NothingSeen
  <2> QED
    BY <2>1, <2>2, ReadDates
<1>4. ASSUME NEW p \in Callers, AcquireLock(p) \/ GiveUp(p) PROVE DatesInv'
  <2>1. reports' = reports
    BY <1>4 DEF AcquireLock, GiveUp
  <2>2. /\ \A q \in Callers : ask'[q] = ask[q] \/ ask'[q] = NoAsk
        /\ \A q \in Callers : \/ stage'[q] = stage[q] /\ known'[q] = known[q]
                              \/ stage'[q] # "write"
    <3>1. CASE AcquireLock(p)
      BY <3>1 DEF AcquireLock, NumberingTypeOK
    <3>2. CASE GiveUp(p)
      BY <3>2, FinishDates DEF GiveUp
    <3> QED
      BY <1>4, <3>1, <3>2
  <2> QED
    BY <2>1, <2>2, KeepDates DEF ReportExists, DateOf, NumberOf
<1>5. ASSUME NEW r \in ReportIds,
             SubmitReport(r) \/ \E admin \in BOOLEAN : Remove(r, admin)
      PROVE  DatesInv'
  <2>1. /\ stage' = stage /\ ask' = ask /\ known' = known
        /\ reports[r].status # "NONE"
        /\ reports'[r].status # "NONE"
        /\ \A q \in ReportIds \ {r} : reports'[q] = reports[q]
        /\ ReportExists(r)' => /\ ReportExists(r)
                               /\ DateOf(r)' = DateOf(r) /\ NumberOf(r)' = NumberOf(r)
    BY <1>5 DEF SubmitReport, Remove, NoReport, NumberingTypeOK, ReportRows, ReportExists, DateOf, NumberOf
  <2>2. \A q \in ReportIds : ReportExists(q)' =>
            ReportExists(q) /\ DateOf(q)' = DateOf(q) /\ NumberOf(q)' = NumberOf(q)
    BY <2>1 DEF ReportExists, DateOf, NumberOf
  <2> QED
    BY <2>1, <2>2, KeepDates DEF Existing
<1>6. CASE UNCHANGED numberingVars
  BY <1>6, KeepDates DEF numberingVars, ReportExists, DateOf, NumberOf
<1> QED
  BY <1>1, <1>2, <1>3, <1>4, <1>5, <1>6, CommitCreateDates, CommitRenumberDates, ReadSiteDates
     DEF NumberingNext, NumberingStep, BeginCopy

LEMMA InitDates == NumberingInit => DatesInv
BY DEF NumberingInit, DatesInv, FreshIds, KnownPivots, NumberingsFollow, NoAsk, Serving

(* Only a renumbering changes the number of a report that there is and     *)
(* stays.                                                                  *)
LEMMA OnlyRenumberWrites ==
    ASSUME IInv, DatesInv, [NumberingNext]_numberingVars, NumbersChange, known[lock].found
    PROVE  \E p \in Callers : lock = p /\ CommitRenumber(p)
<1>1. PICK q \in Existing : ReportExists(q)' /\ NumberOf(q)' # NumberOf(q)
  BY DEF NumbersChange
<1>2. q \in ReportIds /\ reports' # reports
  BY <1>1 DEF Existing, NumberOf
<1>3. \A p \in Callers : Holds(p) => lock = p
  BY DEF IInv, Stages
<1>4. \A p \in Callers : ~CommitCreate(p)
  BY <1>3 DEF CommitCreate, Serving, Holds, DatesInv, NumberingsFollow
<1>5. \A r \in ReportIds : ~SubmitReport(r) /\ ~Remove(r, TRUE) /\ ~Remove(r, FALSE)
  <2> SUFFICES ASSUME NEW r \in ReportIds,
                      SubmitReport(r) \/ Remove(r, TRUE) \/ Remove(r, FALSE)
               PROVE  FALSE
    OBVIOUS
  <2>1. /\ \A s \in ReportIds \ {r} : reports'[s] = reports[s]
        /\ ReportExists(r)' => NumberOf(r)' = NumberOf(r)
    BY DEF SubmitReport, Remove, NoReport, IInv, NumberingTypeOK, ReportRows, ReportExists, NumberOf
  <2> QED
    BY <1>1, <1>2, <2>1 DEF NumberOf
<1>6. \A p \in Callers : NumberingStep(p) => CommitRenumber(p)
  BY <1>2, <1>4 DEF NumberingStep, BeginCreate, BeginCopy, BeginRenumber, Start, AcquireLock,
                    ReadMaxNumber, ReadSite, Read, GiveUp
<1>7. PICK p \in Callers : CommitRenumber(p)
  BY <1>2, <1>5, <1>6 DEF NumberingNext, numberingVars
<1> QED
  BY <1>3, <1>7 DEF CommitRenumber, Serving, Holds

(* Whatever is created, deleted and finalised beside it, a renumbering of  *)
(* a report that is still there leaves the earlier dates alone, and from   *)
(* that report on the numbers grow with the dates (renumber and its two    *)
(* passes).                                                                *)
THEOREM RenumberingFollowsDates == NumberingSpec => RenumberFollowsDates
<1>1. NumberingInit => DatesInv
  BY InitDates
<1>2. IInv /\ DatesInv /\ [NumberingNext]_numberingVars => DatesInv'
  BY NextDates
<1>3. IInv /\ DatesInv /\ [NumberingNext]_numberingVars =>
        [NumbersChange /\ known[lock].found =>
            \A q, r \in Existing :
                /\ DateOf(q) < ask[lock].date => NumberOf(q)' = NumberOf(q)
                /\ DateOf(q) < DateOf(r) /\ ask[lock].date <= DateOf(r)
                     => NumberOf(q)' < NumberOf(r)']_numberingVars
  <2> SUFFICES ASSUME IInv, DatesInv, [NumberingNext]_numberingVars, NumbersChange, known[lock].found,
                      NEW q \in Existing, NEW r \in Existing
               PROVE  /\ DateOf(q) < ask[lock].date => NumberOf(q)' = NumberOf(q)
                      /\ DateOf(q) < DateOf(r) /\ ask[lock].date <= DateOf(r)
                           => NumberOf(q)' < NumberOf(r)'
    OBVIOUS
  <2>1. PICK p \in Callers : lock = p /\ CommitRenumber(p)
    BY OnlyRenumberWrites
  <2>2. FollowsDates(known[p].to, ask[p].date)
    BY <2>1 DEF DatesInv, NumberingsFollow, CommitRenumber
  <2> QED
    BY <2>1, <2>2, WrittenNumbers DEF FollowsDates
<1>4. NumberingSpec => NumberingInit /\ [][NumberingNext]_numberingVars
  BY DEF NumberingSpec
<1> QED
  BY <1>1, <1>2, <1>3, <1>4, IInvHolds, PTL DEF RenumberFollowsDates
=============================================================================
