---------------------------- MODULE BudgetProofs ----------------------------
(***************************************************************************)
(* For any number of calls, versions, groups and items, and any structure  *)
(* of them: the versions of a budget are a chain without gap or repetition *)
(* of which only the last may be a draft, a revision copies what its       *)
(* origin is, what closes is complete, and the official budget is closed.  *)
(*                                                                         *)
(* The argument is that of the locks: who holds a budget alone finds, when *)
(* it writes, what it found when it read.                                  *)
(***************************************************************************)
EXTENDS Budgets, FiniteSetTheorems, TLAPS

Calls == [op: ShareOps \cup UpdateOps \cup {"none"}, doc: Docs,
          what: Groups \cup Items \cup Docs \cup {Root}, into: Groups \cup {Root}]
Seen == [groups: SUBSET Groups, copy: Contents]

ProcType ==
    /\ shared \in [Docs -> SUBSET Procs] /\ locked \in [Docs -> SUBSET Procs]
    /\ siteLock \in SUBSET Procs
    /\ pc \in [Procs -> {"idle", "lock", "read", "write"}]
    /\ call \in [Procs -> Calls] /\ seen \in [Procs -> Seen]
    /\ workload \in Workloads

RowType ==
    /\ status \in [Docs -> {"NONE", "DRAFT", "CLOSED", "DELETED"}]
    /\ version \in [Docs -> Nat] /\ content \in [Docs -> Contents]
    /\ official \in SUBSET Docs

TypeOK == RowType /\ ProcType

InTransaction(p) == pc[p] \in {"read", "write"}
Revises(p) == pc[p] # "idle" /\ call[p].op = "revise"

(* A transaction has the lock of its operation, and nobody is in one with  *)
(* who holds the budget alone.                                             *)
Locking ==
    \A p \in Procs : InTransaction(p) =>
        /\ call[p].op \in ShareOps => p \in shared[Doc(p)]
        /\ call[p].op \in UpdateOps => p \in locked[Doc(p)]

Exclusion ==
    \A p, q \in Procs :
        /\ InTransaction(p) /\ InTransaction(q)
        /\ Doc(p) = Doc(q) /\ call[p].op \in UpdateOps
        => q = p

(* Two revisions of one budget are two versions.                           *)
NewVersions ==
    \A p, q \in Procs :
        Revises(p) /\ Revises(q) /\ Doc(p) = Doc(q) /\ call[p].what = call[q].what => p = q

ProcInv == Locking /\ Exclusion /\ NewVersions

(* It is not the latest version, and never will be.                        *)
Superseded(d) ==
    \/ status[d] = "DELETED"
    \/ \E e \in Docs : status[e] = "CLOSED" /\ version[d] < version[e]

(* What each operation is called with.                                     *)
Asked(c) ==
    /\ c.op \in {"addNode", "removeNode"} => c.what \in Groups
    /\ c.op \in {"addItem", "updateItem", "removeItem"} => c.what \in Items
    /\ c.op = "addItem" => c.into \in Groups
    /\ c.op = "revise" => c.what \in Docs

(* What a call has established by the time it locks, reads and writes.     *)
Established(p) ==
    /\ Asked(call[p])
    /\ pc[p] # "idle" => call[p].op # "none" /\ status[Doc(p)] # "NONE"
    /\ InTransaction(p) => Doc(p) \in Live
    /\ At(p, "write", "remove") => status[Doc(p)] = "DRAFT"
    /\ At(p, "write", "close") => ItemsOf(content[Doc(p)]) # {} /\ KeysHold(content[Doc(p)])
    /\ At(p, "write", "setOfficial") => status[Doc(p)] = "CLOSED"
    /\ At(p, "write", "revise") =>
          /\ status[Doc(p)] = "CLOSED" /\ Latest(Doc(p))
          /\ seen[p].copy = content[Doc(p)]
    /\ Revises(p) => status[call[p].what] = "NONE" \/ Superseded(Doc(p))

(* No version is numbered twice.                                           *)
OneVersion == \A d, e \in Live : version[d] = version[e] => d = e

RowInv == IsFiniteSet(Live) /\ OneVersion /\ VersionChain /\ OfficialIsClosed

IInv ==
    /\ TypeOK /\ ProcInv /\ RowInv
    /\ \A p \in Procs : Established(p)
-----------------------------------------------------------------------------
(* Shapes.                                                                 *)
LEMMA EmptyShape == Empty \in Contents /\ NothingSeen \in Seen /\ NoCall \in Calls
<1>1. Empty \in Contents
  BY DEF Empty, Contents
<1>2. NothingSeen \in Seen
  BY <1>1 DEF NothingSeen, Seen
<1>3. NoCall \in Calls
  BY FirstAssumption DEF NoCall, Calls
<1> QED
  BY <1>1, <1>2, <1>3

LEMMA CallShape ==
    ASSUME ProcType, NEW p \in Procs
    PROVE  /\ Doc(p) \in Docs /\ call[p].into \in Groups \cup {Root}
           /\ call[p].op \in ShareOps \cup UpdateOps \cup {"none"}
           /\ call[p].what \in Groups \cup Items \cup Docs \cup {Root}
BY DEF ProcType, Calls, Doc

LEMMA OpsDiffer == ShareOps \cap UpdateOps = {} /\ "none" \notin ShareOps \cup UpdateOps
BY DEF ShareOps, UpdateOps

LEMMA LiveShape ==
    ASSUME RowType
    PROVE  /\ Live \in SUBSET Docs
           /\ \A d \in Live : version[d] \in Nat
           /\ \A d \in Docs : d \in Live <=> status[d] \in {"DRAFT", "CLOSED"}
BY DEF RowType, Live
-----------------------------------------------------------------------------
(* Steps of a call that leave the rows alone.                              *)

(* What holds of the rows and of a call that does not move.                *)
LEMMA SameRows ==
    ASSUME UNCHANGED rows
    PROVE  /\ RowType => RowType'
           /\ RowInv => RowInv'
           /\ \A q \in Procs : /\ pc'[q] = pc[q] /\ call'[q] = call[q] /\ seen'[q] = seen[q]
                               /\ Established(q)
                               => Established(q)'
<1>0. UNCHANGED <<status, version, content, official>>
  BY DEF rows
<1>1. Live' = Live
  BY <1>0 DEF Live
<1>2. RowType => RowType'
  BY <1>0 DEF RowType
<1>3. RowInv => RowInv'
  BY <1>0, <1>1 DEF RowInv, OneVersion, VersionChain, Latest, OfficialIsClosed
<1>4. ASSUME NEW q \in Procs, pc'[q] = pc[q], call'[q] = call[q], seen'[q] = seen[q],
             Established(q)
      PROVE  Established(q)'
  BY <1>0, <1>1, <1>4 DEF Established, Asked, InTransaction, Revises, Doc, At, Latest,
                          Superseded, ItemsOf, KeysHold, GroupsOf
<1> QED
  BY <1>2, <1>3, <1>4

LEMMA BeginIInv ==
    ASSUME IInv, UNCHANGED workload, NEW p \in Procs, NEW d \in Live,
           NEW op \in ShareOps \cup UpdateOps,
           NEW what \in Groups \cup Items \cup Docs \cup {Root}, NEW into \in Groups \cup {Root},
           Begin(p, op, d, what, into),
           Asked([op |-> op, doc |-> d, what |-> what, into |-> into]),
           op = "revise" => status[what] = "NONE" /\ New(d, what)
    PROVE  IInv'
<1> DEFINE c == [op |-> op, doc |-> d, what |-> what, into |-> into]
<1>1. /\ pc[p] = "idle" /\ call' = [call EXCEPT ![p] = c] /\ pc' = [pc EXCEPT ![p] = "lock"]
      /\ UNCHANGED rows /\ UNCHANGED <<shared, locked, siteLock, seen>>
  BY DEF Begin, locks
<1>2. d \in Docs /\ c \in Calls
  BY DEF Live, Calls
<1>3. /\ pc'[p] = "lock" /\ call'[p] = c
      /\ \A q \in Procs \ {p} : pc'[q] = pc[q] /\ call'[q] = call[q] /\ seen'[q] = seen[q]
  BY <1>1 DEF IInv, TypeOK, ProcType
<1>4. ProcType'
  BY <1>1, <1>2 DEF IInv, TypeOK, ProcType
<1>5. c.op = op /\ c.doc = d /\ c.what = what
  OBVIOUS
<1> HIDE DEF c
<1>6. Locking' /\ Exclusion'
  BY <1>1, <1>3 DEF IInv, ProcInv, Locking, Exclusion, InTransaction, Doc
<1>7. NewVersions'
  <2>1. ASSUME op = "revise", NEW q \in Procs, Doc(q) = d PROVE call[q].what # what
    BY <2>1 DEF New, Doc
  <2> QED
    BY <1>1, <1>3, <1>5, <2>1 DEF IInv, ProcInv, NewVersions, Revises, Doc
<1>8. Established(p)'
  <2>1. status' = status
    BY <1>1 DEF rows
  <2>2. Asked(c)
    BY DEF c
  <2>3. status[d] # "NONE"
    BY DEF Live
  <2> QED
    BY <1>3, <1>5, <2>1, <2>2, <2>3, OpsDiffer
       DEF Established, Asked, InTransaction, Revises, At, Doc
<1>9. \A q \in Procs : Established(q)'
  BY <1>1, <1>3, <1>8, SameRows DEF IInv
<1> QED
  BY <1>1, <1>4, <1>6, <1>7, <1>9, SameRows DEF IInv, TypeOK, ProcInv

LEMMA BeginSteps ==
    ASSUME IInv, UNCHANGED workload, NEW p \in Procs,
           BeginContent(p) \/ BeginDocument(p) \/ BeginSetOfficial(p)
    PROVE  IInv'
<1>0. workload.groups \in SUBSET Groups /\ workload.items \in SUBSET Items
  BY WorkloadAssumption DEF IInv, TypeOK, ProcType
<1>1. CASE BeginContent(p)
  <2>1. PICK d \in Live :
          \/ \E g \in workload.groups, q \in workload.groups \cup {Root} :
                Begin(p, "addNode", d, g, q)
          \/ \E g \in workload.groups : Begin(p, "removeNode", d, g, Root)
          \/ \E i \in workload.items, g \in workload.groups : Begin(p, "addItem", d, i, g)
          \/ \E i \in workload.items, op \in {"updateItem", "removeItem"} :
                Begin(p, op, d, i, Root)
    BY <1>1 DEF BeginContent
  <2>2. CASE \E g \in workload.groups, q \in workload.groups \cup {Root} :
                Begin(p, "addNode", d, g, q)
    <3>1. PICK g \in Groups, q \in Groups \cup {Root} : Begin(p, "addNode", d, g, q)
      BY <1>0, <2>2
    <3> QED
      BY <3>1, BeginIInv DEF ShareOps, Asked
  <2>3. CASE \E g \in workload.groups : Begin(p, "removeNode", d, g, Root)
    <3>1. PICK g \in Groups : Begin(p, "removeNode", d, g, Root)
      BY <1>0, <2>3
    <3> QED
      BY <3>1, BeginIInv DEF ShareOps, Asked
  <2>4. CASE \E i \in workload.items, g \in workload.groups : Begin(p, "addItem", d, i, g)
    <3>1. PICK i \in Items, g \in Groups : Begin(p, "addItem", d, i, g)
      BY <1>0, <2>4
    <3> QED
      BY <3>1, BeginIInv DEF ShareOps, Asked
  <2>5. CASE \E i \in workload.items, op \in {"updateItem", "removeItem"} :
                Begin(p, op, d, i, Root)
    <3>1. PICK i \in Items, op \in {"updateItem", "removeItem"} : Begin(p, op, d, i, Root)
      BY <1>0, <2>5
    <3> QED
      BY <3>1, BeginIInv DEF ShareOps, Asked
  <2> QED
    BY <2>1, <2>2, <2>3, <2>4, <2>5
<1>2. CASE BeginDocument(p)
  <2>1. PICK d \in Live :
          \/ \E op \in UpdateOps \ {"revise"} : Begin(p, op, d, Root, Root)
          \/ \E new \in Docs : /\ New(d, new) /\ status[new] = "NONE"
                               /\ Begin(p, "revise", d, new, Root)
    BY <1>2 DEF BeginDocument
  <2>2. ASSUME NEW op \in UpdateOps \ {"revise"}, Begin(p, op, d, Root, Root) PROVE IInv'
    BY <2>2, BeginIInv DEF UpdateOps, Asked
  <2>3. ASSUME NEW new \in Docs, New(d, new), status[new] = "NONE",
               Begin(p, "revise", d, new, Root)
        PROVE  IInv'
    BY <2>3, BeginIInv DEF UpdateOps, Asked
  <2> QED
    BY <2>1, <2>2, <2>3
<1>3. CASE BeginSetOfficial(p)
  BY <1>3, BeginIInv DEF BeginSetOfficial, ShareOps, Asked
<1> QED
  BY <1>1, <1>2, <1>3

(* A lock is given to who finds nobody in its way.                         *)
LEMMA LockSteps ==
    ASSUME IInv, UNCHANGED workload, NEW p \in Procs, LockShare(p) \/ LockUpdate(p)
    PROVE  IInv'
<1>1. /\ pc[p] = "lock" /\ pc' = [pc EXCEPT ![p] = "read"] /\ UNCHANGED <<siteLock, call, seen>>
      /\ UNCHANGED rows /\ Doc(p) \in Live /\ locked[Doc(p)] = {}
  BY DEF LockShare, LockUpdate, Locked
<1>2. /\ pc'[p] = "read" /\ \A q \in Procs \ {p} : pc'[q] = pc[q]
      /\ \A q \in Procs : Doc(q)' = Doc(q) /\ Doc(q) \in Docs
  BY <1>1, CallShape DEF IInv, TypeOK, ProcType, Doc
<1>3. /\ shared' \in [Docs -> SUBSET Procs] /\ locked' \in [Docs -> SUBSET Procs]
      /\ \A d \in Docs : shared[d] \subseteq shared'[d] /\ locked[d] \subseteq locked'[d]
      /\ call[p].op \in ShareOps => p \in shared'[Doc(p)]
      /\ call[p].op \in UpdateOps => p \in locked'[Doc(p)] /\ shared[Doc(p)] = {}
  <2>1. CASE LockShare(p)
    BY <1>2, <2>1, OpsDiffer DEF LockShare, IInv, TypeOK, ProcType
  <2>2. CASE LockUpdate(p)
    BY <1>2, <2>2, OpsDiffer DEF LockUpdate, IInv, TypeOK, ProcType
  <2> QED
    BY <2>1, <2>2
<1>4. ProcType'
  BY <1>1, <1>3 DEF IInv, TypeOK, ProcType
<1>5. Locking'
  BY <1>1, <1>2, <1>3 DEF IInv, ProcInv, Locking, InTransaction
<1>6. \A q \in Procs : InTransaction(q) /\ Doc(q) = Doc(p) =>
          call[q].op \notin UpdateOps /\ call[p].op \notin UpdateOps
  <2> SUFFICES ASSUME NEW q \in Procs, InTransaction(q), Doc(q) = Doc(p)
               PROVE  call[q].op \notin UpdateOps /\ call[p].op \notin UpdateOps
    OBVIOUS
  <2>1. call[q].op \notin UpdateOps
    BY <1>1 DEF IInv, ProcInv, Locking
  <2>2. call[q].op \in ShareOps
    BY <2>1, CallShape DEF IInv, TypeOK, ProcInv, Established, InTransaction
  <2>3. shared[Doc(p)] # {}
    BY <2>2 DEF IInv, ProcInv, Locking
  <2> QED
    BY <1>3, <2>1, <2>3
<1>7. Exclusion'
  <2>1. \A q \in Procs : InTransaction(q)' /\ q # p => InTransaction(q)
    BY <1>2 DEF InTransaction
  <2> QED
    BY <1>1, <1>2, <1>6, <2>1 DEF IInv, ProcInv, Exclusion
<1>8. NewVersions'
  BY <1>1, <1>2 DEF IInv, ProcInv, NewVersions, Revises
<1>9. Established(p)'
  <2>1. UNCHANGED <<status, version>> /\ Live' = Live
    BY <1>1 DEF rows, Live
  <2> QED
    BY <1>1, <1>2, <2>1 DEF IInv, Established, Asked, InTransaction, Revises, Superseded, At
<1>10. \A q \in Procs : Established(q)'
  BY <1>1, <1>2, <1>9, SameRows DEF IInv
<1> QED
  BY <1>1, <1>4, <1>5, <1>7, <1>8, <1>10, SameRows DEF IInv, TypeOK, ProcInv

(* From what a transaction has read to its write.                          *)
LEMMA GoOn ==
    ASSUME IInv, UNCHANGED workload, NEW p \in Procs,
           pc[p] = "read", pc' = [pc EXCEPT ![p] = "write"],
           UNCHANGED rows, UNCHANGED <<shared, locked, call>>,
           siteLock' \in SUBSET Procs, seen' \in [Procs -> Seen],
           \A q \in Procs \ {p} : seen'[q] = seen[q],
           call[p].op = "remove" => status[Doc(p)] = "DRAFT",
           call[p].op = "close" =>
              ItemsOf(content[Doc(p)]) # {} /\ KeysHold(content[Doc(p)]),
           call[p].op = "setOfficial" => status[Doc(p)] = "CLOSED",
           call[p].op = "revise" =>
              status[Doc(p)] = "CLOSED" /\ Latest(Doc(p)) /\ seen'[p].copy = content[Doc(p)]
    PROVE  IInv'
<1>1. /\ pc'[p] = "write" /\ \A q \in Procs \ {p} : pc'[q] = pc[q]
      /\ \A q \in Procs : InTransaction(q)' = InTransaction(q) /\ Revises(q)' = Revises(q)
  BY DEF IInv, TypeOK, ProcType, InTransaction, Revises
<1>2. ProcType'
  BY DEF IInv, TypeOK, ProcType
<1>3. ProcInv'
  BY <1>1 DEF IInv, ProcInv, Locking, Exclusion, NewVersions, Doc
<1>4. Established(p)'
  <2>1. UNCHANGED <<status, version, content>> /\ Live' = Live
    BY DEF rows, Live
  <2>2. InTransaction(p)
    BY DEF InTransaction
  <2>3. /\ Asked(call[p]) /\ call[p].op # "none" /\ status[Doc(p)] # "NONE" /\ Doc(p) \in Live
        /\ Revises(p) => status[call[p].what] = "NONE" \/ Superseded(Doc(p))
    BY <2>2 DEF IInv, Established
  <2>4. Latest(Doc(p))' = Latest(Doc(p)) /\ Superseded(Doc(p))' = Superseded(Doc(p))
    BY <2>1 DEF Latest, Superseded, Doc
  <2> QED
    BY <1>1, <2>1, <2>3, <2>4
       DEF Established, Asked, At, Doc, ItemsOf, KeysHold, GroupsOf
<1>5. \A q \in Procs : Established(q)'
  BY <1>1, <1>4, SameRows DEF IInv
<1> QED
  BY <1>2, <1>3, <1>5, SameRows DEF IInv, TypeOK

LEMMA ReadSteps ==
    ASSUME IInv, UNCHANGED workload, NEW p \in Procs, pc[p] = "read",
           \/ AddNode(p) \/ ReadRemoveNode(p) \/ AddItem(p) \/ UpdateItem(p) \/ RemoveItem(p)
           \/ Update(p) \/ Import(p) \/ Remove(p) \/ Close(p) \/ ReadRevise(p) \/ LockSite(p)
    PROVE  IInv'
<1>0. content[Doc(p)] \in Contents
  BY CallShape DEF IInv, TypeOK, RowType
<1>1. ASSUME NEW groups \in SUBSET Groups, NEW copy \in Contents, Checked(p, groups, copy),
             call[p].op = "remove" => status[Doc(p)] = "DRAFT",
             call[p].op = "close" =>
                ItemsOf(content[Doc(p)]) # {} /\ KeysHold(content[Doc(p)]),
             call[p].op = "setOfficial" => status[Doc(p)] = "CLOSED",
             call[p].op = "revise" =>
                status[Doc(p)] = "CLOSED" /\ Latest(Doc(p)) /\ copy = content[Doc(p)]
      PROVE  IInv'
  <2> DEFINE s == [groups |-> groups, copy |-> copy]
  <2>1. s \in Seen
    BY DEF Seen
  <2>2. seen' = [seen EXCEPT ![p] = s]
    BY <1>1 DEF Checked
  <2>3. /\ seen' \in [Procs -> Seen] /\ seen'[p].copy = copy
        /\ \A q \in Procs \ {p} : seen'[q] = seen[q]
    BY <2>1, <2>2 DEF IInv, TypeOK, ProcType
  <2>4. /\ pc' = [pc EXCEPT ![p] = "write"] /\ UNCHANGED rows
        /\ UNCHANGED <<shared, locked, siteLock, call>>
    BY <1>1 DEF Checked, locks
  <2>5. siteLock' \in SUBSET Procs
    BY <2>4 DEF IInv, TypeOK, ProcType
  <2> QED
    BY <1>1, <2>3, <2>4, <2>5, GoOn
<1>2. CASE \/ AddNode(p) \/ AddItem(p) \/ UpdateItem(p) \/ RemoveItem(p)
           \/ Update(p) \/ Import(p) \/ Remove(p) \/ Close(p)
  <2>1. /\ Checked(p, {}, Empty)
        /\ call[p].op \in {"addNode", "addItem", "updateItem", "removeItem", "update", "import",
                           "remove", "close"}
        /\ call[p].op = "remove" => status[Doc(p)] = "DRAFT"
        /\ call[p].op = "close" =>
              ItemsOf(content[Doc(p)]) # {} /\ KeysHold(content[Doc(p)])
    BY <1>2 DEF AddNode, AddItem, UpdateItem, RemoveItem, Update, Import, Remove, Close, At
  <2> QED
    BY <1>1, <2>1, EmptyShape
<1>3. CASE ReadRemoveNode(p)
  <2>1. call[p].op = "removeNode" /\ Checked(p, Subtree(content[Doc(p)], call[p].what), Empty)
    BY <1>3 DEF ReadRemoveNode, At
  <2>2. Subtree(content[Doc(p)], call[p].what) \in SUBSET Groups
    BY DEF Subtree
  <2> QED
    BY <1>1, <2>1, <2>2, EmptyShape
<1>4. CASE ReadRevise(p)
  <2>1. /\ call[p].op = "revise" /\ Checked(p, {}, content[Doc(p)])
        /\ status[Doc(p)] = "CLOSED" /\ Latest(Doc(p))
    BY <1>4 DEF ReadRevise, At
  <2> QED
    BY <1>0, <1>1, <2>1
<1>5. CASE LockSite(p)
  <2>1. /\ call[p].op = "setOfficial" /\ status[Doc(p)] = "CLOSED"
        /\ pc' = [pc EXCEPT ![p] = "write"] /\ siteLock' = {p}
        /\ UNCHANGED rows /\ UNCHANGED <<shared, locked, call, seen>>
    BY <1>5 DEF LockSite, At
  <2>2. seen' \in [Procs -> Seen]
    BY <2>1 DEF IInv, TypeOK, ProcType
  <2> QED
    BY <2>1, <2>2, GoOn
<1> QED
  BY <1>2, <1>3, <1>4, <1>5
-----------------------------------------------------------------------------
(* Steps that end a transaction.                                           *)
LEMMA FinishProc ==
    ASSUME IInv, UNCHANGED workload, NEW p \in Procs, Finish(p)
    PROVE  /\ ProcType' /\ ProcInv' /\ Established(p)'
           /\ \A q \in Procs \ {p} : pc'[q] = pc[q] /\ call'[q] = call[q] /\ seen'[q] = seen[q]
<1>1. /\ pc'[p] = "idle" /\ call'[p] = NoCall
      /\ \A q \in Procs \ {p} : pc'[q] = pc[q] /\ call'[q] = call[q] /\ seen'[q] = seen[q]
      /\ \A q \in Procs : Doc(q) \in Docs
  BY CallShape DEF Finish, IInv, TypeOK, ProcType
<1>2. ProcType'
  BY EmptyShape DEF Finish, IInv, TypeOK, ProcType
<1>3. \A d \in Docs : shared'[d] = shared[d] \ {p} /\ locked'[d] = locked[d] \ {p}
  BY DEF Finish
<1>4. ProcInv'
  BY <1>1, <1>3 DEF IInv, ProcInv, Locking, Exclusion, NewVersions, InTransaction, Revises, Doc
<1>5. Established(p)'
  BY <1>1 DEF Established, Asked, NoCall, InTransaction, Revises, At
<1> QED
  BY <1>1, <1>2, <1>4, <1>5

(* What is closed or deleted stays so, a version keeps its number, and who *)
(* holds a budget alone finds it as it was.                                *)
LEMMA OthersStay ==
    ASSUME IInv, NEW q \in Procs, pc'[q] = pc[q], call'[q] = call[q], seen'[q] = seen[q],
           \A d \in Docs : status[d] # "NONE" => version'[d] = version[d] /\ status'[d] # "NONE",
           \A d \in Docs : status[d] \in {"CLOSED", "DELETED"} => status'[d] = status[d],
           InTransaction(q) => Doc(q) \in Live',
           InTransaction(q) /\ call[q].op \in UpdateOps =>
              status'[Doc(q)] = status[Doc(q)] /\ content'[Doc(q)] = content[Doc(q)],
           At(q, "write", "revise") => Latest(Doc(q))',
           Revises(q) => \/ status'[call[q].what] = status[call[q].what]
                         \/ Superseded(Doc(q))'
    PROVE  Established(q)'
<1>0. Established(q) /\ Doc(q)' = Doc(q) /\ Doc(q) \in Docs
  BY CallShape DEF IInv, TypeOK, Doc
<1>1. ASSUME pc[q] # "idle", Superseded(Doc(q)) PROVE Superseded(Doc(q))'
  <2>1. version'[Doc(q)] = version[Doc(q)]
    BY <1>0, <1>1 DEF Established
  <2>2. CASE status[Doc(q)] = "DELETED"
    BY <1>0, <2>2 DEF Superseded
  <2>3. ASSUME NEW e \in Docs, status[e] = "CLOSED", version[Doc(q)] < version[e]
        PROVE  Superseded(Doc(q))'
    <3>1. status'[e] = "CLOSED" /\ version'[e] = version[e]
      BY <2>3
    <3> QED
      BY <1>0, <2>1, <2>3, <3>1 DEF Superseded
  <2> QED
    BY <1>1, <2>2, <2>3 DEF Superseded
<1>2. /\ Asked(call[q])'
      /\ pc'[q] # "idle" => call'[q].op # "none" /\ status'[Doc(q)] # "NONE"
      /\ InTransaction(q)' => Doc(q)' \in Live'
  BY <1>0 DEF Established, Asked, InTransaction
<1>3. /\ At(q, "write", "remove")' => status'[Doc(q)] = "DRAFT"
      /\ At(q, "write", "setOfficial")' => status'[Doc(q)] = "CLOSED"
  BY <1>0 DEF Established, At, InTransaction, UpdateOps
<1>4. At(q, "write", "close")' =>
          ItemsOf(content[Doc(q)])' # {} /\ KeysHold(content[Doc(q)])'
  <2> SUFFICES ASSUME At(q, "write", "close")'
               PROVE  ItemsOf(content[Doc(q)])' # {} /\ KeysHold(content[Doc(q)])'
    OBVIOUS
  <2>1. content'[Doc(q)] = content[Doc(q)]
    BY DEF At, InTransaction, UpdateOps
  <2>2. ItemsOf(content[Doc(q)]) # {} /\ KeysHold(content[Doc(q)])
    BY <1>0 DEF Established, At
  <2> QED
    BY <1>0, <2>1, <2>2 DEF ItemsOf, KeysHold, GroupsOf
<1>5. At(q, "write", "revise")' =>
          /\ status'[Doc(q)] = "CLOSED" /\ Latest(Doc(q))'
          /\ seen'[q].copy = content'[Doc(q)]
  BY <1>0 DEF Established, At, InTransaction, UpdateOps
<1>6. Revises(q)' => status'[call[q].what] = "NONE" \/ Superseded(Doc(q))'
  BY <1>0, <1>1 DEF Established, Revises
<1> QED
  BY <1>0, <1>2, <1>3, <1>4, <1>5, <1>6 DEF Established

(* The transaction of p wrote no status.                                   *)
LEMMA QuietCommit ==
    ASSUME IInv, UNCHANGED workload, NEW p \in Procs, Finish(p), UNCHANGED <<status, version>>,
           official' \in SUBSET Docs, \A d \in official' : status[d] = "CLOSED",
           content' \in [Docs -> Contents],
           \A d \in Docs : content'[d] = content[d] \/ (InTransaction(p) /\ d = Doc(p))
    PROVE  IInv'
<1>1. Live' = Live
  BY DEF Live
<1>2. RowType' /\ RowInv'
  BY <1>1 DEF IInv, TypeOK, RowType, RowInv, OneVersion, VersionChain, Latest, OfficialIsClosed
<1>3. ASSUME NEW q \in Procs \ {p} PROVE Established(q)'
  <2>1. InTransaction(q) => Doc(q) \in Live
    BY DEF IInv, Established
  <2>2. InTransaction(q) /\ call[q].op \in UpdateOps => content'[Doc(q)] = content[Doc(q)]
    <3>1. InTransaction(q) /\ call[q].op \in UpdateOps => ~(InTransaction(p) /\ Doc(q) = Doc(p))
      BY DEF IInv, ProcInv, Exclusion
    <3> QED
      BY <3>1, CallShape DEF IInv, TypeOK
  <2>3. At(q, "write", "revise") => Latest(Doc(q))
    BY DEF IInv, Established
  <2>4. pc'[q] = pc[q] /\ call'[q] = call[q] /\ seen'[q] = seen[q]
    BY FinishProc
  <2>5. Latest(Doc(q))' = Latest(Doc(q))
    BY <1>1, <2>4 DEF Latest, Doc
  <2> QED
    BY <1>1, <2>1, <2>2, <2>3, <2>4, <2>5, OthersStay
<1> QED
  BY <1>2, <1>3, FinishProc DEF IInv, TypeOK

LEMMA WriteCommit ==
    ASSUME IInv, UNCHANGED workload, NEW p \in Procs, pc[p] = "write",
           NEW c \in Contents, Write(p, c)
    PROVE  IInv'
<1>1. /\ content' = [content EXCEPT ![Doc(p)] = c] /\ Finish(p)
      /\ UNCHANGED <<status, version, official>>
  BY DEF Write
<1>2. official' \in SUBSET Docs /\ \A d \in official' : status[d] = "CLOSED"
  BY <1>1 DEF IInv, TypeOK, RowType, RowInv, OfficialIsClosed
<1>3. content \in [Docs -> Contents] /\ InTransaction(p)
  BY DEF IInv, TypeOK, RowType, InTransaction
<1>4. content' \in [Docs -> Contents]
  BY <1>1, <1>3
<1>5. \A d \in Docs : content'[d] = content[d] \/ (InTransaction(p) /\ d = Doc(p))
  BY <1>1, <1>3
<1> QED
  BY <1>1, <1>2, <1>4, <1>5, QuietCommit

(* What the statements make of the content is one.                         *)
LEMMA ContentShape ==
    ASSUME NEW c \in Contents
    PROVE  /\ \A g \in Groups, q \in Groups \cup {Root} : [c EXCEPT !.parent[g] = q] \in Contents
           /\ \A i \in Items, line \in Lines \cup {Absent} :
                 [c EXCEPT !.line[i] = line] \in Contents
           /\ \A i \in ItemsOf(c), n \in Quantities :
                 [c EXCEPT !.line[i].quantity = n] \in Contents
           /\ \A groups \in SUBSET Groups, items \in SUBSET Items : [c EXCEPT
                 !.parent = [g \in Groups |-> IF g \in groups THEN Absent ELSE c.parent[g]],
                 !.line = [i \in Items |-> IF i \in items THEN Absent ELSE c.line[i]]] \in Contents
           /\ [c EXCEPT !.bdi = 1 - @] \in Contents
<1>1. \A g \in Groups, q \in Groups \cup {Root} : [c EXCEPT !.parent[g] = q] \in Contents
  BY DEF Contents
<1>2. \A i \in Items, line \in Lines \cup {Absent} : [c EXCEPT !.line[i] = line] \in Contents
  BY DEF Contents
<1>3. ASSUME NEW i \in ItemsOf(c), NEW n \in Quantities
      PROVE  [c EXCEPT !.line[i].quantity = n] \in Contents
  <2>1. i \in Items /\ c.line[i] \in Lines
    BY DEF ItemsOf, Contents
  <2>2. [c.line[i] EXCEPT !.quantity = n] \in Lines
    BY <2>1 DEF Lines
  <2> QED
    BY <2>1, <2>2 DEF Contents
<1>4. ASSUME NEW groups \in SUBSET Groups, NEW items \in SUBSET Items
      PROVE  [c EXCEPT
                 !.parent = [g \in Groups |-> IF g \in groups THEN Absent ELSE c.parent[g]],
                 !.line = [i \in Items |-> IF i \in items THEN Absent ELSE c.line[i]]] \in Contents
  BY DEF Contents
<1>5. [c EXCEPT !.bdi = 1 - @] \in Contents
  BY DEF Contents
<1> QED
  BY <1>1, <1>2, <1>3, <1>4, <1>5

LEMMA ContentSteps ==
    ASSUME IInv, UNCHANGED workload, NEW p \in Procs, pc[p] = "write",
           \/ AddNode(p) \/ CommitRemoveNode(p) \/ AddItem(p) \/ UpdateItem(p) \/ RemoveItem(p)
           \/ Update(p) \/ Import(p)
    PROVE  IInv'
<1> DEFINE c == content[Doc(p)]
           w == call[p].what
<1>0. /\ c \in Contents /\ Asked(call[p]) /\ call[p].into \in Groups \cup {Root}
      /\ seen[p].groups \in SUBSET Groups
  BY CallShape DEF IInv, TypeOK, RowType, ProcType, Seen, Established
<1> HIDE DEF c
<1>1. CASE AddNode(p)
  <2>1. w \in Groups /\ Write(p, [c EXCEPT !.parent[w] = call[p].into])
    BY <1>0, <1>1 DEF AddNode, At, Asked, c
  <2>2. [c EXCEPT !.parent[w] = call[p].into] \in Contents
    BY <1>0, <2>1, ContentShape
  <2> QED
    BY <2>1, <2>2, WriteCommit
<1>2. CASE CommitRemoveNode(p)
  <2> DEFINE groups == seen[p].groups
             gone == ItemsIn(c, groups)
             left == [c EXCEPT
                 !.parent = [g \in Groups |-> IF g \in groups THEN Absent ELSE c.parent[g]],
                 !.line = [i \in Items |-> IF i \in gone THEN Absent ELSE c.line[i]]]
  <2>1. Write(p, left)
    BY <1>2 DEF CommitRemoveNode, c
  <2>2. groups \in SUBSET Groups /\ gone \in SUBSET Items
    BY <1>0 DEF ItemsIn, ItemsOf
  <2> HIDE DEF groups, gone
  <2>3. left \in Contents
    BY <1>0, <2>2, ContentShape
  <2> QED
    BY <2>1, <2>3, WriteCommit
<1>3. CASE AddItem(p)
  <2>1. PICK n \in Quantities :
            Write(p, [c EXCEPT !.line[w] = [group |-> call[p].into, quantity |-> n]])
    BY <1>3 DEF AddItem, At, c
  <2>2. w \in Items /\ call[p].into \in Groups
    BY <1>0, <1>3 DEF AddItem, At, Asked
  <2>3. [group |-> call[p].into, quantity |-> n] \in Lines
    BY <2>2 DEF Lines
  <2>4. [c EXCEPT !.line[w] = [group |-> call[p].into, quantity |-> n]] \in Contents
    BY <1>0, <2>2, <2>3, ContentShape
  <2> QED
    BY <2>1, <2>4, WriteCommit
<1>4. CASE UpdateItem(p)
  <2>1. PICK n \in Quantities : Write(p, [c EXCEPT !.line[w].quantity = n])
    BY <1>4 DEF UpdateItem, At, c
  <2>2. w \in ItemsOf(c)
    BY <1>4 DEF UpdateItem, At, c
  <2>3. [c EXCEPT !.line[w].quantity = n] \in Contents
    BY <1>0, <2>2, ContentShape
  <2> QED
    BY <2>1, <2>3, WriteCommit
<1>5. CASE RemoveItem(p)
  <2>1. Write(p, [c EXCEPT !.line[w] = Absent]) /\ w \in Items
    BY <1>5 DEF RemoveItem, At, ItemsOf, c
  <2>2. [c EXCEPT !.line[w] = Absent] \in Contents
    BY <1>0, <2>1, ContentShape
  <2> QED
    BY <2>1, <2>2, WriteCommit
<1>6. CASE Update(p)
  <2>1. Write(p, [c EXCEPT !.bdi = 1 - @])
    BY <1>6 DEF Update, At, c
  <2>2. [c EXCEPT !.bdi = 1 - @] \in Contents
    BY <1>0, ContentShape
  <2> QED
    BY <2>1, <2>2, WriteCommit
<1>7. CASE Import(p)
  <2>1. PICK g \in workload.groups, n \in Quantities, some \in (SUBSET workload.items) \ {{}} :
            Write(p, [c EXCEPT
                 !.parent[g] = Root,
                 !.line = [i \in Items |-> IF i \in some THEN [group |-> g, quantity |-> n]
                                                         ELSE Absent]])
    BY <1>7 DEF Import, At, c
  <2>2. g \in Groups
    BY WorkloadAssumption DEF IInv, TypeOK, ProcType
  <2>3. [c EXCEPT
                 !.parent[g] = Root,
                 !.line = [i \in Items |-> IF i \in some THEN [group |-> g, quantity |-> n]
                                                         ELSE Absent]] \in Contents
    <3>1. [group |-> g, quantity |-> n] \in Lines
      BY <2>2 DEF Lines
    <3> QED
      BY <1>0, <2>2, <3>1 DEF Contents
  <2> QED
    BY <2>1, <2>3, WriteCommit
<1> QED
  BY <1>1, <1>2, <1>3, <1>4, <1>5, <1>6, <1>7

(* An official version, or nothing.                                        *)
LEMMA OfficialSteps ==
    ASSUME IInv, UNCHANGED workload, NEW p \in Procs, SetOfficial(p) \/ Abort(p)
    PROVE  IInv'
<1>1. CASE SetOfficial(p)
  <2>1. /\ Finish(p) /\ UNCHANGED <<status, version, content>> /\ official' = {Doc(p)}
        /\ At(p, "write", "setOfficial")
    BY <1>1 DEF SetOfficial
  <2>2. Doc(p) \in Docs /\ status[Doc(p)] = "CLOSED"
    BY <2>1, CallShape DEF IInv, TypeOK, Established
  <2>3. content' \in [Docs -> Contents]
    BY <2>1 DEF IInv, TypeOK, RowType
  <2> QED
    BY <2>1, <2>2, <2>3, QuietCommit
<1>2. CASE Abort(p)
  <2>1. Finish(p) /\ UNCHANGED <<status, version, content, official>>
    BY <1>2 DEF Abort, rows
  <2>2. /\ official' \in SUBSET Docs /\ \A d \in official' : status[d] = "CLOSED"
        /\ content' \in [Docs -> Contents]
    BY <2>1 DEF IInv, TypeOK, RowType, RowInv, OfficialIsClosed
  <2> QED
    BY <2>1, <2>2, QuietCommit
<1> QED
  BY <1>1, <1>2
-----------------------------------------------------------------------------
(* The chain of versions.                                                  *)

(* The number of the latest version is that of the versions.               *)
LEMMA LatestNumber ==
    ASSUME RowType, RowInv, NEW d \in Live, Latest(d)
    PROVE  Cardinality(Live) \in Nat /\ version[d] = Cardinality(Live)
<1> DEFINE n == Cardinality(Live)
<1>1. n \in Nat
  BY FS_CardinalityType DEF RowInv
<1>2. {version[e] : e \in Live} = 1..n
  BY DEF RowInv, VersionChain
<1>3. \A e \in Live : version[e] \in Nat /\ version[e] <= version[d]
  BY LiveShape DEF Latest
<1> HIDE DEF n
<1>4. version[d] \in 1..n
  BY <1>2
<1>5. n \in 1..n
  BY <1>1, <1>4
<1>6. PICK e \in Live : version[e] = n
  BY <1>2, <1>5
<1>7. version[d] = n
  BY <1>1, <1>3, <1>4, <1>6
<1> QED
  BY <1>1, <1>7 DEF n

(* A draft closes, or goes.                                                *)
LEMMA StatusRows ==
    ASSUME RowType, RowInv, NEW d \in Docs, status[d] = "DRAFT",
           NEW s \in {"CLOSED", "DELETED"}, status' = [status EXCEPT ![d] = s],
           UNCHANGED <<version, content, official>>
    PROVE  RowType' /\ RowInv'
<1>1. RowType'
  BY DEF RowType
<1>2. /\ status'[d] = s /\ \A e \in Docs \ {d} : status'[e] = status[e]
      /\ d \in Live /\ Latest(d) /\ d \notin official
  BY DEF RowType, RowInv, VersionChain, OfficialIsClosed, Live
<1>3. OfficialIsClosed'
  BY <1>2 DEF RowInv, OfficialIsClosed, RowType
<1>4. CASE s = "CLOSED"
  <2>1. Live' = Live
    BY <1>2, <1>4 DEF Live
  <2>2. \A e \in Live : status'[e] = "DRAFT" => Latest(e)'
    BY <1>2, <1>4, <2>1 DEF RowInv, VersionChain, Latest, Live
  <2> QED
    BY <1>1, <1>3, <2>1, <2>2 DEF RowInv, OneVersion, VersionChain
<1>5. CASE s = "DELETED"
  <2> DEFINE n == Cardinality(Live)
  <2>1. Live' = Live \ {d}
    BY <1>2, <1>5 DEF Live
  <2>2. IsFiniteSet(Live)' /\ Cardinality(Live)' = n - 1
    BY <1>2, <2>1, FS_RemoveElement DEF RowInv
  <2>3. n \in Nat /\ version[d] = n
    BY <1>2, LatestNumber
  <2>4. OneVersion'
    BY <2>1 DEF RowInv, OneVersion
  <2>5. {version[e] : e \in Live}' = 1..(n - 1)
    <3>1. {version[e] : e \in Live}' = {version[e] : e \in Live} \ {version[d]}
      BY <1>2, <2>1 DEF RowInv, OneVersion
    <3>2. {version[e] : e \in Live} = 1..n
      BY DEF RowInv, VersionChain
    <3>3. (1..n) \ {n} = 1..(n - 1)
      BY <2>3
    <3> HIDE DEF n
    <3> QED
      BY <2>3, <3>1, <3>2, <3>3
  <2>6. \A e \in Live' : status'[e] = "DRAFT" => Latest(e)'
    BY <1>2, <2>1 DEF RowInv, VersionChain, Latest, Live
  <2>7. VersionChain'
    BY <2>2, <2>5, <2>6 DEF VersionChain
  <2> QED
    BY <1>1, <1>3, <2>2, <2>4, <2>7 DEF RowInv
<1> QED
  BY <1>4, <1>5

(* The next version is numbered after the latest.                          *)
LEMMA ReviseRows ==
    ASSUME RowType, RowInv, NEW d \in Live, status[d] = "CLOSED", Latest(d),
           NEW new \in Docs, status[new] = "NONE", NEW copy \in Contents,
           status' = [status EXCEPT ![new] = "DRAFT"],
           version' = [version EXCEPT ![new] = version[d] + 1],
           content' = [content EXCEPT ![new] = copy], UNCHANGED official
    PROVE  RowType' /\ RowInv' /\ Live' = Live \cup {new}
<1> DEFINE n == Cardinality(Live)
<1>1. n \in Nat /\ version[d] = n /\ new \notin Live /\ d \in Docs
  BY LatestNumber DEF Live
<1>2. /\ status'[new] = "DRAFT" /\ version'[new] = n + 1
      /\ \A e \in Docs \ {new} : status'[e] = status[e] /\ version'[e] = version[e]
  BY <1>1 DEF RowType
<1>3. Live' = Live \cup {new}
  BY <1>2 DEF Live
<1>4. IsFiniteSet(Live)' /\ Cardinality(Live)' = n + 1
  BY <1>1, <1>3, FS_AddElement DEF RowInv
<1>5. {version[e] : e \in Live} = 1..n
  BY DEF RowInv, VersionChain
<1>6. \A e \in Live : version'[e] = version[e] /\ version[e] \in 1..n /\ e \in Docs
  BY <1>1, <1>2, <1>5 DEF Live
<1>7. RowType'
  <2>1. version[d] + 1 \in Nat
    BY <1>1
  <2> QED
    BY <2>1 DEF RowType
<1> HIDE DEF n
<1>8. OneVersion'
  <2> SUFFICES ASSUME NEW e \in Live', NEW f \in Live', version'[e] = version'[f]
               PROVE  e = f
    BY DEF OneVersion
  <2>1. \A g \in Live : version'[g] # n + 1
    BY <1>1, <1>6
  <2> QED
    BY <1>2, <1>3, <1>6, <2>1 DEF RowInv, OneVersion
<1>9. {version[e] : e \in Live}' = 1..(n + 1)
  <2>1. {version[e] : e \in Live}' = {version[e] : e \in Live} \cup {n + 1}
    BY <1>2, <1>3, <1>6
  <2>2. (1..n) \cup {n + 1} = 1..(n + 1)
    BY <1>1
  <2> QED
    BY <1>5, <2>1, <2>2
<1>10. ASSUME NEW e \in Live', status'[e] = "DRAFT" PROVE Latest(e)'
  <2>1. e = new
    <3> SUFFICES ASSUME e \in Live, e # new PROVE FALSE
      BY <1>3
    <3>1. status[e] = "DRAFT" /\ Latest(e)
      BY <1>2, <1>6, <1>10 DEF RowInv, VersionChain
    <3>2. version[e] = n
      BY <3>1, LatestNumber DEF n
    <3> QED
      BY <1>1, <3>1, <3>2 DEF RowInv, OneVersion
  <2>2. \A f \in Live' : version'[f] <= n + 1
    BY <1>1, <1>2, <1>3, <1>6
  <2> QED
    BY <1>2, <2>1, <2>2 DEF Latest
<1>11. VersionChain'
  BY <1>4, <1>9, <1>10 DEF VersionChain
<1>12. OfficialIsClosed'
  BY <1>2 DEF RowInv, OfficialIsClosed, RowType
<1> QED
  BY <1>3, <1>4, <1>7, <1>8, <1>11, <1>12 DEF RowInv

LEMMA StatusSteps ==
    ASSUME IInv, UNCHANGED workload, NEW p \in Procs, pc[p] = "write", Remove(p) \/ Close(p)
    PROVE  IInv'
<1>1. /\ Finish(p) /\ InTransaction(p) /\ call[p].op \in UpdateOps
      /\ UNCHANGED <<version, content, official>>
  BY DEF Remove, Close, At, InTransaction, UpdateOps
<1>2. PICK s \in {"CLOSED", "DELETED"} : status' = [status EXCEPT ![Doc(p)] = s]
  BY DEF Remove, Close, At
<1>3. Doc(p) \in Docs /\ status[Doc(p)] = "DRAFT"
  BY CallShape DEF IInv, TypeOK, Established, Remove, Close, At
<1>4. RowType' /\ RowInv'
  BY <1>1, <1>2, <1>3, StatusRows DEF IInv, TypeOK
<1>5. \A d \in Docs : d # Doc(p) => status'[d] = status[d]
  BY <1>2 DEF IInv, TypeOK, RowType
<1>6. status'[Doc(p)] = s
  BY <1>2, <1>3 DEF IInv, TypeOK, RowType
<1>7. ASSUME NEW q \in Procs \ {p} PROVE Established(q)'
  <2>1. pc'[q] = pc[q] /\ call'[q] = call[q] /\ seen'[q] = seen[q] /\ Established(q)
    BY <1>1, FinishProc DEF IInv
  <2>2. InTransaction(q) => Doc(q) # Doc(p) /\ Doc(q) \in Live
    BY <1>1, <2>1 DEF IInv, ProcInv, Exclusion, Established
  <2>3. InTransaction(q) => status'[Doc(q)] = status[Doc(q)] /\ Doc(q) \in Live'
    BY <1>5, <2>2 DEF Live
  <2>4. At(q, "write", "revise") => Latest(Doc(q))'
    <3>1. \A d \in Docs : d \in Live' => d \in Live
      BY <1>3, <1>5 DEF Live
    <3>2. At(q, "write", "revise") => Latest(Doc(q))
      BY <2>1 DEF Established
    <3>3. Live' \subseteq Live
      BY <3>1 DEF Live
    <3> QED
      BY <1>1, <2>1, <3>2, <3>3 DEF Latest, Doc
  <2>5. Revises(q) => \/ status'[call[q].what] = status[call[q].what]
                      \/ Superseded(Doc(q))'
    <3> SUFFICES ASSUME Revises(q), call[q].what = Doc(p) PROVE Superseded(Doc(q))'
      BY <1>5, <2>1 DEF Established, Asked, Revises
    <3>1. Superseded(Doc(q))
      BY <1>3, <2>1 DEF Established
    <3>2. \A d \in Docs : status[d] \in {"CLOSED", "DELETED"} => status'[d] = status[d]
      BY <1>3, <1>5
    <3>3. Doc(q) \in Docs /\ Doc(q)' = Doc(q)
      BY <2>1, CallShape DEF IInv, TypeOK, Doc
    <3> QED
      BY <1>1, <3>1, <3>2, <3>3 DEF Superseded
  <2>6. /\ \A d \in Docs : status[d] # "NONE" => version'[d] = version[d] /\ status'[d] # "NONE"
        /\ \A d \in Docs : status[d] \in {"CLOSED", "DELETED"} => status'[d] = status[d]
    BY <1>1, <1>3, <1>5, <1>6
  <2> QED
    BY <1>1, <2>1, <2>3, <2>4, <2>5, <2>6, OthersStay
<1> QED
  BY <1>1, <1>4, <1>7, FinishProc DEF IInv, TypeOK

(* Who revises a version, and finds it closed and the latest, has it alone *)
(* and gives the next number to an id that is free.                        *)
LEMMA ReviseFinds ==
    ASSUME IInv, NEW p \in Procs, At(p, "write", "revise")
    PROVE  /\ Doc(p) \in Live /\ status[Doc(p)] = "CLOSED" /\ Latest(Doc(p))
           /\ call[p].what \in Docs /\ status[call[p].what] = "NONE"
           /\ seen[p].copy = content[Doc(p)] /\ content[Doc(p)] \in Contents
<1>1. /\ Doc(p) \in Live /\ status[Doc(p)] = "CLOSED" /\ Latest(Doc(p))
      /\ call[p].what \in Docs /\ seen[p].copy = content[Doc(p)]
      /\ status[call[p].what] = "NONE" \/ Superseded(Doc(p))
  BY DEF IInv, Established, Asked, At, InTransaction, Revises
<1>2. ~Superseded(Doc(p))
  <2>1. \A e \in Docs : status[e] = "CLOSED" => version[e] <= version[Doc(p)]
    BY <1>1 DEF Latest, Live
  <2>2. \A e \in Docs : version[e] \in Nat
    BY DEF IInv, TypeOK, RowType
  <2>3. Doc(p) \in Docs
    BY <1>1 DEF Live
  <2> QED
    BY <1>1, <2>1, <2>2, <2>3 DEF Superseded
<1>3. content[Doc(p)] \in Contents
  BY <1>1 DEF IInv, TypeOK, RowType, Live
<1> QED
  BY <1>1, <1>2, <1>3

LEMMA ReviseStep ==
    ASSUME IInv, UNCHANGED workload, NEW p \in Procs, CommitRevise(p)
    PROVE  IInv'
<1> DEFINE d == Doc(p)
           new == call[p].what
<1>1. /\ At(p, "write", "revise") /\ Finish(p) /\ UNCHANGED official
      /\ status' = [status EXCEPT ![new] = "DRAFT"]
      /\ version' = [version EXCEPT ![new] = version[d] + 1]
      /\ content' = [content EXCEPT ![new] = seen[p].copy]
  BY DEF CommitRevise
<1>2. /\ d \in Live /\ status[d] = "CLOSED" /\ Latest(d) /\ new \in Docs /\ status[new] = "NONE"
      /\ seen[p].copy = content[d] /\ content[d] \in Contents
  BY <1>1, ReviseFinds
<1>3. RowType /\ RowInv
  BY DEF IInv, TypeOK
<1>4. RowType' /\ RowInv' /\ Live' = Live \cup {new}
  BY <1>1, <1>2, <1>3, ReviseRows
<1>5. \A e \in Docs : e # new =>
          status'[e] = status[e] /\ version'[e] = version[e] /\ content'[e] = content[e]
  BY <1>1 DEF IInv, TypeOK, RowType
<1>6. status'[d] = "CLOSED" /\ version'[d] = version[d] /\ d \in Docs
  BY <1>2, <1>5 DEF Live
<1> HIDE DEF d, new
<1>7. ASSUME NEW q \in Procs \ {p} PROVE Established(q)'
  <2>1. pc'[q] = pc[q] /\ call'[q] = call[q] /\ seen'[q] = seen[q] /\ Established(q)
    BY <1>1, FinishProc DEF IInv
  <2>2. Doc(q) \in Docs /\ Doc(q)' = Doc(q)
    BY <2>1, CallShape DEF IInv, TypeOK, Doc
  <2>3. pc[q] # "idle" => status[Doc(q)] # "NONE" /\ Doc(q) # new
    BY <1>2, <2>1 DEF Established
  <2>4. InTransaction(q) => Doc(q) \in Live' /\ Doc(q) # d
    BY <1>1, <1>4, <2>1 DEF IInv, ProcInv, Exclusion, Established, At, InTransaction, UpdateOps, d
  <2>5. ~At(q, "write", "revise")
    <3> SUFFICES ASSUME At(q, "write", "revise") PROVE FALSE
      OBVIOUS
    <3>1. Doc(q) \in Live /\ Latest(Doc(q)) /\ Doc(q) # d
      BY <2>4, ReviseFinds DEF At, InTransaction
    <3>2. version[Doc(q)] = version[d]
      BY <1>2, <1>3, <3>1, LatestNumber
    <3> QED
      BY <1>2, <1>3, <3>1, <3>2 DEF RowInv, OneVersion
  <2>6. Revises(q) => \/ status'[call[q].what] = status[call[q].what]
                      \/ Superseded(Doc(q))'
    <3> SUFFICES ASSUME Revises(q), call[q].what = new PROVE Superseded(Doc(q))'
      BY <1>5, <2>1 DEF Established, Asked, Revises
    <3>1. Doc(q) # d
      BY <1>1 DEF IInv, ProcInv, NewVersions, Revises, At, d, new
    <3>2. CASE Doc(q) \in Live
      <4>1. version[Doc(q)] <= version[d] /\ version[Doc(q)] # version[d]
        BY <1>2, <1>3, <3>1, <3>2 DEF Latest, RowInv, OneVersion
      <4>2. version[Doc(q)] \in Nat /\ version[d] \in Nat
        BY <1>3, <1>6, <2>2 DEF RowType
      <4>3. version'[Doc(q)] = version[Doc(q)]
        BY <1>5, <2>2, <2>3 DEF Revises
      <4>4. version'[Doc(q)] < version'[d]
        BY <1>6, <4>1, <4>2, <4>3
      <4> QED
        BY <1>6, <2>2, <4>4 DEF Superseded
    <3>3. CASE Doc(q) \notin Live
      <4>1. status[Doc(q)] = "DELETED"
        BY <1>3, <2>2, <2>3, <3>3 DEF RowType, Live, Revises
      <4>2. status'[Doc(q)] = "DELETED"
        BY <1>5, <2>2, <2>3, <4>1 DEF Revises
      <4> QED
        BY <2>2, <4>2 DEF Superseded
    <3> QED
      BY <3>2, <3>3
  <2>7. /\ \A e \in Docs : status[e] # "NONE" => version'[e] = version[e] /\ status'[e] # "NONE"
        /\ \A e \in Docs : status[e] \in {"CLOSED", "DELETED"} => status'[e] = status[e]
        /\ InTransaction(q) =>
              status'[Doc(q)] = status[Doc(q)] /\ content'[Doc(q)] = content[Doc(q)]
    BY <1>2, <1>5, <2>2, <2>3 DEF InTransaction
  <2> QED
    BY <2>1, <2>4, <2>5, <2>6, <2>7, OthersStay
<1> QED
  BY <1>1, <1>4, <1>7, FinishProc DEF IInv, TypeOK
-----------------------------------------------------------------------------
LEMMA InitIInv == Init => IInv
<1> SUFFICES ASSUME Init PROVE IInv
  OBVIOUS
<1>1. TypeOK
  BY EmptyShape DEF Init, TypeOK, RowType, ProcType
<1>2. Live = {First}
  BY FirstAssumption DEF Init, Live
<1>3. IsFiniteSet(Live) /\ Cardinality(Live) = 1
  BY <1>2, FS_Singleton
<1>4. version[First] = 1
  BY FirstAssumption DEF Init
<1>5. VersionChain
  <2>1. {version[d] : d \in Live} = {1}
    BY <1>2, <1>4
  <2>2. 1..1 = {1}
    OBVIOUS
  <2>3. \A d \in Live : Latest(d)
    BY <1>2, <1>4 DEF Latest
  <2> QED
    BY <1>3, <2>1, <2>2, <2>3 DEF VersionChain
<1>6. OneVersion /\ OfficialIsClosed
  BY <1>2 DEF Init, OneVersion, OfficialIsClosed
<1>7. ProcInv /\ \A p \in Procs : Established(p)
  BY DEF Init, ProcInv, Locking, Exclusion, NewVersions, Established, Asked, NoCall,
         InTransaction, Revises, At
<1> QED
  BY <1>1, <1>3, <1>5, <1>6, <1>7 DEF IInv, RowInv

LEMMA NextIInv == IInv /\ [Next]_vars => IInv'
<1> SUFFICES ASSUME IInv, [Next]_vars PROVE IInv'
  OBVIOUS
<1>1. CASE UNCHANGED vars
  <2>1. UNCHANGED rows /\ UNCHANGED <<shared, locked, siteLock, pc, call, seen, workload>>
    BY <1>1 DEF vars, rows
  <2>2. ProcType' /\ ProcInv'
    BY <2>1 DEF IInv, TypeOK, ProcType, ProcInv, Locking, Exclusion, NewVersions, InTransaction,
                Revises, Doc
  <2> QED
    BY <2>1, <2>2, SameRows DEF IInv, TypeOK
<1>2. ASSUME UNCHANGED workload, NEW p \in Procs, Step(p) PROVE IInv'
  <2>1. pc[p] \in {"idle", "lock", "read", "write"}
    BY DEF IInv, TypeOK, ProcType
  <2>2. CASE \/ BeginContent(p) \/ BeginDocument(p) \/ BeginSetOfficial(p)
             \/ LockShare(p) \/ LockUpdate(p) \/ CommitRevise(p) \/ SetOfficial(p) \/ Abort(p)
    BY <1>2, <2>2, BeginSteps, LockSteps, ReviseStep, OfficialSteps
  <2>3. CASE \/ AddNode(p) \/ ReadRemoveNode(p) \/ CommitRemoveNode(p) \/ AddItem(p)
             \/ UpdateItem(p) \/ RemoveItem(p) \/ Update(p) \/ Import(p) \/ Remove(p) \/ Close(p)
             \/ ReadRevise(p) \/ LockSite(p)
    <3>1. pc[p] \in {"read", "write"}
      BY <2>3 DEF AddNode, ReadRemoveNode, CommitRemoveNode, AddItem, UpdateItem, RemoveItem,
                  Update, Import, Remove, Close, ReadRevise, LockSite, At
    <3>2. CASE pc[p] = "read"
      <4>1. ~CommitRemoveNode(p)
        BY <3>2 DEF CommitRemoveNode, At
      <4> QED
        BY <1>2, <2>3, <3>2, <4>1, ReadSteps
    <3>3. CASE pc[p] = "write"
      <4>1. ~ReadRemoveNode(p) /\ ~ReadRevise(p) /\ ~LockSite(p)
        BY <3>3 DEF ReadRemoveNode, ReadRevise, LockSite, At
      <4> QED
        BY <1>2, <2>3, <3>3, <4>1, ContentSteps, StatusSteps
    <3> QED
      BY <3>1, <3>2, <3>3
  <2> QED
    BY <1>2, <2>2, <2>3 DEF Step
<1> QED
  BY <1>1, <1>2 DEF Next

LEMMA IInvHolds == Spec => []IInv
BY InitIInv, NextIInv, PTL DEF Spec
-----------------------------------------------------------------------------
(* Every variable keeps its shape, however many calls and versions.        *)
THEOREM TypeCorrect == Spec => []TypeOK
<1>1. IInv => TypeOK
  BY DEF IInv
<1> QED
  BY <1>1, IInvHolds, PTL

(* The versions of a budget are numbered 1, 2, 3, ... without gap or       *)
(* repetition, whoever revises and deletes at once, and only the last may  *)
(* be a draft (revise, remove, close).                                     *)
THEOREM VersionsAreAChain == Spec => []VersionChain
<1>1. IInv => VersionChain
  BY DEF IInv, RowInv
<1> QED
  BY <1>1, IInvHolds, PTL

(* The official budget of a site is closed, and stays so (setOfficial).    *)
THEOREM OfficialStaysClosed == Spec => []OfficialIsClosed
<1>1. IInv => OfficialIsClosed
  BY DEF IInv, RowInv
<1> QED
  BY <1>1, IInvHolds, PTL

(* Which transaction writes a status.                                      *)
LEMMA StatusWriters ==
    ASSUME [Next]_vars, status' # status
    PROVE  \E p \in Procs : /\ pc[p] = "write"
                            /\ Remove(p) \/ Close(p) \/ CommitRevise(p)
<1>1. PICK p \in Procs : Step(p)
  BY DEF Next, vars
<1>2. UNCHANGED rows => FALSE
  BY DEF rows
<1>3. /\ ~BeginContent(p) /\ ~BeginDocument(p) /\ ~BeginSetOfficial(p)
      /\ ~LockShare(p) /\ ~LockUpdate(p) /\ ~LockSite(p) /\ ~Abort(p)
      /\ ~ReadRemoveNode(p) /\ ~ReadRevise(p) /\ ~SetOfficial(p) /\ ~CommitRemoveNode(p)
  BY <1>2 DEF BeginContent, BeginDocument, BeginSetOfficial, Begin, LockShare, LockUpdate, Locked,
              LockSite, Abort, ReadRemoveNode, ReadRevise, Checked, SetOfficial,
              CommitRemoveNode, Write
<1>4. ~AddNode(p) /\ ~AddItem(p) /\ ~UpdateItem(p) /\ ~RemoveItem(p) /\ ~Update(p) /\ ~Import(p)
  BY <1>2 DEF AddNode, AddItem, UpdateItem, RemoveItem, Update, Import, Checked, Write
<1>5. Remove(p) \/ Close(p) \/ CommitRevise(p)
  BY <1>1, <1>3, <1>4 DEF Step
<1>6. pc[p] = "write"
  BY <1>2, <1>5 DEF Remove, Close, CommitRevise, Checked, At
<1> QED
  BY <1>5, <1>6

(* A revision appears as what its origin is at that moment, closed, and    *)
(* one number after it (revise, under FOR UPDATE).                         *)
THEOREM RevisionsCopyTheOrigin == Spec => RevisionCopiesOrigin
<1> DEFINE Copies ==
        \A d \in Docs : status[d] = "NONE" /\ status'[d] = "DRAFT" =>
            \E origin \in Live :
                /\ status[origin] = "CLOSED" /\ version'[d] = version[origin] + 1
                /\ content'[d] = content[origin]
<1>1. IInv /\ [Next]_vars => [Copies]_vars
  <2> SUFFICES ASSUME IInv, [Next]_vars, NEW d \in Docs, status[d] = "NONE", status'[d] = "DRAFT"
               PROVE  \E origin \in Live :
                          /\ status[origin] = "CLOSED" /\ version'[d] = version[origin] + 1
                          /\ content'[d] = content[origin]
    OBVIOUS
  <2>0. /\ status \in [Docs -> {"NONE", "DRAFT", "CLOSED", "DELETED"}]
        /\ version \in [Docs -> Nat] /\ content \in [Docs -> Contents]
    BY DEF IInv, TypeOK, RowType
  <2>1. PICK p \in Procs : pc[p] = "write" /\ (Remove(p) \/ Close(p) \/ CommitRevise(p))
    BY StatusWriters
  <2>2. CommitRevise(p)
    <3>1. ~Remove(p) /\ ~Close(p)
      BY <2>0, <2>1 DEF Remove, Close, At
    <3> QED
      BY <2>1, <3>1
  <2>3. /\ Doc(p) \in Live /\ status[Doc(p)] = "CLOSED" /\ seen[p].copy = content[Doc(p)]
        /\ call[p].what \in Docs
    BY <2>2, ReviseFinds DEF CommitRevise
  <2>4. /\ status' = [status EXCEPT ![call[p].what] = "DRAFT"]
        /\ version' = [version EXCEPT ![call[p].what] = version[Doc(p)] + 1]
        /\ content' = [content EXCEPT ![call[p].what] = seen[p].copy]
    BY <2>2 DEF CommitRevise
  <2>5. d = call[p].what
    BY <2>0, <2>4
  <2>6. version'[d] = version[Doc(p)] + 1 /\ content'[d] = content[Doc(p)]
    BY <2>0, <2>3, <2>4, <2>5
  <2> QED
    BY <2>3, <2>6
<1> HIDE DEF Copies
<1>2. Spec => [][Copies]_vars
  BY <1>1, IInvHolds, PTL DEF Spec
<1> QED
  BY <1>2 DEF Copies, RevisionCopiesOrigin

(* What closes has items and a whole structure when it closes, whatever    *)
(* was written to it since it was examined (closingProblems, under FOR     *)
(* UPDATE).                                                                *)
THEOREM ClosedIsComplete == Spec => ClosesComplete
<1> DEFINE Whole ==
        \A d \in Docs : status[d] = "DRAFT" /\ status'[d] = "CLOSED" =>
            ItemsOf(content'[d]) # {} /\ KeysHold(content'[d])
<1>1. IInv /\ [Next]_vars => [Whole]_vars
  <2> SUFFICES ASSUME IInv, [Next]_vars, NEW d \in Docs, status[d] = "DRAFT",
                      status'[d] = "CLOSED"
               PROVE  ItemsOf(content'[d]) # {} /\ KeysHold(content'[d])
    OBVIOUS
  <2>0. status \in [Docs -> {"NONE", "DRAFT", "CLOSED", "DELETED"}]
    BY DEF IInv, TypeOK, RowType
  <2>1. PICK p \in Procs : pc[p] = "write" /\ (Remove(p) \/ Close(p) \/ CommitRevise(p))
    BY StatusWriters
  <2>2. Close(p)
    <3>1. ~Remove(p) /\ ~CommitRevise(p)
      BY <2>0, <2>1 DEF Remove, CommitRevise, At
    <3> QED
      BY <2>1, <3>1
  <2>3. /\ At(p, "write", "close") /\ status' = [status EXCEPT ![Doc(p)] = "CLOSED"]
        /\ UNCHANGED content
    BY <2>1, <2>2 DEF Close, At
  <2>4. d = Doc(p)
    BY <2>0, <2>3
  <2> QED
    BY <2>3, <2>4 DEF IInv, Established
<1> HIDE DEF Whole
<1>2. Spec => [][Whole]_vars
  BY <1>1, IInvHolds, PTL DEF Spec
<1> QED
  BY <1>2 DEF Whole, ClosesComplete
=============================================================================
