------------------------------ MODULE Budgets ------------------------------
(***************************************************************************)
(* The versions of one budget of a construction site.                      *)
(*                                                                         *)
(* Every write is a transaction that first locks the row of the budget:    *)
(* FOR SHARE to write groups and items, so that many may, FOR UPDATE for   *)
(* the header, for deleting, importing and closing, and for the version    *)
(* that a revision copies.  The status that the lock returns cannot change *)
(* while it is held; what other FOR SHARE holders write can.               *)
(***************************************************************************)
EXTENDS Naturals, FiniteSets

CONSTANTS
    Procs,          \* concurrent HTTP requests
    Docs,           \* ids that versions of the budget may get
    First,          \* the first version, as created
    Groups,         \* ids of groups (EAP); a copy keeps the id
    Items,          \* ids of items; a copy keeps the id
    Quantities,     \* quantities of items
    Workloads,      \* what the site's users may do: see Init
    Root, Absent    \* a group without parent; a group or item that is not there

ShareOps == {"addNode", "removeNode", "addItem", "updateItem", "removeItem", "setOfficial"}
UpdateOps == {"update", "remove", "close", "import", "revise"}

ASSUME FirstAssumption == First \in Docs
ASSUME QuantityAssumption == Quantities \subseteq Nat \ {0}
ASSUME WorkloadAssumption ==
    Workloads \subseteq [ops: SUBSET (ShareOps \cup UpdateOps),
                         calls: Nat, versions: Nat,
                         groups: SUBSET Groups, items: SUBSET Items]
ASSUME RootAssumption == Root \notin Groups /\ Absent \notin Groups \cup {Root}

VARIABLES
    status,         \* Budget.status, or "NONE", or "DELETED" (deletedAt)
    version,        \* Budget.version
    content,        \* its groups with their parents, its items, and its BDI
    official,       \* ConstructionSite.currentBudgetId, as a set
    shared,         \* who holds FOR SHARE on each budget
    locked,         \* who holds FOR UPDATE on each budget
    siteLock,       \* who holds FOR UPDATE on the construction site
    pc, call, seen,
    workload        \* which operations come, how many at once, on how much

vars == <<status, version, content, official, shared, locked, siteLock, pc, call, seen, workload>>
locks == <<shared, locked, siteLock>>
rows == <<status, version, content, official>>

Lines == [group: Groups, quantity: Quantities]
Contents == [parent: [Groups -> Groups \cup {Root, Absent}],
             line: [Items -> Lines \cup {Absent}],
             bdi: 0..1]
Empty == [parent |-> [g \in Groups |-> Absent],
          line |-> [i \in Items |-> Absent], bdi |-> 0]

NoCall == [op |-> "none", doc |-> First, what |-> Root, into |-> Root]
NothingSeen == [groups |-> {}, copy |-> Empty]

-----------------------------------------------------------------------------
GroupsOf(c) == {g \in Groups : c.parent[g] # Absent}
ItemsOf(c) == {i \in Items : c.line[i] # Absent}
ItemsIn(c, groups) == {i \in ItemsOf(c) : c.line[i].group \in groups}

(* subtreeIds: a group and the groups below it.                            *)
Subtree(c, g) ==
    LET Closed(s) == \A h \in Groups : c.parent[h] \in s => h \in s
    IN {h \in Groups : \A s \in SUBSET Groups : g \in s /\ Closed(s) => h \in s}

(* The foreign keys of groups and items, inside one budget.                *)
KeysHold(c) ==
    /\ \A g \in GroupsOf(c) : c.parent[g] \in GroupsOf(c) \cup {Root}
    /\ \A i \in ItemsOf(c) : c.line[i].group \in GroupsOf(c)

Live == {d \in Docs : status[d] \in {"DRAFT", "CLOSED"}}
Latest(d) == \A e \in Live : version[e] <= version[d]

At(p, step, op) == pc[p] = step /\ call[p].op = op
Doc(p) == call[p].doc

Begin(p, op, d, what, into) ==
    /\ pc[p] = "idle" /\ op \in workload.ops
    /\ Cardinality({q \in Procs : pc[q] # "idle"}) < workload.calls
    /\ call' = [call EXCEPT ![p] = [op |-> op, doc |-> d, what |-> what, into |-> into]]
    /\ pc' = [pc EXCEPT ![p] = "lock"]
    /\ UNCHANGED <<rows, locks, seen>>

(* The transaction ends, and its locks with it.                            *)
Finish(p) ==
    /\ pc' = [pc EXCEPT ![p] = "idle"]
    /\ call' = [call EXCEPT ![p] = NoCall]
    /\ seen' = [seen EXCEPT ![p] = NothingSeen]
    /\ shared' = [d \in Docs |-> shared[d] \ {p}]
    /\ locked' = [d \in Docs |-> locked[d] \ {p}]
    /\ siteLock' = siteLock \ {p}

Abort(p) == pc[p] # "idle" /\ Finish(p) /\ UNCHANGED rows

Locked(p) ==
    /\ pc' = [pc EXCEPT ![p] = "read"]
    /\ UNCHANGED <<rows, siteLock, call, seen>>

(* lockEditable: a budget that is gone is not found.                       *)
LockShare(p) ==
    /\ pc[p] = "lock" /\ call[p].op \in ShareOps
    /\ Doc(p) \in Live /\ locked[Doc(p)] = {}
    /\ shared' = [shared EXCEPT ![Doc(p)] = @ \cup {p}]
    /\ Locked(p)
    /\ UNCHANGED locked

(* Mutant: FOR SHARE where FOR UPDATE is due.                              *)
LockUpdateShared(p) ==
    /\ pc[p] = "lock" /\ call[p].op \in UpdateOps
    /\ Doc(p) \in Live /\ locked[Doc(p)] = {}
    /\ shared' = [shared EXCEPT ![Doc(p)] = @ \cup {p}]
    /\ Locked(p)
    /\ UNCHANGED locked

LockUpdate(p) ==
    /\ pc[p] = "lock" /\ call[p].op \in UpdateOps
    /\ Doc(p) \in Live /\ locked[Doc(p)] = {} /\ shared[Doc(p)] = {}
    /\ locked' = [locked EXCEPT ![Doc(p)] = {p}]
    /\ Locked(p)
    /\ UNCHANGED shared

Checked(p, groups, copy) ==
    /\ seen' = [seen EXCEPT ![p] = [groups |-> groups, copy |-> copy]]
    /\ pc' = [pc EXCEPT ![p] = "write"]
    /\ UNCHANGED <<rows, locks, call>>

(* The database accepts what the statements make of the content.           *)
Write(p, c) ==
    /\ KeysHold(c)
    /\ content' = [content EXCEPT ![Doc(p)] = c]
    /\ Finish(p)
    /\ UNCHANGED <<status, version, official>>
-----------------------------------------------------------------------------
(* Groups and items, under FOR SHARE.                                      *)
New(d, x) == \A p \in Procs : call[p].doc = d => call[p].what # x

BeginContent(p) ==
    \E d \in Live :
        \/ \E g \in workload.groups, q \in workload.groups \cup {Root} :
            /\ New(d, g) /\ content[d].parent[g] = Absent
            /\ Begin(p, "addNode", d, g, q)
        \/ \E g \in workload.groups : Begin(p, "removeNode", d, g, Root)
        \/ \E i \in workload.items, g \in workload.groups :
            /\ New(d, i) /\ content[d].line[i] = Absent
            /\ Begin(p, "addItem", d, i, g)
        \/ \E i \in workload.items, op \in {"updateItem", "removeItem"} : Begin(p, op, d, i, Root)

AddNode(p) ==
    \/ /\ At(p, "read", "addNode")
       /\ call[p].into \in GroupsOf(content[Doc(p)]) \cup {Root}
       /\ Checked(p, {}, Empty)
    \/ /\ At(p, "write", "addNode")
       /\ Write(p, [content[Doc(p)] EXCEPT !.parent[call[p].what] = call[p].into])

(* A closed budget keeps an item outside the groups that go.               *)
ReadRemoveNode(p) ==
    /\ At(p, "read", "removeNode")
    /\ call[p].what \in GroupsOf(content[Doc(p)])
    /\ LET c == content[Doc(p)]
           groups == Subtree(c, call[p].what)
       IN /\ status[Doc(p)] = "CLOSED" => ~(ItemsOf(c) \subseteq ItemsIn(c, groups))
          /\ Checked(p, groups, Empty)

CommitRemoveNode(p) ==
    /\ At(p, "write", "removeNode")
    /\ LET c == content[Doc(p)]
           gone == ItemsIn(c, seen[p].groups)
       IN Write(p, [c EXCEPT
              !.parent = [g \in Groups |-> IF g \in seen[p].groups THEN Absent ELSE c.parent[g]],
              !.line = [i \in Items |-> IF i \in gone THEN Absent ELSE c.line[i]]])

AddItem(p) ==
    \/ /\ At(p, "read", "addItem")
       /\ call[p].into \in GroupsOf(content[Doc(p)])
       /\ Checked(p, {}, Empty)
    \/ /\ At(p, "write", "addItem")
       /\ \E n \in Quantities :
            Write(p, [content[Doc(p)] EXCEPT
                !.line[call[p].what] = [group |-> call[p].into, quantity |-> n]])

UpdateItem(p) ==
    \/ /\ At(p, "read", "updateItem")
       /\ call[p].what \in ItemsOf(content[Doc(p)])
       /\ Checked(p, {}, Empty)
    \/ /\ At(p, "write", "updateItem")
       /\ call[p].what \in ItemsOf(content[Doc(p)])
       /\ \E n \in Quantities :
            Write(p, [content[Doc(p)] EXCEPT !.line[call[p].what].quantity = n])

RemoveItem(p) ==
    \/ /\ At(p, "read", "removeItem")
       /\ call[p].what \in ItemsOf(content[Doc(p)])
       /\ status[Doc(p)] = "CLOSED" => Cardinality(ItemsOf(content[Doc(p)])) > 1
       /\ Checked(p, {}, Empty)
    \/ /\ At(p, "write", "removeItem")
       /\ call[p].what \in ItemsOf(content[Doc(p)])
       /\ Write(p, [content[Doc(p)] EXCEPT !.line[call[p].what] = Absent])
-----------------------------------------------------------------------------
(* The document, under FOR UPDATE.                                         *)
BeginDocument(p) ==
    \E d \in Live :
        \/ \E op \in UpdateOps \ {"revise"} : Begin(p, op, d, Root, Root)
        \/ \E new \in Docs :
            /\ New(d, new) /\ status[new] = "NONE"
            /\ Cardinality({e \in Docs : status[e] # "NONE" \/ ~New(d, e)}) < workload.versions
            /\ Begin(p, "revise", d, new, Root)

(* Header and BDI.                                                         *)
Update(p) ==
    \/ At(p, "read", "update") /\ Checked(p, {}, Empty)
    \/ /\ At(p, "write", "update")
       /\ Write(p, [content[Doc(p)] EXCEPT !.bdi = 1 - @])

(* A spreadsheet fills a budget that has no group.                         *)
Import(p) ==
    \/ /\ At(p, "read", "import")
       /\ GroupsOf(content[Doc(p)]) = {}
       /\ Checked(p, {}, Empty)
    \/ /\ At(p, "write", "import")
       /\ \E g \in workload.groups, n \in Quantities, some \in (SUBSET workload.items) \ {{}} :
            /\ Write(p, [content[Doc(p)] EXCEPT
                 !.parent[g] = Root,
                 !.line = [i \in Items |-> IF i \in some THEN [group |-> g, quantity |-> n]
                                                         ELSE Absent]])

(* A draft is deleted; the others are history.                             *)
Remove(p) ==
    \/ At(p, "read", "remove") /\ status[Doc(p)] = "DRAFT" /\ Checked(p, {}, Empty)
    \/ /\ At(p, "write", "remove")
       /\ status' = [status EXCEPT ![Doc(p)] = "DELETED"]
       /\ Finish(p) /\ UNCHANGED <<version, content, official>>

(* closingProblems, and the conditional update that closes.                *)
Close(p) ==
    \/ /\ At(p, "read", "close") /\ status[Doc(p)] = "DRAFT"
       /\ ItemsOf(content[Doc(p)]) # {} /\ KeysHold(content[Doc(p)])
       /\ Checked(p, {}, Empty)
    \/ /\ At(p, "write", "close") /\ status[Doc(p)] = "DRAFT"
       /\ status' = [status EXCEPT ![Doc(p)] = "CLOSED"]
       /\ Finish(p) /\ UNCHANGED <<version, content, official>>

(* Mutant: a draft may be revised.                                         *)
ReadReviseDraft(p) ==
    /\ At(p, "read", "revise") /\ Latest(Doc(p))
    /\ Checked(p, {}, content[Doc(p)])

(* The latest version, closed, is copied.                                  *)
ReadRevise(p) ==
    /\ At(p, "read", "revise") /\ status[Doc(p)] = "CLOSED" /\ Latest(Doc(p))
    /\ Checked(p, {}, content[Doc(p)])

(* The unique index (company, code, version) is the second barrier.        *)
CommitRevise(p) ==
    /\ At(p, "write", "revise")
    /\ LET new == call[p].what
       IN /\ \A d \in Live : version[d] # version[Doc(p)] + 1
          /\ status' = [status EXCEPT ![new] = "DRAFT"]
          /\ version' = [version EXCEPT ![new] = version[Doc(p)] + 1]
          /\ content' = [content EXCEPT ![new] = seen[p].copy]
    /\ Finish(p)
    /\ UNCHANGED official

(* The official budget of the site: FOR SHARE on the budget, then FOR      *)
(* UPDATE on the site.                                                     *)
BeginSetOfficial(p) == \E d \in Live : Begin(p, "setOfficial", d, Root, Root)

(* Mutant: a draft may become official.                                    *)
LockSiteAny(p) ==
    /\ At(p, "read", "setOfficial") /\ siteLock = {}
    /\ siteLock' = {p}
    /\ pc' = [pc EXCEPT ![p] = "write"]
    /\ UNCHANGED <<rows, shared, locked, call, seen>>

LockSite(p) ==
    /\ At(p, "read", "setOfficial") /\ status[Doc(p)] = "CLOSED" /\ siteLock = {}
    /\ siteLock' = {p}
    /\ pc' = [pc EXCEPT ![p] = "write"]
    /\ UNCHANGED <<rows, shared, locked, call, seen>>

SetOfficial(p) ==
    /\ At(p, "write", "setOfficial")
    /\ official' = {Doc(p)}
    /\ Finish(p)
    /\ UNCHANGED <<status, version, content>>
-----------------------------------------------------------------------------
Init ==
    /\ status = [d \in Docs |-> IF d = First THEN "DRAFT" ELSE "NONE"]
    /\ version = [d \in Docs |-> IF d = First THEN 1 ELSE 0]
    /\ content = [d \in Docs |-> Empty]
    /\ official = {}
    /\ shared = [d \in Docs |-> {}]
    /\ locked = [d \in Docs |-> {}]
    /\ siteLock = {}
    /\ pc = [p \in Procs |-> "idle"]
    /\ call = [p \in Procs |-> NoCall]
    /\ seen = [p \in Procs |-> NothingSeen]
    /\ workload \in Workloads

Step(p) ==
    \/ BeginContent(p) \/ BeginDocument(p) \/ BeginSetOfficial(p)
    \/ LockShare(p) \/ LockUpdate(p)
    \/ AddNode(p) \/ ReadRemoveNode(p) \/ CommitRemoveNode(p)
    \/ AddItem(p) \/ UpdateItem(p) \/ RemoveItem(p)
    \/ Update(p) \/ Import(p) \/ Remove(p) \/ Close(p)
    \/ ReadRevise(p) \/ CommitRevise(p)
    \/ LockSite(p) \/ SetOfficial(p)
    \/ Abort(p)

Next == UNCHANGED workload /\ \E p \in Procs : Step(p)

Spec == Init /\ [][Next]_vars
-----------------------------------------------------------------------------
(* The versions that exist are numbered 1, 2, 3, ... without gap or        *)
(* repetition, and only the last of them may be a draft.                   *)
VersionChain ==
    /\ {version[d] : d \in Live} = 1..Cardinality(Live)
    /\ \A d \in Live : status[d] = "DRAFT" => Latest(d)

(* A revision begins equal to the version that it copies, as it is when    *)
(* the copy appears.                                                       *)
RevisionCopiesOrigin ==
    [][\A d \in Docs : status[d] = "NONE" /\ status'[d] = "DRAFT" =>
        \E origin \in Live :
            /\ status[origin] = "CLOSED" /\ version'[d] = version[origin] + 1
            /\ content'[d] = content[origin]]_vars

(* What is closed has items, and its structure is whole, when it closes.   *)
ClosesComplete ==
    [][\A d \in Docs : status[d] = "DRAFT" /\ status'[d] = "CLOSED" =>
        ItemsOf(content'[d]) # {} /\ KeysHold(content'[d])]_vars

(* The official budget of a site is a closed one.                          *)
OfficialIsClosed == \A d \in official : status[d] = "CLOSED"
=============================================================================
