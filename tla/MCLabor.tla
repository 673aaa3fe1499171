------------------------------- MODULE MCLabor -------------------------------
(* Small instances of LaborCost, one workload at a time.                   *)
EXTENDS LaborCost, TLC

Symmetry == Permutations(Procs) \cup Permutations(AllocIds) \cup Permutations(Clerks)
            \cup Permutations(Sites)

VARIABLE workload

(* Periods: the calls of Allocations, two at once, and changes of status.  *)
(* Pay: attendance and changes of pay, two at once, without periods.       *)
(* Month: attendance, payslips and periods, one call at a time.            *)
Workloads == {"Periods", "Pay", "Month"}

NewDesk == {c \in Clerks : desk[c] = Idle /\ desk'[c] # Idle}
NewCalls == {p \in Procs : pc[p] = "idle" /\ pc'[p] # "idle"}
Busy == (\E p \in Procs : pc[p] # "idle") \/ (\E c \in Clerks : desk[c] # Idle)

(* Bounds.                                                                 *)
Bound ==
    /\ loose \/ overlapped => NewDesk = {} /\ NewCalls = {}
    /\ workload = "Periods" =>
        /\ payslip' = payslip
        /\ \A c \in NewDesk : /\ desk'[c].step = "patch" /\ desk'[c].working = {~active}
                              /\ desk'[c].type = employee.type /\ desk'[c].rate = Same
                              /\ \A b \in Clerks : desk[b] = Idle
    /\ workload = "Pay" =>
        /\ NewCalls = {} /\ payslip' = payslip
        /\ \A c \in NewDesk : desk'[c].step = "patch" => desk'[c].working = {}
    /\ workload = "Month" =>
        /\ Busy => NewDesk = {} /\ NewCalls = {}
        /\ \A c \in NewDesk : desk'[c].step # "patch"
        /\ \A c \in NewDesk : desk'[c].step = "edit" => desk'[c].is.complete
        /\ \A i \in AllocIds : allocations'[i].status # "TRASHED"
        /\ \A p \in NewCalls : call'[p].op = "create"
        /\ Cardinality({i \in AllocIds : allocations'[i].status # "NONE"}) <= 1

MCInit ==
    /\ LaborInit /\ workload \in Workloads
    /\ workload # "Month" => \A i, j \in AllocIds : siteOf[i] = siteOf[j]
    /\ workload = "Periods" => employee.type = "CLT"
    /\ workload = "Month" => employee.rate <= 1

MCSpec == MCInit /\ [][LaborNext /\ Bound /\ UNCHANGED workload]_<<allVars, workload>>
=============================================================================
