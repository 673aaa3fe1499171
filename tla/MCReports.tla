------------------------------ MODULE MCReports ------------------------------
(* The reports of a site: instances of the three modules about them, which *)
(* write different tables.  An instance is about one of the three.         *)
EXTENDS DailyReport, ReportNumbering, ReportMedia, TLC

CONSTANTS i1            \* one of the items

VARIABLE part

(* Sets of different parts that are of one size share their values: there  *)
(* are fewer permutations to try.                                          *)
Symmetry == Permutations(Procs) \cup Permutations(Requests)

(* The content of a report: two calls at once on short lists; one at a     *)
(* time on longer ones.                                                    *)
Pair == [calls |-> 2, fields |-> {1, 4}, items |-> {i1}]
Single == [calls |-> 1, fields |-> {1, 2, 4}, items |-> Items]
Loads == {Pair, Single}

MCInit ==
    /\ Init /\ NumberingInit /\ MediaInit
    /\ part \in {"content", "numbers", "media"}
    /\ part # "content" => workload = Single

MCNext ==
    /\ \/ part = "content" /\ Next /\ UNCHANGED <<numberingVars, mediaVars>>
       \/ part = "numbers" /\ NumberingNext /\ UNCHANGED <<vars, mediaVars>>
       \/ part = "media" /\ MediaNext /\ UNCHANGED <<vars, numberingVars>>
    /\ UNCHANGED part

MCSpec == MCInit /\ [][MCNext]_<<vars, numberingVars, mediaVars, part>>
=============================================================================
