----------------------------- MODULE MCBudgets -----------------------------
(* Small instances of Budgets.                                             *)
EXTENDS Budgets, TLC

CONSTANTS g1, i1   \* one of the groups and one of the items

Symmetry == Permutations(Procs) \cup Permutations(Docs \ {First})

(* Two calls of any kind on two versions; two calls on the life of three   *)
(* versions; one call at a time on a larger structure.                     *)
Mixed == [ops |-> ShareOps \cup UpdateOps, calls |-> 2, versions |-> 2, groups |-> {g1}, items |-> {i1}]
Chain == [ops |-> {"import", "close", "revise", "remove", "setOfficial"},
          calls |-> 2, versions |-> 3, groups |-> {g1}, items |-> {i1}]
Alone == [ops |-> ShareOps \cup (UpdateOps \ {"update"}),
          calls |-> 1, versions |-> 1, groups |-> Groups, items |-> Items]
Loads == {Mixed, Chain, Alone}
=============================================================================
