----------------------------- MODULE FiscalFeed -----------------------------
(* What the synchronisation promises of the documents that the tax         *)
(* authority (SEFAZ) numbers 1, 2, ...: each is stored at most once, and   *)
(* the cursor goes forward over what is stored or was given up, only.      *)
EXTENDS Naturals

CONSTANT MaxDocs    \* bound on the documents that are published

VARIABLES
    published,  \* documents 1..published exist
    cursor,     \* the last document dealt with
    copies,     \* how many rows each document has in the store
    lost        \* documents given up

feedVars == <<published, cursor, copies, lost>>

Settled(n) == copies[n] > 0 \/ n \in lost
Ahead == {n \in 1..MaxDocs : cursor < n /\ n <= published}

FeedInit ==
    published = 0 /\ cursor = 0 /\ copies = [n \in 1..MaxDocs |-> 0] /\ lost = {}

Publish ==
    /\ published < MaxDocs
    /\ published' = published + 1
    /\ UNCHANGED <<cursor, copies, lost>>

(* Documents arrive, some of them unreadable.                              *)
Receive ==
    /\ copies' \in [1..MaxDocs -> {0, 1}]
    /\ \A n \in 1..MaxDocs : copies'[n] # copies[n] => n \in Ahead /\ copies[n] = 0
    /\ lost' \in SUBSET (lost \cup Ahead) /\ lost \subseteq lost'
    /\ \A n \in lost' \ lost : copies'[n] = 0
    /\ UNCHANGED <<published, cursor>>

Move ==
    /\ cursor' \in Ahead
    /\ \A n \in 1..cursor' : Settled(n)
    /\ UNCHANGED <<published, copies, lost>>

(* The source says to go on after k, and what was not stored is given up.  *)
Skip ==
    /\ cursor' \in Ahead
    /\ lost' = lost \cup {n \in 1..cursor' : copies[n] = 0}
    /\ UNCHANGED <<published, copies>>

FeedNext == Publish \/ Receive \/ Move \/ Skip

FeedSpec == FeedInit /\ [][FeedNext]_feedVars
=============================================================================
