----------------------------- MODULE FiscalSync -----------------------------
(***************************************************************************)
(* The synchronisation of one company's fiscal documents: a job and the    *)
(* users' "synchronise now" read the pages that the tax authority (SEFAZ)  *)
(* serves after the last number (NSU) read, store them and move the number.*)
(*                                                                         *)
(* One run at a time, by a lock in memory.  Each statement of the database *)
(* is atomic; the process may end, and an answer may be lost, between any  *)
(* two.  SEFAZ rejects (656) a query that follows within the hour one      *)
(* after which it had nothing more to serve, whoever asked.                *)
(***************************************************************************)
EXTENDS Naturals, FiniteSets

CONSTANTS
    Callers,    \* those who start runs
    Job,        \* the scheduled one
    MaxDocs,    \* bound: documents that are published
    PageSize,   \* documents in a page
    MaxPages,   \* MAX_PAGES_PER_RUN
    Hour,       \* ticks that SEFAZ's rest lasts
    Cooldown,   \* ticks of COOLDOWN_AFTER_EMPTY and COOLDOWN_AFTER_BLOCK
    MaxFaults   \* bound: crashes, errors, lost answers, queries of others

ASSUME JobAssumption == Job \in Callers
ASSUME SizeAssumption ==
    /\ MaxDocs \in Nat /\ MaxFaults \in Nat
    /\ PageSize \in Nat \ {0} /\ MaxPages \in Nat \ {0}
ASSUME CooldownAssumption == Hour \in Nat /\ Cooldown \in Nat /\ Cooldown > Hour

VARIABLES
    published,  \* SEFAZ has documents 1..published
    served,     \* the last document it served to this company
    rest,       \* ticks until it accepts a query that brings no news
    lastNSU,    \* FiscalSyncState.lastNSU
    wait,       \* ticks until FiscalSyncState.blockedUntil
    copies,     \* how many FiscalDocument rows each document has
    busy,       \* emAndamento has the company
    pc, run,    \* where each run is, and its local variables
    lost,       \* history: documents passed over, or unreadable when served
    faults      \* how many faults there were

sefazVars == <<published, served, rest>>
stateVars == <<lastNSU, wait>>
vars == <<sefazVars, stateVars, copies, busy, pc, run, lost, faults>>

Nsus == 1..MaxDocs
NoAnswer == [kind |-> "none", ult |-> 0, max |-> 0]
Answers == [kind: {"none", "rejected", "empty", "page"}, ult: 0..MaxDocs, max: 0..MaxDocs]
NoRun == [last |-> 0, pages |-> 0, answer |-> NoAnswer]
Runs == [last: 0..MaxDocs, pages: 0..MaxPages, answer: Answers]

Stored(n) == copies[n] > 0
Larger(a, b) == IF a > b THEN a ELSE b
Smaller(a, b) == IF a < b THEN a ELSE b
-----------------------------------------------------------------------------
(* SEFAZ: its answer to a query from the number n.                         *)
Rejection == [kind |-> "rejected", ult |-> served, max |-> 0]
NothingNew(n) == [kind |-> "empty", ult |-> n, max |-> published]
PageFrom(n) == [kind |-> "page", ult |-> Smaller(n + PageSize, published), max |-> published]

(* A query without news in the hour is rejected; one with news may be.     *)
AnswersTo(n) ==
    (IF rest > 0 THEN {Rejection} ELSE {})
    \cup (IF n >= published
          THEN IF rest > 0 THEN {} ELSE {NothingNew(n)}
          ELSE {PageFrom(n)})

(* The hour starts anew with a rejection and with an empty queue.          *)
Serve(answer) ==
    /\ rest' = IF answer.kind = "page" /\ answer.ult < published THEN 0 ELSE Hour
    /\ served' = Larger(served, answer.ult)
    /\ UNCHANGED published

Publish ==
    /\ published < MaxDocs
    /\ published' = published + 1
    /\ UNCHANGED <<served, rest, stateVars, copies, busy, pc, run, lost, faults>>

(* Bound: faults are counted.                                              *)
Fault == faults < MaxFaults /\ faults' = faults + 1

(* Another consumer of the same company's documents, or the test of the    *)
(* connection, asks and restarts the hour.                                 *)
OthersQuery ==
    /\ Fault /\ rest' = Hour
    /\ \E n \in served..published : served' = n
    /\ UNCHANGED <<published, stateVars, copies, busy, pc, run, lost>>

Tick ==
    /\ rest > 0 \/ wait > 0
    /\ rest' = IF rest > 0 THEN rest - 1 ELSE 0
    /\ wait' = IF wait > 0 THEN wait - 1 ELSE 0
    /\ UNCHANGED <<published, served, lastNSU, copies, busy, pc, run, lost, faults>>
-----------------------------------------------------------------------------
Goto(c, step) == pc' = [pc EXCEPT ![c] = step]

(* The run ends and its lock is released (finally).                        *)
Finish(c) ==
    /\ Goto(c, "idle")
    /\ run' = [run EXCEPT ![c] = NoRun]
    /\ busy' = FALSE

(* sync: a call that finds the lock taken answers SKIPPED and does nothing.*)
Begin(c) ==
    /\ pc[c] = "idle" /\ ~busy
    /\ busy' = TRUE /\ Goto(c, "state")
    /\ UNCHANGED <<sefazVars, stateVars, copies, run, lost, faults>>

(* Mutant: the window is not respected.                                    *)
ReadStateAnyway(c) ==
    /\ pc[c] = "state"
    /\ run' = [run EXCEPT ![c].last = lastNSU]
    /\ Goto(c, "query") /\ UNCHANGED busy
    /\ UNCHANGED <<sefazVars, stateVars, copies, lost, faults>>

(* executar: within the window, nothing is asked.                          *)
ReadState(c) ==
    /\ pc[c] = "state"
    /\ \/ wait > 0 /\ Finish(c)
       \/ /\ wait = 0
          /\ run' = [run EXCEPT ![c].last = lastNSU]
          /\ Goto(c, "query") /\ UNCHANGED busy
    /\ UNCHANGED <<sefazVars, stateVars, copies, lost, faults>>

Query(c) ==
    /\ pc[c] = "query"
    /\ \E answer \in AnswersTo(run[c].last) :
        /\ Serve(answer)
        /\ run' = [run EXCEPT ![c].pages = @ + 1, ![c].answer = answer]
    /\ Goto(c, "answer")
    /\ UNCHANGED <<stateVars, copies, busy, lost, faults>>

(* The query did not reach SEFAZ, or what it answered was lost.            *)
Unanswered(c) ==
    /\ pc[c] = "query" /\ Fault
    /\ \/ UNCHANGED sefazVars
       \/ \E answer \in AnswersTo(run[c].last) : Serve(answer)
    /\ UNCHANGED <<stateVars, copies, lost>>

(* transportError, or an answer of no use.                                 *)
QueryFails(c) == Unanswered(c) /\ Finish(c)

(* post: the connection is closed after the headers of the answer.  The    *)
(* request had its response, and nobody listens to that one but for data   *)
(* and its end: the promise is never settled, and the lock stays taken.    *)
QueryHangs(c) == Unanswered(c) /\ Goto(c, "hung") /\ UNCHANGED <<run, busy>>

Answered(c, kind) == pc[c] = "answer" /\ run[c].answer.kind = kind

(* bloquear: the number that SEFAZ echoes becomes ours.                    *)
Block(c) ==
    LET echo == run[c].answer.ult
        to == IF echo > 0 THEN echo ELSE run[c].last
    IN  /\ Answered(c, "rejected")
        /\ lastNSU' = to /\ wait' = Cooldown
        /\ lost' = lost \cup {n \in Nsus : run[c].last < n /\ n <= to /\ ~Stored(n)}
        /\ Finish(c)
        /\ UNCHANGED <<sefazVars, copies, faults>>

(* 137: nothing new.                                                       *)
Rest(c) ==
    /\ Answered(c, "empty")
    /\ lastNSU' = run[c].answer.ult /\ wait' = Cooldown
    /\ Finish(c)
    /\ UNCHANGED <<sefazVars, copies, lost, faults>>

PageOf(c) == (run[c].last + 1)..run[c].answer.ult

(* Mutant: duplicates are not skipped.                                     *)
PersistAgain(c) ==
    /\ Answered(c, "page")
    /\ copies' = [n \in Nsus |-> IF n \in PageOf(c) THEN copies[n] + 1 ELSE copies[n]]
    /\ Goto(c, "advance")
    /\ UNCHANGED <<sefazVars, stateVars, busy, run, lost, faults>>

(* persistir: createMany with skipDuplicates, of the documents that could  *)
(* be unpacked.  The others are left out of the page (descompactar).       *)
Persist(c) ==
    /\ Answered(c, "page")
    /\ \E corrupt \in SUBSET PageOf(c) :
        /\ IF corrupt = {} THEN UNCHANGED faults ELSE Fault
        /\ copies' = [n \in Nsus |->
              IF n \in PageOf(c) \ corrupt /\ ~Stored(n) THEN 1 ELSE copies[n]]
        /\ lost' = lost \cup {n \in corrupt : ~Stored(n)}
    /\ Goto(c, "advance")
    /\ UNCHANGED <<sefazVars, stateVars, busy, run>>

(* atualizarEstado, in a statement of its own.  Then the next page, unless *)
(* the queue is empty or the run has read enough pages (PARTIAL).          *)
Advance(c) ==
    LET answer == run[c].answer IN
    /\ pc[c] = "advance"
    /\ lastNSU' = answer.ult /\ UNCHANGED wait
    /\ \/ /\ answer.ult >= answer.max
          /\ Goto(c, "arm") /\ UNCHANGED <<run, busy>>
       \/ /\ answer.ult < answer.max /\ run[c].pages < MaxPages
          /\ run' = [run EXCEPT ![c].last = answer.ult, ![c].answer = NoAnswer]
          /\ Goto(c, "query") /\ UNCHANGED busy
       \/ answer.ult < answer.max /\ run[c].pages >= MaxPages /\ Finish(c)
    /\ UNCHANGED <<sefazVars, copies, lost, faults>>

(* Mutant: only an empty answer arms the window.                           *)
ArmNot(c) ==
    /\ pc[c] = "arm"
    /\ Finish(c)
    /\ UNCHANGED <<sefazVars, stateVars, copies, lost, faults>>

(* The queue was emptied: the same window as after 137.                    *)
Arm(c) ==
    /\ pc[c] = "arm"
    /\ wait' = Cooldown /\ UNCHANGED lastNSU
    /\ Finish(c)
    /\ UNCHANGED <<sefazVars, copies, lost, faults>>

(* An exception leaves the run.                                            *)
Throw(c) ==
    /\ pc[c] \notin {"idle", "hung"} /\ Fault /\ Finish(c)
    /\ UNCHANGED <<sefazVars, stateVars, copies, lost>>

(* The end of the process leaves every run, and its lock in memory.  What  *)
(* hangs may always be restarted: no fault is counted.                     *)
Hung == \E c \in Callers : pc[c] = "hung"
Crash ==
    /\ IF Hung THEN UNCHANGED faults ELSE Fault
    /\ pc' = [c \in Callers |-> "idle"] /\ run' = [c \in Callers |-> NoRun] /\ busy' = FALSE
    /\ UNCHANGED <<sefazVars, stateVars, copies, lost>>
-----------------------------------------------------------------------------
Init ==
    /\ published = 0 /\ served = 0 /\ rest = 0
    /\ lastNSU = 0 /\ wait = 0
    /\ copies = [n \in Nsus |-> 0]
    /\ busy = FALSE
    /\ pc = [c \in Callers |-> "idle"]
    /\ run = [c \in Callers |-> NoRun]
    /\ lost = {} /\ faults = 0

(* The steps of a run that has begun.                                      *)
Continue(c) ==
    \/ ReadState(c) \/ Query(c) \/ Block(c) \/ Rest(c)
    \/ Persist(c) \/ Advance(c) \/ Arm(c)

Next ==
    \/ Publish \/ OthersQuery \/ Tick \/ Crash
    \/ \E c \in Callers : Begin(c) \/ Continue(c) \/ QueryFails(c) \/ QueryHangs(c) \/ Throw(c)

(* A run goes on, the job comes again, time passes.  Nothing is assumed of *)
(* users, of SEFAZ having documents, nor of faults, which are finitely     *)
(* many: nobody need restart a process in which a run hangs.               *)
Fairness ==
    /\ \A c \in Callers : WF_vars(Continue(c))
    /\ WF_vars(Begin(Job))
    /\ WF_vars(Tick)

Spec == Init /\ [][Next]_vars /\ Fairness
-----------------------------------------------------------------------------
(* Every variable has its shape.                                           *)
TypeOK ==
    /\ published \in 0..MaxDocs /\ served \in 0..published
    /\ rest \in 0..Hour /\ wait \in 0..Cooldown
    /\ lastNSU \in 0..published
    /\ copies \in [Nsus -> Nat]
    /\ busy \in BOOLEAN
    /\ pc \in [Callers -> {"idle", "state", "query", "answer", "advance", "arm", "hung"}]
    /\ run \in [Callers -> Runs]
    /\ lost \subseteq Nsus
    /\ faults \in 0..MaxFaults

(* In whatever order the steps, the faults and the callers come, documents *)
(* are stored once, and the number never goes back and never passes one    *)
(* that is not stored, but by a rejection or when it cannot be unpacked    *)
(* (emAndamento, persistir, atualizarEstado, bloquear).                    *)
Feed == INSTANCE FiscalFeed WITH cursor <- lastNSU
ImplementsFeed == Feed!FeedSpec

(* SEFAZ rejects no query of ours as long as nothing failed and nobody     *)
(* else asks: the windows are armed wherever the next query would have no  *)
(* news, and are long enough (proximaJanela).                              *)
NeverProvokes ==
    [][\A c \in Callers :
          pc[c] = "query" /\ run'[c].answer.kind = "rejected" => faults > 0]_vars

(* As long as a run that hangs is followed by a restart, every document is *)
(* dealt with in the end, and the number passes it: a rejection does not   *)
(* become a permanent one, and neither the limit of pages nor a query that *)
(* fails leaves a document waiting for ever.                               *)
EveryDocumentArrives ==
    []<>~Hung =>
        \A n \in Nsus : (published >= n) ~> (lastNSU >= n /\ (copies[n] = 1 \/ n \in lost))

(* What the documentation says of a rejection: it delays documents and     *)
(* loses none (docs/plano-integracao-fiscal.md).                           *)
RejectionLosesNothing ==
    [][\A c \in Callers : Answered(c, "rejected") /\ pc'[c] = "idle" => lost' = lost]_vars
=============================================================================
