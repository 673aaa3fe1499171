---------------------------- MODULE FiscalProofs ----------------------------
(***************************************************************************)
(* For any number of callers, documents, pages and faults, and any windows *)
(* of which ours is the longer: the synchronisation implements its feed,   *)
(* and provokes no rejection before something has failed.                  *)
(*                                                                         *)
(* One run goes at a time, so that the number it read is still the stored  *)
(* one when it moves it; nothing before that number is unsettled; and the  *)
(* number never passes what SEFAZ served, so that a rejection, which       *)
(* echoes that, never moves it back.                                       *)
(*                                                                         *)
(* The second part is about the notes that these documents bring.          *)
(***************************************************************************)
EXTENDS FiscalSync, InboundNotes, SumTheorems, TLAPS

(* Every variable has its shape, and what SEFAZ serves exists.             *)
Shape ==
    /\ published \in 0..MaxDocs /\ served \in 0..MaxDocs /\ lastNSU \in 0..MaxDocs
    /\ rest \in 0..Hour /\ wait \in 0..Cooldown
    /\ copies \in [Nsus -> {0, 1}]
    /\ busy \in BOOLEAN
    /\ pc \in [Callers -> {"idle", "state", "query", "answer", "advance", "arm", "hung"}]
    /\ run \in [Callers -> Runs]
    /\ lost \in SUBSET Nsus
    /\ faults \in 0..MaxFaults
    /\ lastNSU <= served /\ served <= published

OneRun ==
    /\ \A c \in Callers : pc[c] # "idle" => busy
    /\ \A c, d \in Callers : pc[c] # "idle" /\ pc[d] # "idle" => c = d

(* A run that has asked knows the stored number; what it was answered lies *)
(* between that number and the last document.                              *)
Informed(c) ==
    LET answer == run[c].answer IN
    /\ pc[c] = "hung" => faults # 0
    /\ pc[c] \in {"idle", "state"} => run[c] = NoRun
    /\ pc[c] = "query" => answer = NoAnswer /\ run[c].pages < MaxPages
    /\ pc[c] \in {"query", "answer", "advance"} => run[c].last = lastNSU
    /\ pc[c] = "answer" =>
        /\ answer.kind \in {"rejected", "empty", "page"}
        /\ lastNSU <= answer.ult /\ answer.ult <= served
        /\ answer.kind = "empty" => answer.ult = lastNSU /\ answer.ult >= answer.max
        /\ answer.kind = "page" => lastNSU < answer.ult
    /\ pc[c] = "advance" =>
        /\ answer.kind = "page" /\ lastNSU < answer.ult /\ answer.ult <= served
        /\ \A n \in Nsus : n <= answer.ult => Stored(n) \/ n \in lost

SettledBefore == \A n \in Nsus : n <= lastNSU => Stored(n) \/ n \in lost

(* The run that will arm our window.                                       *)
Closing(c) ==
    \/ pc[c] = "arm"
    \/ /\ pc[c] \in {"answer", "advance"} /\ run[c].answer.kind \in {"empty", "page"}
       /\ run[c].answer.ult >= run[c].answer.max

(* Until something fails, our window outlasts SEFAZ's, or is about to; and *)
(* a run that will ask does so when SEFAZ's is over.                       *)
WindowsHold ==
    faults = 0 =>
        /\ rest = 0 \/ rest < wait \/ \E c \in Callers : Closing(c)
        /\ \A c \in Callers :
            pc[c] = "query" \/ (pc[c] \in {"answer", "advance"} /\ ~Closing(c)) => rest = 0

Inv ==
    /\ Shape /\ OneRun /\ SettledBefore /\ WindowsHold
    /\ \A c \in Callers : Informed(c)
-----------------------------------------------------------------------------
LEMMA Sizes ==
    /\ MaxDocs \in Nat /\ MaxFaults \in Nat /\ Hour \in Nat /\ Cooldown \in Nat
    /\ PageSize \in Nat /\ PageSize > 0 /\ MaxPages \in Nat /\ MaxPages > 0
    /\ Cooldown > Hour /\ Nsus \subseteq Nat
BY SizeAssumption, CooldownAssumption DEF Nsus

LEMMA AnswerShape ==
    ASSUME Shape, NEW c \in Callers
    PROVE  /\ run[c].last \in 0..MaxDocs /\ run[c].pages \in 0..MaxPages
           /\ run[c].answer \in Answers
           /\ run[c].answer.ult \in 0..MaxDocs /\ run[c].answer.max \in 0..MaxDocs
BY DEF Shape, Runs, Answers

LEMMA NoRunShape == NoRun \in Runs /\ NoAnswer \in Answers
BY Sizes DEF NoRun, Runs, NoAnswer, Answers

(* What SEFAZ may answer to a query from the stored number.                *)
LEMMA Served ==
    ASSUME Shape, NEW answer \in AnswersTo(lastNSU)
    PROVE  /\ answer \in Answers
           /\ answer.kind \in {"rejected", "empty", "page"}
           /\ lastNSU <= answer.ult /\ answer.ult <= published
           /\ answer.kind = "empty" => answer.ult = lastNSU
           /\ answer.kind = "page" => lastNSU < answer.ult
           /\ answer.kind \in {"empty", "page"} => answer.max = published
           /\ answer.kind = "rejected" => rest > 0 /\ answer.ult = served
           /\ answer.kind = "empty" => lastNSU >= published
<1>0. /\ published \in Nat /\ served \in Nat /\ lastNSU \in Nat /\ PageSize \in Nat \ {0}
      /\ lastNSU <= served /\ served <= published
      /\ published \in 0..MaxDocs /\ served \in 0..MaxDocs /\ lastNSU \in 0..MaxDocs
  BY Sizes DEF Shape
<1>1. CASE answer = Rejection /\ rest > 0
  <2>1. Rejection \in Answers
    BY <1>0, Sizes DEF Rejection, Answers
  <2> QED
    BY <1>0, <1>1, <2>1 DEF Rejection
<1>2. CASE answer = NothingNew(lastNSU) /\ lastNSU >= published
  <2>1. NothingNew(lastNSU) \in Answers
    BY <1>0 DEF NothingNew, Answers
  <2> QED
    BY <1>0, <1>2, <2>1 DEF NothingNew
<1>3. CASE answer = PageFrom(lastNSU) /\ lastNSU < published
  <2> DEFINE ult == Smaller(lastNSU + PageSize, published)
  <2>1. ult \in 0..MaxDocs /\ lastNSU < ult /\ ult <= published
    BY <1>0, <1>3, Sizes DEF Smaller
  <2>2. PageFrom(lastNSU) = [kind |-> "page", ult |-> ult, max |-> published]
    BY DEF PageFrom
  <2> HIDE DEF ult
  <2>3. PageFrom(lastNSU) \in Answers
    BY <1>0, <2>1, <2>2 DEF Answers
  <2> QED
    BY <1>0, <1>3, <2>1, <2>2, <2>3
<1> QED
  BY <1>0, <1>1, <1>2, <1>3 DEF AnswersTo
-----------------------------------------------------------------------------
(* The steps of a run, as the invariant sees them.                         *)
Others(c) == \A d \in Callers \ {c} : pc'[d] = pc[d] /\ run'[d] = run[d]

LEMMA Alone ==
    ASSUME OneRun, NEW c \in Callers, pc[c] # "idle", NEW d \in Callers, d # c
    PROVE  pc[d] = "idle"
BY DEF OneRun

(* The other runs are idle, and know nothing.                              *)
LEMMA OthersInformed ==
    ASSUME Inv, NEW c \in Callers, pc[c] # "idle", Others(c)
    PROVE  \A d \in Callers \ {c} : Informed(d)' /\ pc'[d] = "idle"
<1> SUFFICES ASSUME NEW d \in Callers \ {c} PROVE Informed(d)' /\ pc'[d] = "idle"
  OBVIOUS
<1>1. pc[d] = "idle" /\ Informed(d)
  BY Alone DEF Inv
<1> QED
  BY <1>1 DEF Others, Informed

(* A run that ends and moves the number to `to`, where all is settled.     *)
LEMMA RunEnds ==
    ASSUME Inv, NEW c \in Callers, pc[c] # "idle", Finish(c), Shape', SettledBefore',
           faults' = 0 => faults = 0 /\ (rest' = 0 \/ rest' < wait')
    PROVE  Inv'
<1>1. Others(c) /\ pc'[c] = "idle" /\ run'[c] = NoRun /\ busy' = FALSE
  BY DEF Finish, Goto, Others, Inv, Shape
<1>2. \A d \in Callers : pc'[d] = "idle"
  BY <1>1, OthersInformed
<1>3. OneRun' /\ WindowsHold'
  BY <1>2 DEF OneRun, WindowsHold
<1>4. Informed(c)'
  BY <1>1 DEF Informed
<1> QED
  BY <1>1, <1>3, <1>4, OthersInformed DEF Inv

(* A run that goes on.                                                     *)
LEMMA RunGoesOn ==
    ASSUME Inv, NEW c \in Callers, pc[c] # "idle", Others(c), pc'[c] # "idle", busy' = busy,
           Shape', SettledBefore', Informed(c)',
           faults' = 0 => /\ faults = 0
                          /\ rest' = 0 \/ rest' < wait' \/ Closing(c)'
                          /\ pc'[c] = "query" \/ (pc'[c] \in {"answer", "advance"} /\ ~Closing(c)')
                                => rest' = 0
    PROVE  Inv'
<1>1. \A d \in Callers \ {c} : pc'[d] = "idle"
  BY OthersInformed
<1>2. OneRun'
  BY <1>1 DEF Inv, OneRun
<1>3. WindowsHold'
  BY <1>1 DEF WindowsHold
<1> QED
  BY <1>2, <1>3, OthersInformed DEF Inv

LEMMA BeginInv ==
    ASSUME Inv, NEW c \in Callers, Begin(c)
    PROVE  Inv'
<1>1. /\ pc'[c] = "state" /\ Others(c) /\ run' = run /\ busy' = TRUE
      /\ \A d \in Callers : pc[d] = "idle"
      /\ UNCHANGED <<sefazVars, stateVars, copies, lost, faults>>
  BY DEF Begin, Goto, Others, Inv, Shape, OneRun
<1>2. Shape'
  BY DEF Begin, Goto, Inv, Shape, sefazVars, stateVars
<1>3. OneRun' /\ SettledBefore'
  BY <1>1 DEF Inv, OneRun, SettledBefore, Others, Stored, stateVars
<1>4. \A d \in Callers : Informed(d)'
  BY <1>1 DEF Inv, Informed, Others
<1>5. WindowsHold'
  BY <1>1 DEF Inv, WindowsHold, Closing, Others, sefazVars, stateVars
<1> QED
  BY <1>2, <1>3, <1>4, <1>5 DEF Inv

LEMMA ReadStateInv ==
    ASSUME Inv, NEW c \in Callers, ReadState(c)
    PROVE  Inv'
<1>0. /\ pc[c] = "state" /\ run[c] = NoRun
      /\ UNCHANGED <<sefazVars, stateVars, copies, lost, faults>>
      /\ SettledBefore'
  BY DEF ReadState, Inv, Informed, SettledBefore, Stored, stateVars
<1>1. \A d \in Callers : ~Closing(d)
  BY <1>0, Alone DEF Inv, Closing
<1>2. faults = 0 => rest = 0 \/ rest < wait
  BY <1>1 DEF Inv, WindowsHold
<1>3. CASE wait > 0 /\ Finish(c)
  <2>1. Shape'
    BY <1>0, <1>3, NoRunShape DEF Finish, Goto, Inv, Shape, sefazVars, stateVars
  <2> QED
    BY <1>0, <1>2, <1>3, <2>1, RunEnds DEF sefazVars, stateVars
<1>4. CASE /\ wait = 0 /\ run' = [run EXCEPT ![c].last = lastNSU]
           /\ Goto(c, "query") /\ UNCHANGED busy
  <2>1. [run[c] EXCEPT !.last = lastNSU] \in Runs
    BY DEF Inv, Shape, Runs
  <2>2. /\ Others(c) /\ pc'[c] = "query" /\ run'[c] = [NoRun EXCEPT !.last = lastNSU]
        /\ Shape'
    BY <1>0, <1>4, <2>1 DEF Goto, Others, Inv, Shape, sefazVars, stateVars
  <2>3. Informed(c)'
    BY <1>0, <2>2, Sizes DEF Informed, NoRun, stateVars
  <2>4. faults = 0 => rest = 0
    BY <1>2, <1>4, Sizes DEF Inv, Shape
  <2> QED
    BY <1>0, <1>4, <2>2, <2>3, <2>4, RunGoesOn DEF sefazVars
<1> QED
  BY <1>3, <1>4 DEF ReadState

LEMMA ServeShape ==
    ASSUME Shape, NEW answer \in Answers, answer.ult <= published, Serve(answer)
    PROVE  /\ served' \in 0..MaxDocs /\ served <= served' /\ served' <= published
           /\ answer.ult <= served' /\ rest' \in 0..Hour /\ published' = published
<1>1. answer.ult \in 0..MaxDocs
  BY DEF Answers
<1> QED
  BY <1>1, Sizes DEF Shape, Serve, Larger

LEMMA QueryInv ==
    ASSUME Inv, NEW c \in Callers, Query(c)
    PROVE  Inv' /\ (run'[c].answer.kind = "rejected" => faults > 0)
<1>1. PICK answer \in AnswersTo(run[c].last) :
        /\ Serve(answer)
        /\ run' = [run EXCEPT ![c].pages = @ + 1, ![c].answer = answer]
  BY DEF Query
<1>2. /\ pc[c] = "query" /\ run[c].last = lastNSU /\ run[c].pages < MaxPages
      /\ UNCHANGED <<stateVars, copies, busy, lost, faults>>
  BY DEF Query, Inv, Informed
<1>3. /\ answer \in Answers
      /\ answer.kind \in {"rejected", "empty", "page"}
      /\ lastNSU <= answer.ult /\ answer.ult <= published
      /\ answer.kind = "empty" => answer.ult = lastNSU
      /\ answer.kind = "page" => lastNSU < answer.ult
      /\ answer.kind \in {"empty", "page"} => answer.max = published
      /\ answer.kind = "rejected" => rest > 0 /\ answer.ult = served
      /\ answer.kind = "empty" => lastNSU >= published
  BY <1>1, <1>2, Served DEF Inv
<1>4. run[c].last \in 0..MaxDocs /\ run[c].pages + 1 \in 0..MaxPages
  BY <1>2, AnswerShape, Sizes DEF Inv
<1> DEFINE new == [run[c] EXCEPT !.pages = run[c].pages + 1, !.answer = answer]
<1>5. new \in Runs /\ new.last = lastNSU /\ new.answer = answer
  BY <1>2, <1>3, <1>4 DEF Inv, Shape, Runs
<1>6. /\ Others(c) /\ pc'[c] = "answer" /\ run'[c] = new
      /\ run' \in [Callers -> Runs] /\ pc' = [pc EXCEPT ![c] = "answer"]
  <2>1. run' = [run EXCEPT ![c] = new]
    BY <1>1
  <2>2. pc' = [pc EXCEPT ![c] = "answer"]
    BY DEF Query, Goto
  <2> HIDE DEF new
  <2> QED
    BY <1>5, <2>1, <2>2 DEF Others, Inv, Shape
<1> HIDE DEF new
<1>7. /\ served' \in 0..MaxDocs /\ served <= served' /\ served' <= published
      /\ answer.ult <= served' /\ rest' \in 0..Hour /\ published' = published
  BY <1>1, <1>3, ServeShape DEF Inv
<1>8. Shape'
  BY <1>2, <1>6, <1>7, Sizes DEF Inv, Shape, stateVars
<1>9. SettledBefore'
  BY <1>2 DEF Inv, SettledBefore, Stored, stateVars
<1>10. Informed(c)'
  BY <1>2, <1>3, <1>5, <1>6, <1>7 DEF Informed, stateVars
<1>11. faults = 0 => rest = 0
  BY <1>2 DEF Inv, WindowsHold
<1>12. answer.kind = "rejected" => faults > 0
  BY <1>3, <1>11, Sizes DEF Inv, Shape
<1>13. CASE answer.kind = "page" /\ answer.ult < published
  <2>1. rest' = 0
    BY <1>1, <1>13 DEF Serve
  <2>2. Inv'
    BY <1>2, <1>6, <1>8, <1>9, <1>10, <2>1, RunGoesOn
  <2> QED
    BY <1>5, <1>6, <1>12, <2>2
<1>14. CASE ~(answer.kind = "page" /\ answer.ult < published) /\ answer.kind # "rejected"
  <2>1. answer.ult >= answer.max
    BY <1>3, <1>14 DEF Inv, Shape, Answers
  <2>2. Closing(c)'
    BY <1>3, <1>5, <1>6, <1>14, <2>1 DEF Closing
  <2>3. Inv'
    BY <1>2, <1>6, <1>8, <1>9, <1>10, <2>2, RunGoesOn
  <2> QED
    BY <1>5, <1>6, <1>12, <2>3
<1>15. CASE answer.kind = "rejected"
  BY <1>2, <1>5, <1>6, <1>8, <1>9, <1>10, <1>12, <1>15, RunGoesOn
<1> QED
  BY <1>13, <1>14, <1>15

(* A query that brings nothing, whether its run ends or hangs.             *)
LEMMA UnansweredInv ==
    ASSUME Inv, NEW c \in Callers, Unanswered(c),
           Finish(c) \/ (Goto(c, "hung") /\ UNCHANGED <<run, busy>>)
    PROVE  Inv'
<1>1. /\ pc[c] = "query" /\ run[c].last = lastNSU
      /\ UNCHANGED <<stateVars, copies, lost>> /\ faults' = faults + 1 /\ faults < MaxFaults
  BY DEF Unanswered, Fault, Inv, Informed
<1>2. /\ served' \in 0..MaxDocs /\ served <= served' /\ served' <= published
      /\ rest' \in 0..Hour /\ published' = published
  <2>1. CASE UNCHANGED sefazVars
    BY <2>1 DEF sefazVars, Inv, Shape
  <2>2. ASSUME NEW answer \in AnswersTo(lastNSU), Serve(answer)
        PROVE  /\ served' \in 0..MaxDocs /\ served <= served' /\ served' <= published
               /\ rest' \in 0..Hour /\ published' = published
    BY <2>2, Served, ServeShape DEF Inv
  <2> QED
    BY <1>1, <2>1, <2>2 DEF Unanswered
<1>3. Shape'
  <2>1. /\ run' \in [Callers -> Runs] /\ busy' \in BOOLEAN
        /\ pc' \in [Callers -> {"idle", "state", "query", "answer", "advance", "arm", "hung"}]
    BY NoRunShape DEF Finish, Goto, Inv, Shape
  <2>2. faults' \in 0..MaxFaults /\ lastNSU' <= served' /\ served' <= published'
    BY <1>1, <1>2, Sizes DEF Inv, Shape, stateVars
  <2> QED
    BY <1>1, <1>2, <2>1, <2>2 DEF Inv, Shape, stateVars
<1>4. SettledBefore'
  BY <1>1 DEF Inv, SettledBefore, Stored, stateVars
<1>5. faults' # 0
  BY <1>1 DEF Inv, Shape
<1>6. CASE Finish(c)
  BY <1>1, <1>3, <1>4, <1>5, <1>6, RunEnds
<1>7. CASE Goto(c, "hung") /\ UNCHANGED <<run, busy>>
  <2>1. Others(c) /\ pc'[c] = "hung"
    BY <1>7 DEF Goto, Others, Inv, Shape
  <2>2. Informed(c)'
    BY <1>5, <2>1 DEF Informed
  <2> QED
    BY <1>1, <1>3, <1>4, <1>5, <1>7, <2>1, <2>2, RunGoesOn
<1> QED
  BY <1>6, <1>7

LEMMA FinishShape ==
    ASSUME Shape, NEW c \in Callers, Finish(c)
    PROVE  /\ run' \in [Callers -> Runs] /\ busy' \in BOOLEAN
           /\ pc' \in [Callers -> {"idle", "state", "query", "answer", "advance", "arm", "hung"}]
BY NoRunShape DEF Finish, Goto, Shape

LEMMA BlockInv ==
    ASSUME Inv, NEW c \in Callers, Block(c)
    PROVE  Inv'
<1> DEFINE echo == run[c].answer.ult
           to == IF echo > 0 THEN echo ELSE run[c].last
<1>1. /\ pc[c] = "answer" /\ run[c].last = lastNSU
      /\ lastNSU <= echo /\ echo <= served
      /\ Finish(c) /\ UNCHANGED <<sefazVars, copies, faults>>
      /\ lastNSU' = to /\ wait' = Cooldown
      /\ lost' = lost \cup {n \in Nsus : lastNSU < n /\ n <= to /\ ~Stored(n)}
  BY DEF Block, Answered, Inv, Informed
<1>2. /\ lastNSU \in 0..MaxDocs /\ echo \in 0..MaxDocs /\ served \in 0..MaxDocs
      /\ published \in 0..MaxDocs /\ served <= published
  BY AnswerShape DEF Inv, Shape
<1>3. to \in 0..MaxDocs /\ lastNSU <= to /\ to <= served
  BY <1>1, <1>2
<1> HIDE DEF echo, to
<1>4. Shape'
  <2>1. /\ run' \in [Callers -> Runs] /\ busy' \in BOOLEAN
        /\ pc' \in [Callers -> {"idle", "state", "query", "answer", "advance", "arm", "hung"}]
    BY <1>1, FinishShape DEF Inv
  <2>2. wait' \in 0..Cooldown
    BY <1>1, Sizes
  <2>3. lost' \in SUBSET Nsus
    BY <1>1 DEF Inv, Shape
  <2> QED
    BY <1>1, <1>3, <2>1, <2>2, <2>3 DEF Inv, Shape, sefazVars
<1>5. SettledBefore'
  <2> SUFFICES ASSUME NEW n \in Nsus, n <= lastNSU' PROVE Stored(n)' \/ n \in lost'
    BY DEF SettledBefore
  <2>1. CASE n <= lastNSU
    BY <1>1, <2>1 DEF Inv, SettledBefore, Stored
  <2>2. CASE lastNSU < n
    BY <1>1, <2>2 DEF Stored
  <2> QED
    BY <1>2, <2>1, <2>2, Sizes
<1>6. rest' < wait' /\ faults' = faults
  BY <1>1, Sizes DEF Inv, Shape, sefazVars
<1> QED
  BY <1>1, <1>4, <1>5, <1>6, RunEnds

LEMMA RestInv ==
    ASSUME Inv, NEW c \in Callers, Rest(c)
    PROVE  Inv'
<1>1. /\ pc[c] = "answer" /\ Finish(c) /\ UNCHANGED <<sefazVars, copies, lost, faults>>
      /\ lastNSU' = lastNSU /\ wait' = Cooldown
  BY DEF Rest, Answered, Inv, Informed
<1>2. Shape'
  <2>1. /\ run' \in [Callers -> Runs] /\ busy' \in BOOLEAN
        /\ pc' \in [Callers -> {"idle", "state", "query", "answer", "advance", "arm", "hung"}]
    BY <1>1, FinishShape DEF Inv
  <2>2. wait' \in 0..Cooldown
    BY <1>1, Sizes
  <2> QED
    BY <1>1, <2>1, <2>2 DEF Inv, Shape, sefazVars
<1>3. SettledBefore'
  BY <1>1 DEF Inv, SettledBefore, Stored
<1>4. rest' < wait'
  BY <1>1, Sizes DEF Inv, Shape, sefazVars
<1> QED
  BY <1>1, <1>2, <1>3, <1>4, RunEnds

LEMMA ArmInv ==
    ASSUME Inv, NEW c \in Callers, Arm(c)
    PROVE  Inv'
<1>1. /\ pc[c] = "arm" /\ Finish(c) /\ UNCHANGED <<sefazVars, copies, lost, faults>>
      /\ lastNSU' = lastNSU /\ wait' = Cooldown
  BY DEF Arm
<1>2. Shape'
  <2>1. /\ run' \in [Callers -> Runs] /\ busy' \in BOOLEAN
        /\ pc' \in [Callers -> {"idle", "state", "query", "answer", "advance", "arm", "hung"}]
    BY <1>1, FinishShape DEF Inv
  <2>2. wait' \in 0..Cooldown
    BY <1>1, Sizes
  <2> QED
    BY <1>1, <2>1, <2>2 DEF Inv, Shape, sefazVars
<1>3. SettledBefore'
  BY <1>1 DEF Inv, SettledBefore, Stored
<1>4. rest' < wait'
  BY <1>1, Sizes DEF Inv, Shape, sefazVars
<1> QED
  BY <1>1, <1>2, <1>3, <1>4, RunEnds

(* A page lies ahead of the number, and within what exists.                *)
LEMMA PageAhead ==
    ASSUME Inv, NEW c \in Callers, Answered(c, "page")
    PROVE  /\ PageOf(c) = {n \in Nsus : lastNSU < n /\ n <= run[c].answer.ult}
           /\ \A n \in PageOf(c) : n <= published
<1>1. /\ run[c].last = lastNSU /\ run[c].answer.ult <= served
      /\ lastNSU \in 0..MaxDocs /\ run[c].answer.ult \in 0..MaxDocs
      /\ served \in 0..MaxDocs /\ published \in 0..MaxDocs /\ served <= published
  BY AnswerShape DEF Inv, Shape, Informed, Answered
<1> QED
  BY <1>1, Sizes DEF PageOf, Nsus

LEMMA PersistInv ==
    ASSUME Inv, NEW c \in Callers, Persist(c)
    PROVE  Inv'
<1>1. /\ pc[c] = "answer" /\ run[c].answer.kind = "page" /\ pc' = [pc EXCEPT ![c] = "advance"]
      /\ UNCHANGED <<sefazVars, stateVars, busy, run>>
      /\ run[c].last = lastNSU /\ lastNSU < run[c].answer.ult /\ run[c].answer.ult <= served
  BY DEF Persist, Answered, Goto, Inv, Informed
<1>2. PICK corrupt \in SUBSET PageOf(c) :
        /\ IF corrupt = {} THEN UNCHANGED faults ELSE Fault
        /\ copies' = [n \in Nsus |->
              IF n \in PageOf(c) \ corrupt /\ ~Stored(n) THEN 1 ELSE copies[n]]
        /\ lost' = lost \cup {n \in corrupt : ~Stored(n)}
  BY DEF Persist
<1>3. PageOf(c) = {n \in Nsus : lastNSU < n /\ n <= run[c].answer.ult}
  BY PageAhead DEF Persist
<1>4. faults' \in 0..MaxFaults /\ (faults' = 0 => faults = 0)
  BY <1>2, Sizes DEF Fault, Inv, Shape
<1>5. Shape'
  <2>1. copies' \in [Nsus -> {0, 1}]
    BY <1>2 DEF Inv, Shape
  <2>2. lost' \in SUBSET Nsus
    BY <1>2, <1>3 DEF Inv, Shape
  <2>3. pc' \in [Callers -> {"idle", "state", "query", "answer", "advance", "arm", "hung"}]
    BY <1>1 DEF Inv, Shape
  <2> QED
    BY <1>1, <1>4, <2>1, <2>2, <2>3 DEF Inv, Shape, sefazVars, stateVars
<1>6. \A n \in Nsus : Stored(n) \/ n \in lost => Stored(n)' \/ n \in lost'
  BY <1>2 DEF Stored
<1>7. SettledBefore'
  BY <1>1, <1>6 DEF Inv, SettledBefore, stateVars
<1>8. \A n \in Nsus : n <= run[c].answer.ult => Stored(n)' \/ n \in lost'
  <2> SUFFICES ASSUME NEW n \in Nsus, n <= run[c].answer.ult PROVE Stored(n)' \/ n \in lost'
    OBVIOUS
  <2>1. CASE n <= lastNSU
    BY <1>6, <2>1 DEF Inv, SettledBefore
  <2>2. CASE n \in PageOf(c)
    BY <1>2, <2>2 DEF Stored
  <2> QED
    BY <1>3, <2>1, <2>2, Sizes DEF Inv, Shape
<1>9. Others(c) /\ pc'[c] = "advance" /\ run' = run /\ busy' = busy
  BY <1>1 DEF Others, Inv, Shape
<1>10. Informed(c)'
  BY <1>1, <1>8, <1>9 DEF Informed, sefazVars, stateVars
<1>11. Closing(c)' <=> Closing(c)
  BY <1>1, <1>9 DEF Closing
<1>12. \A d \in Callers : Closing(d) => d = c
  BY <1>1, Alone DEF Inv, Closing
<1>13. faults' = 0 => /\ faults = 0
                      /\ rest' = 0 \/ rest' < wait' \/ Closing(c)'
                      /\ ~Closing(c)' => rest' = 0
  BY <1>1, <1>4, <1>11, <1>12 DEF Inv, WindowsHold, sefazVars, stateVars
<1> QED
  BY <1>1, <1>5, <1>7, <1>9, <1>10, <1>13, RunGoesOn

LEMMA AdvanceInv ==
    ASSUME Inv, NEW c \in Callers, Advance(c)
    PROVE  Inv'
<1> DEFINE answer == run[c].answer
<1>1. /\ pc[c] = "advance" /\ lastNSU' = answer.ult /\ wait' = wait
      /\ UNCHANGED <<sefazVars, copies, lost, faults>>
      /\ answer.kind = "page" /\ lastNSU < answer.ult /\ answer.ult <= served
      /\ \A n \in Nsus : n <= answer.ult => Stored(n) \/ n \in lost
  BY DEF Advance, Inv, Informed
<1>2. answer.ult \in 0..MaxDocs /\ answer.max \in 0..MaxDocs
  BY AnswerShape DEF Inv
<1>3. SettledBefore'
  BY <1>1 DEF SettledBefore, Stored
<1>4. ASSUME answer.ult < answer.max PROVE faults = 0 => rest = 0
  BY <1>1, <1>2, <1>4 DEF Inv, WindowsHold, Closing
<1>5. /\ lastNSU' \in 0..MaxDocs /\ lastNSU' <= served' /\ served' <= published'
      /\ UNCHANGED <<published, served, rest>>
  BY <1>1, <1>2 DEF Inv, Shape, sefazVars
<1>6. CASE answer.ult >= answer.max /\ Goto(c, "arm") /\ UNCHANGED <<run, busy>>
  <2>1. Others(c) /\ pc'[c] = "arm"
    BY <1>6 DEF Goto, Others, Inv, Shape
  <2>2. Shape'
    BY <1>1, <1>5, <1>6 DEF Goto, Inv, Shape
  <2>3. Informed(c)' /\ Closing(c)'
    BY <2>1 DEF Informed, Closing
  <2> QED
    BY <1>1, <1>3, <1>6, <2>1, <2>2, <2>3, RunGoesOn
<1>7. CASE /\ answer.ult < answer.max /\ run[c].pages < MaxPages
           /\ run' = [run EXCEPT ![c].last = answer.ult, ![c].answer = NoAnswer]
           /\ Goto(c, "query") /\ UNCHANGED busy
  <2> DEFINE new == [run[c] EXCEPT !.last = answer.ult, !.answer = NoAnswer]
  <2>1. /\ new \in Runs /\ new.last = answer.ult /\ new.answer = NoAnswer
        /\ new.pages = run[c].pages
    BY <1>2, NoRunShape DEF Inv, Shape, Runs
  <2>2. run' = [run EXCEPT ![c] = new]
    BY <1>7
  <2> HIDE DEF new, answer
  <2>3. /\ Others(c) /\ pc'[c] = "query" /\ run'[c] = new
        /\ run' \in [Callers -> Runs] /\ pc' = [pc EXCEPT ![c] = "query"]
    BY <1>7, <2>1, <2>2 DEF Goto, Others, Inv, Shape
  <2>4. Shape'
    BY <1>1, <1>5, <1>7, <2>3 DEF Inv, Shape
  <2>5. Informed(c)'
    BY <1>1, <1>7, <2>1, <2>3 DEF Informed
  <2> QED
    BY <1>1, <1>3, <1>4, <1>5, <1>7, <2>3, <2>4, <2>5, RunGoesOn
<1>8. CASE answer.ult < answer.max /\ Finish(c)
  <2>1. Shape'
    BY <1>1, <1>5, <1>8, NoRunShape DEF Finish, Goto, Inv, Shape
  <2> QED
    BY <1>1, <1>3, <1>4, <1>5, <1>8, <2>1, RunEnds
<1> QED
  BY <1>6, <1>7, <1>8 DEF Advance

LEMMA ThrowInv ==
    ASSUME Inv, NEW c \in Callers, Throw(c)
    PROVE  Inv'
<1>1. /\ pc[c] # "idle" /\ Finish(c) /\ faults < MaxFaults /\ faults' = faults + 1
      /\ UNCHANGED <<sefazVars, stateVars, copies, lost>>
  BY DEF Throw, Fault
<1>2. Shape' /\ faults' # 0
  <2>1. /\ run' \in [Callers -> Runs] /\ busy' \in BOOLEAN
        /\ pc' \in [Callers -> {"idle", "state", "query", "answer", "advance", "arm", "hung"}]
    BY <1>1, FinishShape DEF Inv
  <2>2. faults' \in 0..MaxFaults /\ faults' # 0
    BY <1>1, Sizes DEF Inv, Shape
  <2> QED
    BY <1>1, <2>1, <2>2 DEF Inv, Shape, sefazVars, stateVars
<1>3. SettledBefore'
  BY <1>1 DEF Inv, SettledBefore, Stored, stateVars
<1> QED
  BY <1>1, <1>2, <1>3, RunEnds

LEMMA CrashInv ==
    ASSUME Inv, Crash
    PROVE  Inv'
<1>1. /\ \A c \in Callers : pc'[c] = "idle" /\ run'[c] = NoRun
      /\ (faults < MaxFaults /\ faults' = faults + 1) \/ (Hung /\ faults' = faults)
      /\ UNCHANGED <<sefazVars, stateVars, copies, lost>>
  BY DEF Crash, Fault
<1>0. Hung => faults # 0
  BY DEF Hung, Inv, Informed
<1>2. Shape' /\ faults' # 0
  <2>1. /\ run' \in [Callers -> Runs] /\ busy' \in BOOLEAN
        /\ pc' \in [Callers -> {"idle", "state", "query", "answer", "advance", "arm", "hung"}]
    BY NoRunShape DEF Crash
  <2>2. faults' \in 0..MaxFaults /\ faults' # 0
    BY <1>0, <1>1, Sizes DEF Inv, Shape
  <2> QED
    BY <1>1, <2>1, <2>2 DEF Inv, Shape, sefazVars, stateVars
<1>3. SettledBefore'
  BY <1>1 DEF Inv, SettledBefore, Stored, stateVars
<1>4. OneRun' /\ WindowsHold' /\ \A c \in Callers : Informed(c)'
  BY <1>1, <1>2 DEF OneRun, WindowsHold, Informed
<1> QED
  BY <1>2, <1>3, <1>4 DEF Inv

(* Steps that are of no run.                                               *)
LEMMA RunsUntouched ==
    ASSUME Inv, UNCHANGED <<lastNSU, copies, busy, pc, run, lost>>, Shape', served <= served',
           WindowsHold', faults # 0 => faults' # 0
    PROVE  Inv'
<1>1. OneRun' /\ SettledBefore'
  BY DEF Inv, OneRun, SettledBefore, Stored
<1>2. ASSUME NEW c \in Callers PROVE Informed(c)'
  <2>1. /\ run[c].answer.ult \in 0..MaxDocs
        /\ served \in 0..MaxDocs /\ served' \in 0..MaxDocs
    BY AnswerShape DEF Inv, Shape
  <2>2. run[c].answer.ult <= served => run[c].answer.ult <= served'
    BY <2>1
  <2> QED
    BY <2>2 DEF Inv, Informed, Stored
<1> QED
  BY <1>1, <1>2 DEF Inv

LEMMA EnvironmentInv ==
    ASSUME Inv, Publish \/ OthersQuery \/ Tick
    PROVE  Inv'
<1>1. CASE Publish
  <2>1. Shape' /\ served' = served
    BY <1>1, Sizes DEF Publish, Inv, Shape, stateVars
  <2>2. WindowsHold'
    BY <1>1 DEF Publish, Inv, WindowsHold, Closing, stateVars
  <2> QED
    BY <1>1, <2>1, <2>2, Sizes, RunsUntouched DEF Publish, stateVars, Inv, Shape
<1>2. CASE OthersQuery
  <2>1. Shape' /\ served <= served' /\ faults' # 0
    BY <1>2, Sizes DEF OthersQuery, Fault, Inv, Shape, stateVars
  <2>2. WindowsHold'
    BY <2>1 DEF WindowsHold
  <2> QED
    BY <1>2, <2>1, <2>2, RunsUntouched DEF OthersQuery, stateVars
<1>3. CASE Tick
  <2>0. rest \in 0..Hour /\ wait \in 0..Cooldown
    BY DEF Inv, Shape
  <2>1. /\ rest' \in 0..Hour /\ wait' \in 0..Cooldown
        /\ rest = 0 => rest' = 0
        /\ rest < wait => rest' = 0 \/ rest' < wait'
    BY <1>3, <2>0, Sizes DEF Tick
  <2>2. Shape' /\ served <= served'
    BY <1>3, <2>1, Sizes DEF Tick, Inv, Shape
  <2>3. WindowsHold'
    BY <1>3, <2>1 DEF Tick, Inv, WindowsHold, Closing
  <2> QED
    BY <1>3, <2>2, <2>3, RunsUntouched DEF Tick
<1> QED
  BY <1>1, <1>2, <1>3

LEMMA InitInv == Init => Inv
<1> SUFFICES ASSUME Init PROVE Inv
  OBVIOUS
<1>1. Shape
  <2>1. /\ pc \in [Callers -> {"idle", "state", "query", "answer", "advance", "arm", "hung"}]
        /\ run \in [Callers -> Runs]
    BY NoRunShape DEF Init
  <2>2. 0 \in 0..MaxDocs /\ 0 \in 0..Hour /\ 0 \in 0..Cooldown /\ 0 \in 0..MaxFaults
    BY Sizes
  <2>3. copies \in [Nsus -> {0, 1}] /\ lost \in SUBSET Nsus /\ busy \in BOOLEAN
    BY DEF Init
  <2>4. lastNSU <= served /\ served <= published
    BY DEF Init
  <2> QED
    BY <2>1, <2>2, <2>3, <2>4 DEF Init, Shape
<1> QED
  BY <1>1, Sizes DEF Init, Inv, OneRun, SettledBefore, WindowsHold, Informed, Nsus

LEMMA NextInv == Inv /\ [Next]_vars => Inv'
<1> SUFFICES ASSUME Inv, [Next]_vars PROVE Inv'
  OBVIOUS
<1>1. CASE UNCHANGED vars
  BY <1>1 DEF vars, sefazVars, stateVars, Inv, Shape, OneRun, SettledBefore, Stored,
              WindowsHold, Closing, Informed
<1>2. CASE Next
  BY <1>2, BeginInv, ReadStateInv, QueryInv, UnansweredInv, BlockInv, RestInv, PersistInv,
     AdvanceInv, ArmInv, ThrowInv, CrashInv, EnvironmentInv
     DEF Next, Continue, QueryFails, QueryHangs
<1> QED
  BY <1>1, <1>2

LEMMA SpecInv == Spec => []Inv
BY InitInv, NextInv, PTL DEF Spec

(* Every variable keeps its shape, and the number never passes what was    *)
(* published (FiscalSyncState, persistir).                                 *)
THEOREM TypeCorrect == Spec => []TypeOK
<1>1. Inv => TypeOK
  <2> SUFFICES ASSUME Inv PROVE TypeOK
    OBVIOUS
  <2>1. copies \in [Nsus -> Nat]
    BY DEF Inv, Shape
  <2>2. served \in 0..published /\ lastNSU \in 0..published
    BY Sizes DEF Inv, Shape
  <2> QED
    BY <2>1, <2>2 DEF Inv, Shape, TypeOK
<1> QED
  BY <1>1, SpecInv, PTL
-----------------------------------------------------------------------------
(* SEFAZ rejects no query of ours while nothing has failed: the job's, the *)
(* users' and the pages of one run keep out of SEFAZ's hour, whatever the  *)
(* windows' lengths as long as ours is the longer (proximaJanela,          *)
(* executar).                                                              *)
THEOREM ProvokesNothing == Spec => NeverProvokes
<1> DEFINE Provokes == \E c \in Callers :
              pc[c] = "query" /\ run'[c].answer.kind = "rejected" /\ ~(faults > 0)
<1>1. Inv /\ [Next]_vars => ~Provokes
  <2> SUFFICES ASSUME Inv, [Next]_vars, NEW c \in Callers, pc[c] = "query",
                      run'[c].answer.kind = "rejected"
               PROVE  faults > 0
    OBVIOUS
  <2>1. run[c].answer.kind = "none" /\ NoRun.answer.kind = "none"
    BY DEF Inv, Informed, NoAnswer, NoRun
  <2>2. \A d \in Callers : pc[d] # "idle" => d = c
    BY DEF Inv, OneRun
  <2>3. run'[c] # run[c] /\ run'[c] # NoRun
    BY <2>1
  <2>4. ~UNCHANGED vars /\ ~Publish /\ ~OthersQuery /\ ~Tick /\ ~Crash
    BY <2>3 DEF vars, Publish, OthersQuery, Tick, Crash
  <2>5. \A d \in Callers : ~Begin(d) /\ ~Throw(d) /\ ~QueryFails(d) /\ ~QueryHangs(d)
    BY <2>2, <2>3 DEF Begin, Throw, QueryFails, QueryHangs, Unanswered, Finish, Inv, Shape
  <2>6. PICK d \in Callers : Continue(d)
    BY <2>4, <2>5 DEF Next
  <2>7. d = c
    BY <2>2, <2>6 DEF Continue, ReadState, Query, Block, Rest, Persist, Advance, Arm, Answered
  <2>8. Query(c)
    BY <2>6, <2>7 DEF Continue, ReadState, Block, Rest, Persist, Advance, Arm, Answered
  <2> QED
    BY <2>8, QueryInv
<1>2. ~Provokes => \A c \in Callers :
          pc[c] = "query" /\ run'[c].answer.kind = "rejected" => faults > 0
  OBVIOUS
<1> QED
  BY <1>1, <1>2, SpecInv, PTL DEF Spec, NeverProvokes
-----------------------------------------------------------------------------
LEMMA FeedInitial == Init => Feed!FeedInit
BY DEF Init, Feed!FeedInit, Nsus

(* A page that is stored is received; a number that moves, moves over what *)
(* is settled; a rejection skips; the rest is not seen.                    *)
LEMMA FeedStep == Inv /\ [Next]_vars => [Feed!FeedNext]_(Feed!feedVars)
<1> SUFFICES ASSUME Inv, [Next]_vars
             PROVE  Feed!FeedNext \/ UNCHANGED <<published, lastNSU, copies, lost>>
  BY DEF Feed!feedVars
<1> DEFINE Unseen == UNCHANGED <<published, lastNSU, copies, lost>>
<1>1. CASE UNCHANGED vars \/ OthersQuery \/ Tick \/ Crash
  BY <1>1 DEF vars, sefazVars, stateVars, OthersQuery, Tick, Crash
<1>2. CASE Publish
  BY <1>2 DEF Publish, stateVars, Feed!FeedNext, Feed!Publish
<1>3. ASSUME NEW c \in Callers,
             \/ Begin(c) \/ ReadState(c) \/ QueryFails(c) \/ QueryHangs(c)
             \/ Query(c) \/ Arm(c) \/ Throw(c)
      PROVE  Unseen
  BY <1>3 DEF Begin, ReadState, QueryFails, QueryHangs, Unanswered, Query, Serve, Arm, Throw, sefazVars, stateVars
<1>4. ASSUME NEW c \in Callers, Rest(c) PROVE Unseen
  BY <1>4 DEF Rest, Answered, Inv, Informed, sefazVars
<1>5. ASSUME NEW c \in Callers, Persist(c) PROVE Feed!Receive
  <2>1. /\ PageOf(c) = {n \in Nsus : lastNSU < n /\ n <= run[c].answer.ult}
        /\ \A n \in PageOf(c) : n <= published
    BY <1>5, PageAhead DEF Persist
  <2>2. PageOf(c) \subseteq Feed!Ahead
    BY <2>1 DEF Feed!Ahead, Nsus
  <2>3. PICK corrupt \in SUBSET PageOf(c) :
          /\ copies' = [n \in Nsus |->
                IF n \in PageOf(c) \ corrupt /\ ~Stored(n) THEN 1 ELSE copies[n]]
          /\ lost' = lost \cup {n \in corrupt : ~Stored(n)}
    BY <1>5 DEF Persist
  <2>4. \A n \in Nsus : copies[n] \in {0, 1} /\ (~Stored(n) <=> copies[n] = 0)
    BY DEF Inv, Shape, Stored
  <2>5. copies' \in [Nsus -> {0, 1}]
    BY <2>3, <2>4
  <2>6. \A n \in Nsus : copies'[n] # copies[n] => n \in Feed!Ahead /\ copies[n] = 0
    BY <2>2, <2>3, <2>4
  <2>7. lost' \in SUBSET (lost \cup Feed!Ahead) /\ lost \subseteq lost'
    BY <2>2, <2>3
  <2>8. \A n \in lost' \ lost : copies'[n] = 0
    BY <2>1, <2>3, <2>4
  <2>9. UNCHANGED <<published, lastNSU>>
    BY <1>5 DEF Persist, sefazVars, stateVars
  <2> QED
    BY <2>5, <2>6, <2>7, <2>8, <2>9 DEF Feed!Receive, Nsus
<1>6. ASSUME NEW c \in Callers, Advance(c) PROVE Feed!Move
  <2>1. /\ lastNSU' = run[c].answer.ult /\ UNCHANGED <<published, copies, lost>>
        /\ lastNSU < lastNSU' /\ lastNSU' <= served
        /\ \A n \in Nsus : n <= lastNSU' => Stored(n) \/ n \in lost
    BY <1>6 DEF Advance, Inv, Informed, sefazVars
  <2>2. /\ lastNSU' \in 0..MaxDocs /\ lastNSU \in 0..MaxDocs /\ served \in 0..MaxDocs
        /\ published \in 0..MaxDocs /\ served <= published
    BY <1>6, NextInv DEF Inv, Shape
  <2>3. lastNSU' \in Feed!Ahead
    BY <2>1, <2>2 DEF Feed!Ahead
  <2>4. \A n \in 1..lastNSU' : Feed!Settled(n)
    BY <2>1, <2>2, Sizes DEF Feed!Settled, Stored, Nsus
  <2> QED
    BY <2>1, <2>3, <2>4 DEF Feed!Move
<1>7. ASSUME NEW c \in Callers, Block(c) PROVE Feed!Skip \/ Unseen
  <2> DEFINE echo == run[c].answer.ult
             to == IF echo > 0 THEN echo ELSE run[c].last
  <2>1. /\ run[c].last = lastNSU /\ lastNSU <= echo /\ echo <= served
        /\ lastNSU' = to /\ UNCHANGED <<published, copies>>
        /\ lost' = lost \cup {n \in Nsus : lastNSU < n /\ n <= to /\ ~Stored(n)}
    BY <1>7 DEF Block, Answered, Inv, Informed, sefazVars
  <2>2. /\ lastNSU \in 0..MaxDocs /\ echo \in 0..MaxDocs /\ served \in 0..MaxDocs
        /\ published \in 0..MaxDocs /\ served <= published
    BY AnswerShape DEF Inv, Shape
  <2>3. to \in 0..MaxDocs /\ lastNSU <= to /\ to <= published
    BY <2>1, <2>2
  <2> HIDE DEF echo, to
  <2>4. CASE to = lastNSU
    <3>1. \A n \in Nsus : ~(lastNSU < n /\ n <= to)
      BY <2>2, <2>4, Sizes
    <3>2. lost' = lost
      BY <2>1, <3>1
    <3> QED
      BY <2>1, <2>4, <3>2
  <2>5. CASE lastNSU < to
    <3>1. lastNSU' \in Feed!Ahead
      BY <2>1, <2>2, <2>3, <2>5 DEF Feed!Ahead
    <3>2. \A n \in Nsus : ~Stored(n) <=> copies[n] = 0
      BY DEF Inv, Shape, Stored
    <3>3. \A n \in Nsus : n <= lastNSU /\ ~Stored(n) => n \in lost
      BY DEF Inv, SettledBefore
    <3>4. 1..to = {n \in Nsus : n <= to}
      BY <2>3, Sizes DEF Nsus
    <3>5. lost' = lost \cup {n \in 1..to : copies[n] = 0}
      BY <2>1, <2>2, <3>2, <3>3, <3>4, Sizes
    <3> QED
      BY <2>1, <3>1, <3>5 DEF Feed!Skip
  <2> QED
    BY <2>2, <2>3, <2>4, <2>5
<1> QED
  BY <1>1, <1>2, <1>3, <1>4, <1>5, <1>6, <1>7 DEF Next, Continue, Feed!FeedNext

(* The synchronisation implements its feed, whatever fails and whoever     *)
(* asks: a document is stored at most once, and the number never goes back *)
(* nor passes one that was neither stored nor given up (persistir,         *)
(* atualizarEstado, bloquear).                                             *)
THEOREM KeepsTheFeed == Spec => ImplementsFeed
BY FeedInitial, FeedStep, SpecInv, PTL DEF Spec, ImplementsFeed, Feed!FeedSpec
-----------------------------------------------------------------------------
(* The notes received, for any number of requests, documents, notes, debts *)
(* and values.                                                             *)
(*                                                                         *)
(* No row leaves its paper or is deleted, and none turns pending again, so *)
(* that what a document found or made of a note stays found, and what an   *)
(* event cancelled stays cancelled.  The importer takes the documents in   *)
(* their order.  When calls come one at a time, what a call has read is    *)
(* still so when it writes.                                                *)
Debts == [status: {"NONE", "VALIDATED", "CANCELLED"}, note: NoteIds \cup {None},
          paper: Papers \cup {None}, serial: BOOLEAN, supplier: Suppliers \cup {None},
          order: OrderIds \cup {None}, total: 0..MaxTotal, parcels: Seq(Int),
          account: {"OPEN", "PAID", "CANCELLED"}, removed: BOOLEAN, adjusted: BOOLEAN]

Blank == \A r \in NoteIds : ~Exists(r) => notes[r] = NoNote

(* The unique index of received notes.                                     *)
SerialRows ==
    \A r, s \in NoteIds :
        notes[r].serial /\ notes[s].serial /\ notes[r].paper = notes[s].paper => r = s

Sights == [note: Notes, open: Int, supplier: Suppliers \cup {None}]

Asked(c) ==
    /\ c.op \in {"reconcile", "cancelNote"} => c.note \in NoteIds /\ Exists(c.note)
    /\ c.op = "reconcile" => c.order \in OrderIds \cup {None}
    /\ c.op = "cancelOrder" => c.order \in OrderIds

CallsShape ==
    /\ stage \in [Procs -> {"idle", "order", "write"}]
    /\ call = [p \in Procs |-> call[p]]
    /\ seen \in [Procs -> Sights]
    /\ \A p \in Procs : Asked(call[p])

NotesShape ==
    /\ NotesTypeOK /\ Blank /\ SerialRows /\ invoices \in [InvoiceIds -> Debts]
    /\ CallsShape /\ workload \in Workloads

(* The importer is at the first document forwarded, and the row that it    *)
(* found is of that note.                                                  *)
AtTheFirst ==
    /\ importer.step # "idle" =>
          /\ importer.doc \in DOMAIN docs /\ Doc.status = "FORWARDED"
          /\ \A e \in DOMAIN docs : e < importer.doc => docs[e].status # "FORWARDED"
    /\ importer.step = "event" => Doc.kind = "cancellation"
    /\ importer.step \in {"create", "update", "enrich"} => Doc.kind # "cancellation"
    /\ importer.step \in {"update", "enrich"} => importer.found \in Keyed(Doc.paper)
    /\ importer.step = "mark" /\ importer.outcome = "PROCESSED" /\ Doc.kind # "cancellation"
          => Keyed(Doc.paper) # {}

InOrder ==
    \A d, e \in DOMAIN docs :
        d < e /\ docs[d].status = "FORWARDED" => docs[e].status = "FORWARDED"

(* A note that was processed has a row, and an event that was processed    *)
(* after it has left no row of it pending.                                 *)
KnownNotes ==
    \A d \in DOMAIN docs :
        docs[d].kind # "cancellation" /\ docs[d].status = "PROCESSED" => Keyed(docs[d].paper) # {}

Settled(k) == \A r \in Keyed(k) : notes[r].status # "PENDING"
Follows(e) ==
    \E d \in DOMAIN docs : /\ d < e /\ docs[d].paper = docs[e].paper
                           /\ docs[d].kind # "cancellation" /\ docs[d].status = "PROCESSED"
Applied(e) ==
    \/ docs[e].status = "PROCESSED"
    \/ importer.step = "mark" /\ importer.doc = e /\ importer.outcome = "PROCESSED"

EventsApplied ==
    \A e \in DOMAIN docs :
        docs[e].kind = "cancellation" /\ Follows(e) /\ Applied(e) => Settled(docs[e].paper)

(* The unique index of invoices.                                           *)
SerialOnce ==
    \A v, w \in InvoiceIds :
        /\ invoices[v].serial /\ invoices[w].serial
        /\ invoices[v].paper = invoices[w].paper /\ invoices[v].supplier = invoices[w].supplier
        /\ ~invoices[v].removed /\ ~invoices[w].removed
        => v = w

(* One call at a time, the importer's steps included.                      *)
Sole ==
    /\ \A p, q \in Procs : stage[p] # "idle" /\ stage[q] # "idle" => p = q
    /\ \A p \in Procs : stage[p] # "idle" => importer.step = "idle"

Backs(v, r) ==
    /\ v \in InvoiceIds /\ Issued(v) /\ invoices[v].note = r
    /\ Owed(v) \/ invoices[v].adjusted

Paired == \A r \in NoteIds : Conciliated(r) => Backs(notes[r].invoice, r)

Owes(v) ==
    LET r == invoices[v].note IN
    /\ r \in NoteIds /\ Conciliated(r) /\ notes[r].invoice = v
    /\ notes[r].total = invoices[v].total /\ notes[r].order = invoices[v].order
    /\ notes[r].supplier = invoices[v].supplier
    /\ SumOf(invoices[v].parcels) = invoices[v].total
    /\ notes[r].order # None => notes[r].order \in OrderIds /\ Standing(notes[r].order)

(* One call at a time, an invoice with a series has a row of its paper     *)
(* that is not pending any more, so that no other call reconciles it.      *)
Spent(v) ==
    LET r == invoices[v].note
    IN  /\ r \in NoteIds /\ Exists(r) /\ notes[r].status # "PENDING"
        /\ notes[r].serial /\ notes[r].paper = invoices[v].paper

Single ==
    /\ \A v \in InvoiceIds : invoices[v].serial => Spent(v)
    /\ \A v, w \in InvoiceIds :
          invoices[v].serial /\ invoices[w].serial /\ invoices[v].paper = invoices[w].paper => v = w

StillSo(p) ==
    LET c == call[p] IN
    /\ stage[p] # "idle" /\ c.op = "reconcile" =>
          seen[p].note = notes[c.note] /\ notes[c.note].status = "PENDING"
    /\ At(p, "write", "reconcile") /\ c.order # None =>
          orders[c.order].live /\ seen[p].open = orders[c.order].total - Consumed(c.order)
    /\ At(p, "write", "cancelNote") => notes[c.note].status = "PENDING"
    /\ At(p, "write", "cancelOrder") =>
          \A v \in InvoiceIds : invoices[v].order = c.order => invoices[v].account # "PAID"

Due(v) == Owed(v) /\ ~invoices[v].adjusted
Books == Paired /\ \A v \in InvoiceIds : Due(v) => Owes(v)

InTurn ==
    /\ Sole /\ Books /\ Single /\ \A p \in Procs : StillSo(p)
    /\ importer.step = "update" => ~Conciliated(importer.found)

NotesInv ==
    /\ NotesShape /\ AtTheFirst /\ InOrder /\ KnownNotes /\ EventsApplied
    /\ SerialOnce /\ (OneAtATime => InTurn)
-----------------------------------------------------------------------------
(* The parts of a debt add up to it, whatever the remainder.               *)
LEMMA PartsAddUp ==
    ASSUME NEW total \in Nat, NEW n \in Nat \ {0}
    PROVE  SumOf(buildInstallments(total, n)) = total
<1> DEFINE q == total \div n
           f == buildInstallments(total, n)
           first == 1..(n - 1)
<1>1. q \in Int
  OBVIOUS
<1>2. f = [i \in 1..n |-> IF i < n THEN q ELSE total - (n - 1) * q]
  BY DEF buildInstallments
<1> HIDE DEF q, f
<1>3. /\ DOMAIN f = first \cup {n} /\ n \notin first
      /\ IsFiniteSet(first) /\ Cardinality(first) = n - 1
  <2>1. 1..n = first \cup {n} /\ n \notin first
    OBVIOUS
  <2>2. n - 1 \in Int /\ (1 > n - 1 => n - 1 = 0) /\ n - 1 - 1 + 1 = n - 1
    OBVIOUS
  <2>3. IsFiniteSet(first) /\ Cardinality(first) = IF 1 > n - 1 THEN 0 ELSE n - 1 - 1 + 1
    BY <2>2, FS_Interval
  <2> QED
    BY <1>2, <2>1, <2>2, <2>3
<1>4. (\A i \in first : f[i] = q) /\ f[n] = total - (n - 1) * q
  BY <1>1, <1>2
<1>5. SumOver(f, first) = q * (n - 1)
  BY <1>1, <1>3, <1>4, SumConstant
<1>6. q * (n - 1) \in Int /\ (n - 1) * q = q * (n - 1)
  BY <1>1
<1>7. SumOver(f, first \cup {n}) = SumOver(f, first) + f[n]
  <2>1. (\A i \in first : f[i] \in Int) /\ f[n] \in Int
    BY <1>1, <1>4, <1>6
  <2> QED
    BY <1>3, <2>1, SumInsert
<1>8. SumOver(f, DOMAIN f) = q * (n - 1) + (total - q * (n - 1))
  BY <1>3, <1>4, <1>5, <1>6, <1>7
<1> QED
  BY <1>6, <1>8 DEF SumOf, f
-----------------------------------------------------------------------------
(* No row is deleted, leaves its paper or turns pending again, and a paper *)
(* that has a row with its key gets no other.                              *)
RowsMoveOn ==
    \A r \in NoteIds :
        /\ Exists(r) =>
              /\ Exists(r)' /\ notes'[r].paper = notes[r].paper /\ notes'[r].keyed = notes[r].keyed
              /\ notes'[r].status = "PENDING" => notes[r].status = "PENDING"
              /\ notes[r].serial => notes'[r].serial
        /\ ~Exists(r)' => notes'[r] = notes[r]
        /\ notes'[r].serial /\ ~notes[r].serial =>
              \A s \in NoteIds \ {r} : ~(notes'[s].serial /\ notes'[s].paper = notes'[r].paper)
        /\ ~Exists(r) /\ Exists(r)' /\ notes'[r].keyed => Keyed(notes'[r].paper) = {}

LEMMA SerialRowsStay ==
    ASSUME NotesShape, RowsMoveOn
    PROVE  SerialRows'
<1>1. SUFFICES ASSUME NEW r \in NoteIds, NEW s \in NoteIds, r # s,
                      notes'[r].serial, notes'[s].serial, notes'[r].paper = notes'[s].paper
               PROVE  FALSE
  BY DEF SerialRows
<1>2. notes[r].serial /\ notes[s].serial
  BY <1>1 DEF RowsMoveOn
<1>3. NoNote.serial = FALSE
  BY DEF NoNote, NewNote
<1>4. Exists(r) /\ Exists(s)
  BY <1>2, <1>3 DEF NotesShape, Blank
<1>5. notes[r].paper = notes[s].paper
  BY <1>1, <1>4 DEF RowsMoveOn
<1> QED
  BY <1>1, <1>2, <1>5 DEF NotesShape, SerialRows

LEMMA KeyedStays ==
    ASSUME RowsMoveOn, NEW k, Keyed(k) # {}
    PROVE  Keyed(k)' = Keyed(k) /\ (Settled(k) => Settled(k)')
<1>1. Keyed(k)' = Keyed(k)
  BY DEF RowsMoveOn, Keyed
<1>2. \A r \in Keyed(k) : notes'[r].status = "PENDING" => notes[r].status = "PENDING"
  BY DEF RowsMoveOn, Keyed
<1> QED
  BY <1>1, <1>2 DEF Settled

Sourced == AtTheFirst /\ InOrder /\ KnownNotes /\ EventsApplied

(* What the users do to the rows.                                          *)
LEMMA UsersKeepSourced ==
    ASSUME Sourced, UNCHANGED <<docs, importer>>, RowsMoveOn
    PROVE  Sourced'
<1>1. Doc' = Doc
  BY DEF Doc
<1>2. AtTheFirst'
  <2>1. Keyed(Doc.paper) # {} => Keyed(Doc.paper)' = Keyed(Doc.paper)
    BY <1>1, KeyedStays
  <2> QED
    BY <1>1, <2>1 DEF Sourced, AtTheFirst
<1>3. InOrder'
  BY DEF Sourced, InOrder
<1>4. KnownNotes'
  <2>1. ASSUME NEW d \in DOMAIN docs, docs[d].kind # "cancellation", docs[d].status = "PROCESSED"
        PROVE  Keyed(docs[d].paper)' # {}
    <3>1. Keyed(docs[d].paper) # {}
      BY <2>1 DEF Sourced, KnownNotes
    <3> QED
      BY <3>1, KeyedStays
  <2> QED
    BY <2>1 DEF KnownNotes, Keyed, Exists
<1>5. EventsApplied'
  <2>1. ASSUME NEW e \in DOMAIN docs, docs[e].kind = "cancellation", Follows(e), Applied(e)
        PROVE  Settled(docs[e].paper)'
    <3>1. Settled(docs[e].paper) /\ Keyed(docs[e].paper) # {}
      BY <2>1 DEF Sourced, EventsApplied, KnownNotes, Follows
    <3> QED
      BY <3>1, KeyedStays
  <2>2. \A e \in DOMAIN docs : Follows(e)' = Follows(e) /\ Applied(e)' = Applied(e)
    BY DEF Follows, Applied
  <2> QED
    BY <2>1, <2>2 DEF EventsApplied, Settled, Keyed, Exists
<1> QED
  BY <1>2, <1>3, <1>4, <1>5 DEF Sourced

(* A document more, after all the others.                                  *)
LEMMA ArriveSourced ==
    ASSUME NotesShape, Sourced, Arrive
    PROVE  Sourced' /\ docs' \in Seq(Docs) /\ Len(docs) <= Len(docs')
<1>1. PICK kind \in workload.kinds, k \in PapersAtHand :
          docs' = Append(docs, [kind |-> kind, paper |-> k, status |-> "FORWARDED"])
  BY DEF Arrive
<1> DEFINE new == [kind |-> kind, paper |-> k, status |-> "FORWARDED"]
<1>2. new \in Docs /\ new.status = "FORWARDED"
  <2>1. kind \in Kinds
    BY WorkloadAssumption DEF NotesShape
  <2> QED
    BY <2>1 DEF Docs, PapersAtHand
<1> HIDE DEF new
<1>3. docs \in Seq(Docs)
  BY DEF NotesShape, NotesTypeOK
<1>4. /\ docs' \in Seq(Docs) /\ Len(docs') = Len(docs) + 1 /\ Len(docs) \in Nat
      /\ DOMAIN docs = 1..Len(docs) /\ DOMAIN docs' = 1..(Len(docs) + 1)
      /\ docs'[Len(docs) + 1] = new
      /\ \A d \in DOMAIN docs : docs'[d] = docs[d]
  BY <1>1, <1>2, <1>3 DEF new
<1>5. UNCHANGED <<notes, importer>>
  BY DEF Arrive, rows
<1>6. /\ DOMAIN docs \subseteq DOMAIN docs'
      /\ \A d \in DOMAIN docs' : d \in DOMAIN docs \/ (docs'[d].status = "FORWARDED" /\ d = Len(docs) + 1)
  BY <1>2, <1>4
<1>7. AtTheFirst'
  <2>1. importer.doc \in DOMAIN docs => Doc' = Doc
    BY <1>4, <1>5 DEF Doc
  <2>2. \A k2 : Keyed(k2)' = Keyed(k2)
    BY <1>5 DEF Keyed, Exists
  <2>3. importer.doc \in DOMAIN docs =>
            \A e \in DOMAIN docs' : e < importer.doc => e \in DOMAIN docs /\ docs'[e] = docs[e]
    BY <1>4
  <2>4. importer.doc \in DOMAIN docs => importer.doc \in DOMAIN docs'
    BY <1>6
  <2> QED
    BY <1>5, <2>1, <2>2, <2>3, <2>4 DEF Sourced, AtTheFirst, Keyed, Exists
<1>8. InOrder'
  <2>1. ASSUME NEW d \in DOMAIN docs', NEW e \in DOMAIN docs', d < e, docs'[d].status = "FORWARDED"
        PROVE  docs'[e].status = "FORWARDED"
    <3>1. CASE e \in DOMAIN docs
      <4>1. d \in DOMAIN docs
        BY <1>4, <2>1, <3>1
      <4> QED
        BY <1>4, <2>1, <3>1, <4>1 DEF Sourced, InOrder
    <3> QED
      BY <1>6, <3>1
  <2> QED
    BY <2>1 DEF InOrder
<1>9. KnownNotes'
  BY <1>4, <1>5, <1>6 DEF Sourced, KnownNotes, Keyed, Exists
<1>10. EventsApplied'
  <2>1. ASSUME NEW e \in DOMAIN docs', docs'[e].kind = "cancellation", Follows(e)', Applied(e)'
        PROVE  Settled(docs[e].paper)'
    <3>1. e \in DOMAIN docs
      <4>1. CASE docs'[e].status = "PROCESSED"
        BY <1>6, <4>1
      <4>2. CASE importer.step = "mark" /\ importer.doc = e
        BY <4>2 DEF Sourced, AtTheFirst
      <4> QED
        BY <1>5, <2>1, <4>1, <4>2 DEF Applied
    <3>2. docs'[e] = docs[e] /\ Applied(e) /\ docs[e].kind = "cancellation"
      BY <1>4, <1>5, <2>1, <3>1 DEF Applied
    <3>3. Follows(e)
      <4>1. PICK d \in DOMAIN docs' :
                /\ d < e /\ docs'[d].paper = docs'[e].paper
                /\ docs'[d].kind # "cancellation" /\ docs'[d].status = "PROCESSED"
        BY <2>1 DEF Follows
      <4>2. d \in DOMAIN docs /\ docs'[d] = docs[d]
        BY <1>4, <1>6, <4>1
      <4> QED
        BY <3>2, <4>1, <4>2 DEF Follows
    <3> QED
      BY <1>5, <3>1, <3>2, <3>3 DEF Sourced, EventsApplied, Settled, Keyed, Exists
  <2> QED
    BY <2>1 DEF EventsApplied
<1> QED
  BY <1>4, <1>7, <1>8, <1>9, <1>10 DEF Sourced
-----------------------------------------------------------------------------
(* The importer's steps.                                                   *)
ImporterShape ==
    importer \in [step: {"idle", "create", "update", "enrich", "event", "mark"},
                  doc: 0..Len(docs), found: NoteIds \cup {None}, outcome: {"PROCESSED", "ERROR"}]

LEMMA MarkSourced ==
    ASSUME NotesShape, Sourced, UNCHANGED docs, RowsMoveOn, importer.step # "idle",
           NEW outcome \in {"PROCESSED", "ERROR"}, MarkAs(outcome),
           outcome = "PROCESSED" =>
               /\ Doc.kind # "cancellation" => Keyed(Doc.paper)' # {}
               /\ Doc.kind = "cancellation" => Settled(Doc.paper)'
    PROVE  Sourced' /\ ImporterShape'
<1>1. ImporterShape
  BY DEF NotesShape, NotesTypeOK, ImporterShape
<1>2. /\ importer'.step = "mark" /\ importer'.doc = importer.doc
      /\ importer'.outcome = outcome /\ ImporterShape' /\ Doc' = Doc
  BY <1>1 DEF MarkAs, ImporterShape, Doc
<1>3. AtTheFirst'
  BY <1>2 DEF Sourced, AtTheFirst
<1>4. InOrder'
  BY DEF Sourced, InOrder
<1>5. KnownNotes'
  <2>1. ASSUME NEW d \in DOMAIN docs, docs[d].kind # "cancellation", docs[d].status = "PROCESSED"
        PROVE  Keyed(docs[d].paper)' # {}
    <3>1. Keyed(docs[d].paper) # {}
      BY <2>1 DEF Sourced, KnownNotes
    <3> QED
      BY <3>1, KeyedStays
  <2> QED
    BY <2>1 DEF KnownNotes, Keyed, Exists
<1>6. EventsApplied'
  <2>1. ASSUME NEW e \in DOMAIN docs, docs[e].kind = "cancellation", Follows(e), Applied(e)'
        PROVE  Settled(docs[e].paper)'
    <3>1. CASE docs[e].status = "PROCESSED"
      <4>1. Settled(docs[e].paper) /\ Keyed(docs[e].paper) # {}
        BY <2>1, <3>1 DEF Sourced, EventsApplied, Applied, KnownNotes, Follows
      <4> QED
        BY <4>1, KeyedStays
    <3>2. CASE e = importer.doc /\ outcome = "PROCESSED"
      BY <1>2, <2>1, <3>2 DEF Doc
    <3> QED
      BY <1>2, <2>1, <3>1, <3>2 DEF Applied
  <2>2. \A e \in DOMAIN docs : Follows(e)' = Follows(e)
    BY DEF Follows
  <2> QED
    BY <2>1, <2>2 DEF EventsApplied, Settled, Keyed, Exists
<1> QED
  BY <1>2, <1>3, <1>4, <1>5, <1>6 DEF Sourced

LEMMA FirstForwarded ==
    ASSUME NotesShape, Forwarded # {}
    PROVE  Min(Forwarded) \in Forwarded /\ \A d \in Forwarded : Min(Forwarded) <= d
<1>1. Forwarded \subseteq Nat
  BY DEF NotesShape, NotesTypeOK, Forwarded
<1> QED
  BY <1>1, LeastNumber DEF Min

LEMMA ReadSourced ==
    ASSUME NotesShape, Sourced, ImportRead
    PROVE  /\ Sourced' /\ ImporterShape'
           /\ importer'.step = "update" => ~Conciliated(importer'.found)
<1> DEFINE d == Min(Forwarded)
           found == Keyed(docs[d].paper)
<1>1. Forwarded # {} /\ UNCHANGED <<docs, notes>>
  BY DEF ImportRead
<1>2. /\ d \in DOMAIN docs /\ docs[d].status = "FORWARDED"
      /\ \A e \in DOMAIN docs : e < d => docs[e].status # "FORWARDED"
  <2>1. d \in Forwarded /\ \A e \in Forwarded : d <= e
    BY <1>1, FirstForwarded
  <2>2. DOMAIN docs \subseteq Nat
    BY DEF NotesShape, NotesTypeOK
  <2> HIDE DEF d
  <2> QED
    BY <2>1, <2>2 DEF Forwarded
<1>3. docs[d] \in Docs /\ d \in 0..Len(docs)
  BY <1>2 DEF NotesShape, NotesTypeOK
<1>4. PICK step \in {"event", "create", "mark", "enrich", "update"} :
        \E r \in NoteIds \cup {None} :
          /\ importer' = [step |-> step, doc |-> d, found |-> r, outcome |-> "PROCESSED"]
          /\ step = "event" <=> docs[d].kind = "cancellation"
          /\ step \in {"mark", "enrich", "update"} => r \in found
          /\ step = "update" => notes[r].status \notin CONSUMING_STATUSES
  <2>1. CASE docs[d].kind = "cancellation"
    BY <2>1 DEF ImportRead
  <2>2. CASE docs[d].kind # "cancellation" /\ found = {}
    BY <2>2 DEF ImportRead
  <2>3. CASE docs[d].kind # "cancellation" /\ found # {}
    <3> DEFINE r == CHOOSE x \in found : TRUE
    <3>1. r \in found /\ r \in NoteIds
      BY <2>3 DEF Keyed
    <3>2. \/ importer' = [step |-> "mark", doc |-> d, found |-> r, outcome |-> "PROCESSED"]
          \/ importer' = [step |-> "enrich", doc |-> d, found |-> r, outcome |-> "PROCESSED"]
          \/ /\ notes[r].status \notin CONSUMING_STATUSES
             /\ importer' = [step |-> "update", doc |-> d, found |-> r, outcome |-> "PROCESSED"]
      BY <2>3 DEF ImportRead
    <3> HIDE DEF r, found, d
    <3> QED
      BY <2>3, <3>1, <3>2
  <2> QED
    BY <2>1, <2>2, <2>3
<1>5. PICK r \in NoteIds \cup {None} :
          /\ importer' = [step |-> step, doc |-> d, found |-> r, outcome |-> "PROCESSED"]
          /\ step = "event" <=> docs[d].kind = "cancellation"
          /\ step \in {"mark", "enrich", "update"} => r \in found
          /\ step = "update" => notes[r].status \notin CONSUMING_STATUSES
  BY <1>4
<1> HIDE DEF d
<1>6. /\ importer'.step = step /\ importer'.doc = d /\ importer'.found = r
      /\ importer'.outcome = "PROCESSED" /\ Doc' = docs[d]
  BY <1>1, <1>5 DEF Doc
<1>7. ImporterShape'
  BY <1>1, <1>3, <1>5 DEF ImporterShape
<1>8. AtTheFirst'
  <2>1. step = "mark" => docs[d].kind # "cancellation" /\ found # {}
    BY <1>5
  <2>2. Keyed(Doc.paper)' = found
    BY <1>1, <1>6 DEF Keyed, Exists
  <2> HIDE DEF found
  <2> QED
    BY <1>1, <1>2, <1>4, <1>5, <1>6, <2>1, <2>2 DEF AtTheFirst
<1>9. EventsApplied'
  <2>1. ASSUME NEW e \in DOMAIN docs, docs[e].kind = "cancellation", Applied(e)'
        PROVE  Applied(e)
    BY <1>1, <1>5, <1>6, <2>1 DEF Applied
  <2> QED
    BY <1>1, <2>1 DEF Sourced, EventsApplied, Follows, Settled, Keyed, Exists
<1>10. InOrder' /\ KnownNotes'
  BY <1>1 DEF Sourced, InOrder, KnownNotes, Keyed, Exists
<1> QED
  BY <1>5, <1>6, <1>7, <1>8, <1>9, <1>10 DEF Sourced, Conciliated, CONSUMING_STATUSES

LEMMA MarkedSourced ==
    ASSUME NotesShape, Sourced, ImportMark
    PROVE  Sourced' /\ ImporterShape' /\ docs' \in Seq(Docs)
<1> DEFINE d == importer.doc
<1>1. /\ d \in DOMAIN docs /\ docs[d].status = "FORWARDED" /\ importer.step = "mark"
      /\ \A e \in DOMAIN docs : e < d => docs[e].status # "FORWARDED"
      /\ UNCHANGED notes /\ importer' = Idle
      /\ docs' = [docs EXCEPT ![d].status = importer.outcome]
  BY DEF ImportMark, Sourced, AtTheFirst, Doc
<1>2. /\ docs \in Seq(Docs) /\ importer.outcome \in {"PROCESSED", "ERROR"}
      /\ DOMAIN docs = 1..Len(docs) /\ Len(docs) \in Nat
  BY DEF NotesShape, NotesTypeOK
<1> HIDE DEF d
<1>3. /\ DOMAIN docs' = DOMAIN docs
      /\ \A e \in DOMAIN docs : e # d => docs'[e] = docs[e]
      /\ docs'[d] = [docs[d] EXCEPT !.status = importer.outcome]
      /\ docs[d] \in Docs
  BY <1>1, <1>2
<1>4. /\ docs'[d].status = importer.outcome /\ docs'[d].kind = docs[d].kind
      /\ docs'[d].paper = docs[d].paper /\ docs'[d] \in Docs
  BY <1>2, <1>3 DEF Docs
<1>5. docs' \in Seq(Docs) /\ Len(docs') = Len(docs)
  BY <1>1, <1>2, <1>3, <1>4
<1>6. ImporterShape'
  <2>1. 0 \in 0..Len(docs')
    BY <1>2, <1>5
  <2> QED
    BY <1>1, <2>1 DEF ImporterShape, Idle
<1>7. AtTheFirst'
  BY <1>1 DEF AtTheFirst, Idle
<1>8. \A e \in DOMAIN docs : docs'[e].status = "FORWARDED" => d < e
  BY <1>1, <1>2, <1>3, <1>4
<1>9. InOrder'
  BY <1>1, <1>2, <1>3, <1>8 DEF Sourced, InOrder
<1>10. \A k : Keyed(k)' = Keyed(k) /\ Settled(k)' = Settled(k)
  BY <1>1 DEF Keyed, Exists, Settled
<1>11. KnownNotes'
  <2>1. ASSUME NEW e \in DOMAIN docs, docs'[e].kind # "cancellation", docs'[e].status = "PROCESSED"
        PROVE  Keyed(docs'[e].paper) # {}
    <3>1. CASE e = d
      BY <1>1, <1>3, <1>4, <2>1, <3>1 DEF Sourced, AtTheFirst, Doc, d
    <3> QED
      BY <1>3, <2>1, <3>1 DEF Sourced, KnownNotes
  <2>2. \A e \in DOMAIN docs' :
            docs'[e].kind # "cancellation" /\ docs'[e].status = "PROCESSED" => Keyed(docs'[e].paper) # {}
    BY <1>3, <2>1
  <2> QED
    BY <1>1, <2>2 DEF KnownNotes, Keyed, Exists
<1>12. EventsApplied'
  <2>1. ASSUME NEW e \in DOMAIN docs, docs'[e].kind = "cancellation", Follows(e)', Applied(e)'
        PROVE  docs[e].kind = "cancellation" /\ Follows(e) /\ Applied(e) /\ docs'[e].paper = docs[e].paper
    <3>1. docs'[e].status = "PROCESSED"
      BY <1>1, <2>1 DEF Applied, Idle
    <3>2. Applied(e)
      BY <1>1, <1>3, <1>4, <3>1 DEF Applied, d
    <3>3. docs[e].kind = "cancellation" /\ docs'[e].paper = docs[e].paper
      BY <1>3, <1>4, <2>1
    <3>4. PICK f \in DOMAIN docs :
              /\ f < e /\ docs'[f].paper = docs'[e].paper
              /\ docs'[f].kind # "cancellation" /\ docs'[f].status = "PROCESSED"
      BY <1>3, <2>1 DEF Follows
    <3>5. f # d
      <4>1. SUFFICES ASSUME f = d PROVE FALSE
        OBVIOUS
      <4>2. docs[e].status = "FORWARDED"
        BY <1>1, <3>4, <4>1 DEF Sourced, InOrder
      <4>3. e # d
        BY <1>2, <3>4, <4>1
      <4> QED
        BY <1>3, <3>1, <4>2, <4>3
    <3> QED
      BY <1>3, <3>2, <3>3, <3>4, <3>5 DEF Follows
  <2>2. \A e \in DOMAIN docs' :
            docs'[e].kind = "cancellation" /\ Follows(e)' /\ Applied(e)' => Settled(docs'[e].paper)
    BY <1>3, <2>1 DEF Sourced, EventsApplied
  <2> QED
    BY <1>1, <2>2 DEF EventsApplied, Settled, Keyed, Exists
<1> QED
  BY <1>5, <1>6, <1>7, <1>9, <1>11, <1>12 DEF Sourced

LEMMA CrashSourced ==
    ASSUME NotesShape, Sourced, UNCHANGED <<docs, notes>>, importer' = Idle
    PROVE  Sourced' /\ ImporterShape'
<1>1. Len(docs) \in Nat
  BY DEF NotesShape, NotesTypeOK
<1>2. ImporterShape'
  BY <1>1 DEF ImporterShape, Idle
<1>3. AtTheFirst' /\ InOrder'
  BY DEF Sourced, AtTheFirst, InOrder, Idle
<1>4. KnownNotes'
  BY DEF Sourced, KnownNotes, Keyed, Exists
<1>5. EventsApplied'
  <2>1. ASSUME NEW e \in DOMAIN docs, docs[e].kind = "cancellation", Follows(e), Applied(e)'
        PROVE  Settled(docs[e].paper)
    BY <2>1 DEF Sourced, EventsApplied, Applied, Idle
  <2>2. \A e \in DOMAIN docs : Follows(e)' = Follows(e)
    BY DEF Follows
  <2> QED
    BY <2>1, <2>2 DEF EventsApplied, Settled, Keyed, Exists
<1> QED
  BY <1>2, <1>3, <1>4, <1>5 DEF Sourced

(* No row becomes or ceases to be a debt, and those that are say the same. *)
DebtsKept ==
    \A r \in NoteIds :
        /\ Conciliated(r)' => Conciliated(r)
        /\ Conciliated(r) =>
              /\ notes'[r].status = notes[r].status /\ notes'[r].invoice = notes[r].invoice
              /\ notes'[r].total = notes[r].total /\ notes'[r].order = notes[r].order
              /\ notes'[r].supplier = notes[r].supplier

LEMMA Alike ==
    ASSUME NotesShape, NEW r \in NoteIds, NEW new \in Notes, Insertable(r, new), new.serial
    PROVE  \A s \in NoteIds \ {r} : ~(notes[s].serial /\ notes[s].paper = new.paper)
<1>1. NoNote.serial = FALSE
  BY DEF NoNote, NewNote
<1> QED
  BY <1>1 DEF NotesShape, Blank, Insertable

LEMMA RowWritten ==
    ASSUME NotesShape, NEW r \in NoteIds, NEW new \in Notes, notes' = [notes EXCEPT ![r] = new],
           Exists(r), new.status # "NONE", new.paper = notes[r].paper, new.keyed = notes[r].keyed,
           new.status = "PENDING" => notes[r].status = "PENDING",
           notes[r].serial => new.serial, new.serial => notes[r].serial \/ Insertable(r, new)
    PROVE  /\ notes' \in [NoteIds -> Notes] /\ RowsMoveOn
           /\ ~Conciliated(r) /\ new.status \notin {"RECONCILED", "DIVERGENT"} => DebtsKept
<1>1. notes \in [NoteIds -> Notes]
  BY DEF NotesShape, NotesTypeOK
<1>2. notes' \in [NoteIds -> Notes] /\ notes'[r] = new /\ \A s \in NoteIds \ {r} : notes'[s] = notes[s]
  BY <1>1
<1>3. RowsMoveOn
  BY <1>2, Alike DEF RowsMoveOn, Exists
<1>4. ~Conciliated(r) /\ new.status \notin {"RECONCILED", "DIVERGENT"} => DebtsKept
  BY <1>2 DEF DebtsKept, Conciliated
<1> QED
  BY <1>2, <1>3, <1>4

LEMMA RowAppears ==
    ASSUME NotesShape, NEW r \in NoteIds, NEW new \in Notes, notes' = [notes EXCEPT ![r] = new],
           ~Exists(r), Insertable(r, new), new.status \in {"PENDING", "CANCELLED"}
    PROVE  notes' \in [NoteIds -> Notes] /\ RowsMoveOn /\ DebtsKept
<1>1. notes \in [NoteIds -> Notes]
  BY DEF NotesShape, NotesTypeOK
<1>2. notes' \in [NoteIds -> Notes] /\ notes'[r] = new /\ \A s \in NoteIds \ {r} : notes'[s] = notes[s]
  BY <1>1
<1>3. new.keyed => Keyed(new.paper) = {}
  BY DEF Insertable, Keyed
<1>4. RowsMoveOn
  BY <1>2, <1>3, Alike DEF RowsMoveOn, Exists
<1>5. DebtsKept
  BY <1>2 DEF DebtsKept, Conciliated, Exists
<1> QED
  BY <1>2, <1>4, <1>5

(* What a step of the importer does, other than reading.                   *)
ImportKeeps ==
    /\ notes' \in [NoteIds -> Notes] /\ RowsMoveOn /\ docs' \in Seq(Docs) /\ Sourced' /\ ImporterShape'
    /\ importer'.step # "update"
    /\ (importer.step = "update" => ~Conciliated(importer.found)) => DebtsKept

LEMMA UpdateKeeps ==
    ASSUME NotesShape, Sourced, ImportUpdate
    PROVE  ImportKeeps
<1> DEFINE r == importer.found
           Row(s) == [notes[r] EXCEPT !.total = amount[Doc.paper], !.full = Complete(Doc),
                          !.serial = TRUE, !.supplier = s,
                          !.items = IF Complete(Doc) THEN 1 ELSE @,
                          !.status = IF Doc.kind = "cancelledSummary" THEN "CANCELLED" ELSE @]
<1>0. PICK supplier \in Resolved(notes[r].supplier) :
          IF Insertable(r, Row(supplier))
          THEN notes' = [notes EXCEPT ![r] = Row(supplier)] /\ MarkAs("PROCESSED")
          ELSE UNCHANGED notes /\ MarkAs("ERROR")
  BY DEF ImportUpdate
<1> DEFINE new == Row(supplier)
<1>1. /\ importer.step = "update" /\ UNCHANGED docs
      /\ \/ Insertable(r, new) /\ notes' = [notes EXCEPT ![r] = new] /\ MarkAs("PROCESSED")
         \/ UNCHANGED notes /\ MarkAs("ERROR")
  BY <1>0 DEF ImportUpdate
<1>2. r \in Keyed(Doc.paper) /\ r \in NoteIds /\ Doc.kind # "cancellation"
  BY <1>1 DEF Sourced, AtTheFirst, Keyed
<1>3. /\ notes \in [NoteIds -> Notes] /\ docs \in Seq(Docs) /\ importer.doc \in DOMAIN docs
      /\ amount \in [Papers -> Totals]
  BY <1>1 DEF NotesShape, NotesTypeOK, Sourced, AtTheFirst
<1>4. notes[r] \in Notes /\ Doc \in Docs
  BY <1>2, <1>3 DEF Doc
<1>5. amount[Doc.paper] \in 0..MaxTotal
  BY <1>3, <1>4, BoundsAssumption DEF Docs, Totals
<1>6. new \in Notes
  <2>1. /\ \A n \in Notes, t \in 0..MaxTotal, full \in BOOLEAN :
               [n EXCEPT !.total = t, !.full = full, !.serial = TRUE] \in Notes
        /\ \A n \in Notes, i \in 0..1, s \in Suppliers \cup {None} :
           \A st \in {n.status, "CANCELLED"} :
               [n EXCEPT !.supplier = s, !.items = i, !.status = st] \in Notes
    BY DEF Notes
  <2>3. supplier \in Suppliers \cup {None}
    <3>1. workload.lookups \subseteq Suppliers \cup {None}
      BY WorkloadAssumption DEF NotesShape
    <3>2. notes[r].supplier \in Suppliers \cup {None}
      BY <1>4 DEF Notes
    <3> HIDE DEF r, Row
    <3> QED
      BY <1>0, <3>1, <3>2 DEF Resolved
  <2>2. /\ Complete(Doc) \in BOOLEAN /\ (IF Complete(Doc) THEN 1 ELSE notes[r].items) \in 0..1
        /\ (IF Doc.kind = "cancelledSummary" THEN "CANCELLED" ELSE notes[r].status)
               \in {notes[r].status, "CANCELLED"}
    BY <1>4 DEF Notes, Complete
  <2> DEFINE header == [notes[r] EXCEPT !.total = amount[Doc.paper], !.full = Complete(Doc),
                                        !.serial = TRUE]
             items == IF Complete(Doc) THEN 1 ELSE notes[r].items
             status == IF Doc.kind = "cancelledSummary" THEN "CANCELLED" ELSE notes[r].status
  <2>4. header \in Notes
    BY <1>4, <1>5, <2>1, <2>2
  <2>7. header.status = notes[r].status
    BY <1>4 DEF Notes
  <2>5. new = [header EXCEPT !.supplier = supplier, !.items = items, !.status = status]
    BY <1>4 DEF Notes
  <2> HIDE DEF header, items, status, new
  <2>6. items \in 0..1 /\ status \in {header.status, "CANCELLED"}
    BY <2>2, <2>7 DEF items, status
  <2> QED
    BY <2>1, <2>3, <2>4, <2>5, <2>6
<1>7. /\ new.status \in {notes[r].status, "CANCELLED"} /\ new.paper = notes[r].paper
      /\ new.keyed = notes[r].keyed /\ new.serial
  BY <1>4 DEF Notes
<1> HIDE DEF new, r
<1>8. Exists(r)
  BY <1>2 DEF Keyed
<1>9. CASE Insertable(r, new) /\ notes' = [notes EXCEPT ![r] = new] /\ MarkAs("PROCESSED")
  <2>1. /\ notes' \in [NoteIds -> Notes] /\ RowsMoveOn
        /\ ~Conciliated(r) /\ new.status \notin {"RECONCILED", "DIVERGENT"} => DebtsKept
    BY <1>2, <1>6, <1>7, <1>8, <1>9, RowWritten DEF Exists
  <2>2. Keyed(Doc.paper)' # {}
    <3>1. Doc' = Doc
      BY <1>1, <1>3, <1>9 DEF MarkAs, Doc, NotesShape, NotesTypeOK
    <3>2. Keyed(Doc.paper)' = Keyed(Doc.paper)
      BY <1>2, <2>1, <3>1, KeyedStays
    <3> QED
      BY <1>2, <3>2
  <2>3. Sourced' /\ ImporterShape'
    BY <1>1, <1>2, <1>9, <2>1, <2>2, MarkSourced
  <2> QED
    BY <1>1, <1>3, <1>7, <1>9, <2>1, <2>3 DEF ImportKeeps, MarkAs, Conciliated, NotesShape, NotesTypeOK, r
<1>10. CASE UNCHANGED notes /\ MarkAs("ERROR")
  <2>1. RowsMoveOn /\ DebtsKept
    BY <1>10 DEF RowsMoveOn, DebtsKept, Exists, Conciliated
  <2>2. Sourced' /\ ImporterShape'
    BY <1>1, <1>10, <2>1, MarkSourced
  <2> QED
    BY <1>1, <1>3, <1>10, <2>1, <2>2 DEF ImportKeeps, MarkAs, NotesShape, NotesTypeOK
<1> QED
  BY <1>1, <1>9, <1>10

LEMMA EnrichKeeps ==
    ASSUME NotesShape, Sourced, ImportEnrich
    PROVE  ImportKeeps
<1> DEFINE r == importer.found
           new == [notes[r] EXCEPT !.full = TRUE, !.items = 1]
<1>1. importer.step = "enrich" /\ UNCHANGED docs /\ MarkAs("PROCESSED")
  BY DEF ImportEnrich
<1>2. r \in Keyed(Doc.paper) /\ r \in NoteIds /\ Exists(r) /\ Doc.kind # "cancellation"
  BY <1>1 DEF Sourced, AtTheFirst, Keyed
<1>3. notes \in [NoteIds -> Notes] /\ docs \in Seq(Docs)
  BY DEF NotesShape, NotesTypeOK
<1>4. notes' = [notes EXCEPT ![r] = new] /\ notes[r] \in Notes
  <2>1. notes' = [notes EXCEPT ![r].full = TRUE, ![r].items = 1]
    BY DEF ImportEnrich
  <2> QED
    BY <1>2, <1>3, <2>1
<1>5. /\ new \in Notes /\ new.status = notes[r].status /\ new.paper = notes[r].paper
      /\ new.keyed = notes[r].keyed /\ new.invoice = notes[r].invoice
      /\ new.total = notes[r].total /\ new.order = notes[r].order
      /\ new.serial = notes[r].serial /\ new.supplier = notes[r].supplier
  <2>1. \A n \in Notes, full \in BOOLEAN, i \in 0..1 :
            [n EXCEPT !.full = full, !.items = i] \in Notes
    BY DEF Notes
  <2>2. \A n \in Notes, full \in BOOLEAN, i \in 0..1 :
            LET m == [n EXCEPT !.full = full, !.items = i]
            IN  /\ m.status = n.status /\ m.paper = n.paper /\ m.keyed = n.keyed
                /\ m.invoice = n.invoice /\ m.total = n.total /\ m.order = n.order
                /\ m.serial = n.serial /\ m.supplier = n.supplier
    BY DEF Notes
  <2>3. TRUE \in BOOLEAN /\ 1 \in 0..1
    OBVIOUS
  <2>4. new \in Notes
    BY <1>4, <2>1, <2>3
  <2> QED
    BY <1>4, <2>2, <2>3, <2>4
<1> HIDE DEF new, r
<1>6. notes' \in [NoteIds -> Notes] /\ RowsMoveOn
  BY <1>2, <1>4, <1>5, RowWritten DEF Exists
<1>7. DebtsKept
  BY <1>2, <1>3, <1>4, <1>5 DEF DebtsKept, Conciliated
<1>8. Doc' = Doc
  BY <1>1 DEF MarkAs, Doc, NotesShape, NotesTypeOK
<1>9. Keyed(Doc.paper)' # {}
  BY <1>2, <1>6, <1>8, KeyedStays
<1>10. Sourced' /\ ImporterShape'
  BY <1>1, <1>2, <1>6, <1>9, MarkSourced
<1> QED
  BY <1>1, <1>3, <1>6, <1>7, <1>10 DEF ImportKeeps, MarkAs, NotesShape, NotesTypeOK

LEMMA CreateKeeps ==
    ASSUME NotesShape, Sourced, ImportCreate
    PROVE  ImportKeeps
<1>0. PICK supplier \in workload.lookups :
          LET pending == NewNote(Doc.paper, TRUE, TRUE, amount[Doc.paper], Complete(Doc), supplier)
              new == IF Doc.kind = "cancelledSummary" THEN [pending EXCEPT !.status = "CANCELLED"]
                     ELSE pending
          IN  \/ \E r \in NoteIds : /\ ~Exists(r) /\ Insertable(r, new)
                                    /\ notes' = [notes EXCEPT ![r] = new] /\ MarkAs("PROCESSED")
              \/ UNCHANGED notes /\ MarkAs("ERROR")
  BY DEF ImportCreate
<1> DEFINE pending == NewNote(Doc.paper, TRUE, TRUE, amount[Doc.paper], Complete(Doc), supplier)
           new == IF Doc.kind = "cancelledSummary" THEN [pending EXCEPT !.status = "CANCELLED"]
                  ELSE pending
<1>1. importer.step = "create" /\ UNCHANGED docs
  BY DEF ImportCreate
<1>2. Doc \in Docs /\ Doc.kind # "cancellation" /\ docs \in Seq(Docs)
  BY <1>1 DEF NotesShape, NotesTypeOK, Sourced, AtTheFirst, Doc
<1>3. amount[Doc.paper] \in 0..MaxTotal
  BY <1>2, BoundsAssumption DEF NotesShape, NotesTypeOK, Docs, Totals
<1>4. pending \in Notes
  <2>1. supplier \in Suppliers \cup {None}
    BY WorkloadAssumption DEF NotesShape
  <2> QED
    BY <1>2, <1>3, <2>1 DEF NewNote, Notes, Docs, Complete
<1>5. /\ new \in Notes /\ new.status \in {"PENDING", "CANCELLED"}
      /\ new.paper = Doc.paper /\ new.keyed = TRUE
  <2>1. pending.status = "PENDING" /\ pending.paper = Doc.paper /\ pending.keyed = TRUE
    BY DEF NewNote
  <2> HIDE DEF pending
  <2> QED
    BY <1>4, <2>1 DEF Notes
<1>6. \/ \E r \in NoteIds : /\ ~Exists(r) /\ Insertable(r, new)
                            /\ notes' = [notes EXCEPT ![r] = new] /\ MarkAs("PROCESSED")
      \/ UNCHANGED notes /\ MarkAs("ERROR")
  BY <1>0
<1> HIDE DEF new
<1>7. CASE UNCHANGED notes /\ MarkAs("ERROR")
  <2>1. RowsMoveOn /\ DebtsKept
    BY <1>7 DEF RowsMoveOn, DebtsKept, Exists, Conciliated
  <2>2. Sourced' /\ ImporterShape'
    BY <1>1, <1>7, <2>1, MarkSourced
  <2> QED
    BY <1>1, <1>2, <1>7, <2>1, <2>2 DEF ImportKeeps, MarkAs, NotesShape, NotesTypeOK
<1>8. ASSUME NEW r \in NoteIds, ~Exists(r), Insertable(r, new),
             notes' = [notes EXCEPT ![r] = new], MarkAs("PROCESSED")
      PROVE  ImportKeeps
  <2>1. notes' \in [NoteIds -> Notes] /\ RowsMoveOn /\ DebtsKept /\ r \in Keyed(Doc.paper)'
    <3>1. notes' \in [NoteIds -> Notes] /\ RowsMoveOn /\ DebtsKept
      BY <1>5, <1>8, RowAppears
    <3>2. Doc' = Doc
      BY <1>1, <1>8 DEF MarkAs, Doc, NotesShape, NotesTypeOK
    <3>3. notes'[r] = new
      BY <1>8 DEF NotesShape, NotesTypeOK
    <3> QED
      BY <1>5, <3>1, <3>2, <3>3 DEF Keyed, Exists
  <2>2. Sourced' /\ ImporterShape'
    BY <1>1, <1>2, <1>8, <2>1, MarkSourced
  <2> QED
    BY <1>1, <1>2, <1>8, <2>1, <2>2 DEF ImportKeeps, MarkAs, NotesShape, NotesTypeOK
<1> QED
  BY <1>6, <1>7, <1>8

LEMMA EventKeeps ==
    ASSUME NotesShape, Sourced, ImportEvent
    PROVE  ImportKeeps
<1> DEFINE hit == {r \in Keyed(Doc.paper) : notes[r].status = "PENDING"}
<1>1. /\ importer.step = "event" /\ UNCHANGED docs /\ MarkAs("PROCESSED")
      /\ notes' = [r \in NoteIds |-> IF r \in hit THEN [notes[r] EXCEPT !.status = "CANCELLED"]
                                     ELSE notes[r]]
  BY DEF ImportEvent
<1>2. Doc.kind = "cancellation"
  BY <1>1 DEF Sourced, AtTheFirst
<1>3. notes \in [NoteIds -> Notes] /\ docs \in Seq(Docs)
  BY DEF NotesShape, NotesTypeOK
<1>4. \A r \in NoteIds :
          /\ notes[r] \in Notes
          /\ r \in hit => Exists(r) /\ notes[r].status = "PENDING"
          /\ r \in Keyed(Doc.paper) /\ r \notin hit => notes[r].status # "PENDING"
  BY <1>3 DEF Keyed, Exists
<1> HIDE DEF hit
<1>5. ASSUME NEW r \in NoteIds
      PROVE  /\ r \in hit =>
                   /\ notes'[r] \in Notes /\ notes'[r].status = "CANCELLED"
                   /\ notes'[r].paper = notes[r].paper /\ notes'[r].keyed = notes[r].keyed
                   /\ notes'[r].serial = notes[r].serial
             /\ r \notin hit => notes'[r] = notes[r]
  BY <1>1, <1>4 DEF Notes
<1>6. notes' \in [NoteIds -> Notes]
  BY <1>1, <1>4, <1>5
<1>7. RowsMoveOn /\ DebtsKept
  BY <1>4, <1>5 DEF RowsMoveOn, DebtsKept, Exists, Conciliated
<1>8. Settled(Doc.paper)'
  <2>1. Doc' = Doc
    BY <1>1 DEF MarkAs, Doc, NotesShape, NotesTypeOK
  <2>2. \A r \in NoteIds : r \in Keyed(Doc.paper)' => notes'[r].status # "PENDING"
    BY <1>4, <1>5, <2>1 DEF Keyed, Exists
  <2> QED
    BY <2>2 DEF Settled, Keyed
<1>9. Sourced' /\ ImporterShape'
  BY <1>1, <1>2, <1>7, <1>8, MarkSourced
<1> QED
  BY <1>1, <1>3, <1>6, <1>7, <1>9 DEF ImportKeeps, MarkAs, NotesShape, NotesTypeOK

LEMMA ImporterKeeps ==
    ASSUME NotesShape, Sourced, Import, ~ImportRead
    PROVE  ImportKeeps
<1>1. UNCHANGED notes => DebtsKept /\ RowsMoveOn /\ notes' \in [NoteIds -> Notes]
  BY DEF DebtsKept, RowsMoveOn, Exists, Conciliated, NotesShape, NotesTypeOK
<1>2. CASE ImportMark
  BY <1>1, <1>2, MarkedSourced DEF ImportKeeps, ImportMark, Idle
<1>3. CASE ImportFails
  BY <1>1, <1>3, MarkSourced DEF ImportKeeps, ImportFails, MarkAs, NotesShape, NotesTypeOK
<1>4. CASE ImportCrash
  BY <1>1, <1>4, CrashSourced DEF ImportKeeps, ImportCrash, Idle, NotesShape, NotesTypeOK
<1> QED
  BY <1>2, <1>3, <1>4, UpdateKeeps, EnrichKeeps, CreateKeeps, EventKeeps DEF Import
-----------------------------------------------------------------------------
(* The users' steps.                                                       *)
LEMMA SeenShape == NothingSeen \in Sights
<1>1. 0 \in 0..MaxTotal
  BY BoundsAssumption
<1>2. NewNote(None, FALSE, FALSE, 0, FALSE, None) \in Notes
  BY <1>1 DEF NewNote, Notes
<1>3. NoNote \in Notes
  BY <1>2 DEF NoNote, Notes
<1> QED
  BY <1>3 DEF NothingSeen, Sights

LEMMA BegunShape ==
    ASSUME NotesShape, RowsMoveOn, NEW p \in Procs, NEW c, NEW step \in {"order", "write"},
           BeginCall(p, c, step), Asked(c), NEW note \in Notes,
           seen' = [seen EXCEPT ![p].note = note] \/ UNCHANGED seen
    PROVE  CallsShape'
<1>1. /\ stage' = [stage EXCEPT ![p] = step] /\ call' = [call EXCEPT ![p] = c]
  BY DEF BeginCall
<1>2. CallsShape
  BY DEF NotesShape
<1>3. stage' \in [Procs -> {"idle", "order", "write"}]
  BY <1>1, <1>2 DEF CallsShape
<1>4. call' = [q \in Procs |-> call'[q]]
  BY <1>1, <1>2 DEF CallsShape
<1>5. seen' \in [Procs -> Sights]
  BY <1>2 DEF CallsShape, Sights
<1>6. ASSUME NEW q \in Procs PROVE Asked(call[q])'
  <2>1. call'[q] \in {c, call[q]}
    BY <1>1, <1>2 DEF CallsShape
  <2>2. CASE call'[q] = c
    BY <2>2 DEF Asked, RowsMoveOn
  <2>3. CASE call'[q] = call[q]
    BY <1>2, <2>3 DEF CallsShape, Asked, RowsMoveOn
  <2> QED
    BY <2>1, <2>2, <2>3
<1> QED
  BY <1>3, <1>4, <1>5, <1>6 DEF CallsShape

LEMMA EndedShape ==
    ASSUME NotesShape, RowsMoveOn, NEW p \in Procs, EndCall(p)
    PROVE  /\ CallsShape' /\ stage'[p] = "idle"
           /\ \A q \in Procs \ {p} : stage'[q] = stage[q]
<1>1. /\ stage' = [stage EXCEPT ![p] = "idle"] /\ call' = [call EXCEPT ![p] = NoCall]
      /\ seen' = [seen EXCEPT ![p] = NothingSeen]
  BY DEF EndCall
<1>2. CallsShape
  BY DEF NotesShape
<1>3. stage' \in [Procs -> {"idle", "order", "write"}]
  BY <1>1, <1>2 DEF CallsShape
<1>4. call' = [q \in Procs |-> call'[q]]
  BY <1>1, <1>2 DEF CallsShape
<1>5. seen' \in [Procs -> Sights]
  BY <1>1, <1>2, SeenShape DEF CallsShape
<1>6. ASSUME NEW q \in Procs PROVE Asked(call[q])'
  <2>1. call'[q] \in {NoCall, call[q]}
    BY <1>1, <1>2 DEF CallsShape
  <2>2. CASE call'[q] = NoCall
    BY <2>2 DEF Asked, NoCall
  <2>3. CASE call'[q] = call[q]
    BY <1>2, <2>3 DEF CallsShape, Asked, RowsMoveOn
  <2> QED
    BY <2>1, <2>2, <2>3
<1>7. stage'[p] = "idle" /\ \A q \in Procs \ {p} : stage'[q] = stage[q]
  BY <1>1, <1>2 DEF CallsShape
<1> QED
  BY <1>3, <1>4, <1>5, <1>6, <1>7 DEF CallsShape

LEMMA RestingShape ==
    ASSUME NotesShape, RowsMoveOn, UNCHANGED userVars
    PROVE  CallsShape'
<1>1. CallsShape
  BY DEF NotesShape
<1>2. ASSUME NEW q \in Procs PROVE Asked(call[q])'
  BY <1>1 DEF CallsShape, Asked, RowsMoveOn, userVars
<1> QED
  BY <1>1, <1>2 DEF CallsShape, userVars

LEMMA ConsumedInt ==
    ASSUME NotesShape, NEW o
    PROVE  Consumed(o) \in Int
<1> DEFINE S == {r \in NoteIds : notes[r].order = o /\ notes[r].status \in CONSUMING_STATUSES}
           f == [r \in NoteIds |-> notes[r].total]
<1>1. IsFiniteSet(S)
  BY RowsAssumption, FS_Subset
<1>2. \A r \in S : f[r] \in Int
  BY DEF NotesShape, NotesTypeOK, Notes
<1> HIDE DEF S, f
<1>3. SumOver(f, S) \in Int
  BY <1>1, <1>2, SumInt
<1> QED
  BY <1>3 DEF Consumed, S, f

(* What a step of a user does, and of the order and the finance pages.     *)
UserKeeps ==
    /\ notes' \in [NoteIds -> Notes] /\ RowsMoveOn
    /\ orders' \in [OrderIds -> Orders] /\ invoices' \in [InvoiceIds -> Debts] /\ CallsShape'

LEMMA RowsRest ==
    ASSUME NotesShape
    PROVE  /\ notes \in [NoteIds -> Notes] /\ orders \in [OrderIds -> Orders] /\ invoices \in [InvoiceIds -> Debts]
           /\ UNCHANGED notes => RowsMoveOn /\ DebtsKept
<1>1. UNCHANGED notes => RowsMoveOn /\ DebtsKept
  BY DEF RowsMoveOn, DebtsKept, Exists, Conciliated
<1> QED
  BY <1>1 DEF NotesShape, NotesTypeOK, Orders

LEMMA CreateNoteKeeps ==
    ASSUME NotesShape, NEW p \in Procs, CreateNote(p)
    PROVE  UserKeeps /\ DebtsKept
<1>1. PICK r \in NoteIds, k \in PapersAtHand, keyed \in BOOLEAN, serial \in BOOLEAN,
           total \in workload.totals, supplier \in workload.lookups :
          LET new == NewNote(k, keyed, serial, total, FALSE, supplier)
          IN  ~Exists(r) /\ Insertable(r, new) /\ notes' = [notes EXCEPT ![r] = new]
  BY DEF CreateNote
<1> DEFINE new == NewNote(k, keyed, serial, total, FALSE, supplier)
<1>2. total \in 0..MaxTotal /\ k \in Papers /\ supplier \in Suppliers \cup {None}
  BY WorkloadAssumption, BoundsAssumption DEF NotesShape, PapersAtHand, Totals
<1>3. new \in Notes /\ new.status = "PENDING"
  BY <1>2 DEF NewNote, Notes
<1> HIDE DEF new
<1>4. ~Exists(r) /\ Insertable(r, new) /\ notes' = [notes EXCEPT ![r] = new]
  BY <1>1 DEF new
<1>5. notes' \in [NoteIds -> Notes] /\ RowsMoveOn /\ DebtsKept
  BY <1>3, <1>4, RowAppears
<1> QED
  BY <1>5, RowsRest, RestingShape DEF CreateNote, UserKeeps

LEMMA AbortKeeps ==
    ASSUME NotesShape, NEW p \in Procs, Abort(p)
    PROVE  UserKeeps
  BY RowsRest, EndedShape DEF Abort, rows, UserKeeps

LEMMA BeginReconcileKeeps ==
    ASSUME NotesShape, NEW p \in Procs, BeginReconcile(p)
    PROVE  UserKeeps
<1>1. PICK r \in NoteIds, o \in OrderIds \cup {None} :
          /\ notes[r].status \in RECONCILABLE_STATUSES
          /\ BeginCall(p, [op |-> "reconcile", note |-> r, order |-> o], "order")
          /\ seen' = [seen EXCEPT ![p].note = notes[r]]
  BY DEF BeginReconcile
<1>2. UNCHANGED rows
  BY DEF BeginReconcile
<1>3. Asked([op |-> "reconcile", note |-> r, order |-> o]) /\ notes[r] \in Notes
  BY <1>1, RowsRest DEF Asked, Exists, RECONCILABLE_STATUSES
<1>4. CallsShape'
  BY <1>1, <1>2, <1>3, RowsRest, BegunShape DEF rows
<1> QED
  BY <1>2, <1>4, RowsRest DEF rows, UserKeeps

LEMMA BeginCancelNoteKeeps ==
    ASSUME NotesShape, NEW p \in Procs, BeginCancelNote(p)
    PROVE  UserKeeps
<1>1. PICK r \in NoteIds :
          notes[r].status = "PENDING" /\ BeginCall(p, [op |-> "cancelNote", note |-> r], "write")
  BY DEF BeginCancelNote
<1>2. UNCHANGED <<rows, seen>>
  BY DEF BeginCancelNote
<1>3. Asked([op |-> "cancelNote", note |-> r]) /\ notes[r] \in Notes
  BY <1>1, RowsRest DEF Asked, Exists
<1>4. CallsShape'
  BY <1>1, <1>2, <1>3, RowsRest, BegunShape DEF rows
<1> QED
  BY <1>2, <1>4, RowsRest DEF rows, UserKeeps

LEMMA BeginCancelOrderKeeps ==
    ASSUME NotesShape, NEW p \in Procs, BeginCancelOrder(p)
    PROVE  UserKeeps
<1>1. PICK o \in OrderIds : BeginCall(p, [op |-> "cancelOrder", order |-> o], "write")
  BY DEF BeginCancelOrder
<1>2. UNCHANGED <<rows, seen>>
  BY DEF BeginCancelOrder
<1>3. Asked([op |-> "cancelOrder", order |-> o]) /\ NoNote \in Notes
  BY SeenShape DEF Asked, NothingSeen, Sights
<1>4. CallsShape'
  BY <1>1, <1>2, <1>3, RowsRest, BegunShape DEF rows
<1> QED
  BY <1>2, <1>4, RowsRest DEF rows, UserKeeps

LEMMA ReadOrderKeeps ==
    ASSUME NotesShape, NEW p \in Procs, ReadOrder(p)
    PROVE  UserKeeps
<1>1. UNCHANGED <<rows, call>> /\ stage' = [stage EXCEPT ![p] = "write"] /\ CallsShape
  BY DEF ReadOrder, NotesShape
<1>2. seen' \in [Procs -> Sights]
  <2> DEFINE o == call[p].order
             mine == seen[p].note.supplier
  <2>1. CASE o = None /\ \E supplier \in (IF mine # None THEN {mine} ELSE workload.lookups) \ {None} :
                             seen' = [seen EXCEPT ![p].supplier = supplier]
    <3>1. PICK supplier \in (IF mine # None THEN {mine} ELSE workload.lookups) \ {None} :
              seen' = [seen EXCEPT ![p].supplier = supplier]
      BY <2>1
    <3>2. mine \in Suppliers \cup {None} /\ workload.lookups \subseteq Suppliers \cup {None}
      BY <1>1, WorkloadAssumption DEF NotesShape, CallsShape, Sights, Notes
    <3>3. supplier \in Suppliers \cup {None}
      BY <3>2
    <3> HIDE DEF mine
    <3> QED
      BY <1>1, <3>1, <3>3 DEF CallsShape, Sights
  <2>2. CASE /\ o # None
             /\ seen' = [seen EXCEPT ![p].open = orders[o].total - Consumed(o),
                                     ![p].supplier = orders[o].supplier]
    <3>1. o \in OrderIds
      BY <1>1, <2>2 DEF CallsShape, Asked, ReadOrder, At
    <3>2. orders[o].total \in Int /\ orders[o].supplier \in Suppliers
      BY <3>1, RowsRest DEF Orders, Totals
    <3> HIDE DEF o, mine
    <3>3. Consumed(o) \in Int
      BY ConsumedInt
    <3>4. orders[o].total - Consumed(o) \in Int
      BY <3>2, <3>3
    <3> QED
      BY <1>1, <2>2, <3>2, <3>4 DEF CallsShape, Sights
  <2> QED
    BY <2>1, <2>2 DEF ReadOrder
<1>3. RowsMoveOn
  BY <1>1, RowsRest DEF rows
<1>4. ASSUME NEW q \in Procs PROVE Asked(call[q])'
  BY <1>1, <1>3 DEF CallsShape, Asked, RowsMoveOn
<1>5. CallsShape'
  BY <1>1, <1>2, <1>4 DEF CallsShape
<1> QED
  BY <1>1, <1>3, <1>5, RowsRest DEF rows, UserKeeps

(* The rows that CommitReconcile writes.                                   *)
Verdict(p) ==
    IF call[p].order # None /\ seen[p].note.total # seen[p].open THEN "DIVERGENT" ELSE "RECONCILED"
DebtOf(p, n) ==
    NewInvoice(call[p], seen[p].note, seen[p].supplier,
               buildInstallments(seen[p].note.total, n))
RowOf(p, v) ==
    [notes[call[p].note] EXCEPT !.status = Verdict(p), !.supplier = seen[p].supplier,
                                !.order = call[p].order, !.invoice = v]

LEMMA PartsShape ==
    ASSUME NEW total \in Nat, NEW n \in Nat \ {0}
    PROVE  buildInstallments(total, n) \in Seq(Int)
<1> DEFINE q == total \div n
<1>1. q \in Int /\ (n - 1) * q \in Int
  OBVIOUS
<1>2. buildInstallments(total, n) = [i \in 1..n |-> IF i < n THEN q ELSE total - (n - 1) * q]
  BY DEF buildInstallments
<1> HIDE DEF q
<1>3. total - (n - 1) * q \in Int
  BY <1>1
<1> QED
  BY <1>1, <1>2, <1>3

LEMMA Reconciling ==
    ASSUME NotesShape, NEW p \in Procs, CommitReconcile(p)
    PROVE  /\ call[p].note \in NoteIds /\ Exists(call[p].note)
           /\ call[p].order \in OrderIds \cup {None} /\ seen[p].note \in Notes
           /\ \E v \in FreshInvoices(seen[p].note, seen[p].supplier), n \in Nat \ {0} :
                 /\ invoices' = [invoices EXCEPT ![v] = DebtOf(p, n)]
                 /\ notes' = [notes EXCEPT ![call[p].note] = RowOf(p, v)]
<1>1. call[p].note \in NoteIds /\ Exists(call[p].note) /\ call[p].order \in OrderIds \cup {None}
  BY DEF CommitReconcile, At, NotesShape, CallsShape, Asked
<1>2. seen[p].note \in Notes
  BY DEF NotesShape, CallsShape, Sights
<1>3. PICK v \in FreshInvoices(seen[p].note, seen[p].supplier), n \in workload.parts :
          /\ invoices' = [invoices EXCEPT ![v] = DebtOf(p, n)]
          /\ notes' = [notes EXCEPT ![call[p].note] =
                 [@ EXCEPT !.status = Verdict(p), !.supplier = seen[p].supplier,
                           !.order = call[p].order, !.invoice = v]]
  BY DEF CommitReconcile, DebtOf, Verdict
<1>4. n \in Nat \ {0}
  BY WorkloadAssumption DEF NotesShape
<1>5. notes' = [notes EXCEPT ![call[p].note] = RowOf(p, v)]
  BY <1>1, <1>3, RowsRest DEF RowOf
<1> QED
  BY <1>1, <1>2, <1>3, <1>4, <1>5

LEMMA RowOfShape ==
    ASSUME NotesShape, NEW p \in Procs, NEW v \in InvoiceIds, call[p].note \in NoteIds,
           call[p].order \in OrderIds \cup {None}
    PROVE  /\ RowOf(p, v) \in Notes /\ RowOf(p, v).status = Verdict(p)
           /\ RowOf(p, v).order = call[p].order /\ RowOf(p, v).invoice = v
           /\ RowOf(p, v).supplier = seen[p].supplier
           /\ RowOf(p, v).total = notes[call[p].note].total
           /\ RowOf(p, v).paper = notes[call[p].note].paper
           /\ RowOf(p, v).keyed = notes[call[p].note].keyed
           /\ RowOf(p, v).serial = notes[call[p].note].serial
<1>1. /\ notes[call[p].note] \in Notes /\ Verdict(p) \in {"DIVERGENT", "RECONCILED"}
      /\ seen[p].supplier \in Suppliers \cup {None}
  BY RowsRest DEF Verdict, NotesShape, CallsShape, Sights
<1>2. \A m \in Notes, s \in {"DIVERGENT", "RECONCILED"}, x \in Suppliers \cup {None},
         o \in OrderIds \cup {None}, w \in InvoiceIds :
          [m EXCEPT !.status = s, !.supplier = x, !.order = o, !.invoice = w] \in Notes
  BY DEF Notes
<1>3. \A m \in Notes, s \in {"DIVERGENT", "RECONCILED"}, x \in Suppliers \cup {None},
         o \in OrderIds \cup {None}, w \in InvoiceIds :
          LET row == [m EXCEPT !.status = s, !.supplier = x, !.order = o, !.invoice = w]
          IN  /\ row.status = s /\ row.order = o /\ row.invoice = w /\ row.total = m.total
              /\ row.paper = m.paper /\ row.keyed = m.keyed /\ row.serial = m.serial
              /\ row.supplier = x
  BY DEF Notes
<1>4. RowOf(p, v) \in Notes
  BY <1>1, <1>2 DEF RowOf
<1> QED
  BY <1>1, <1>3, <1>4 DEF RowOf

LEMMA DebtOfShape ==
    ASSUME NotesShape, NEW p \in Procs, NEW n \in Nat \ {0}, call[p].note \in NoteIds,
           call[p].order \in OrderIds \cup {None}
    PROVE  /\ DebtOf(p, n) \in Debts
           /\ SumOf(DebtOf(p, n).parcels) = DebtOf(p, n).total
<1>1. seen[p].note \in Notes /\ seen[p].supplier \in Suppliers \cup {None}
  BY DEF NotesShape, CallsShape, Sights
<1>2. /\ seen[p].note.paper \in Papers \cup {None} /\ seen[p].note.serial \in BOOLEAN
      /\ seen[p].note.total \in 0..MaxTotal /\ seen[p].note.total \in Nat
  BY <1>1 DEF Notes
<1>3. buildInstallments(seen[p].note.total, n) \in Seq(Int)
  BY <1>2, PartsShape
<1>4. SumOf(buildInstallments(seen[p].note.total, n)) = seen[p].note.total
  BY <1>2, PartsAddUp
<1> QED
  BY <1>1, <1>2, <1>3, <1>4 DEF DebtOf, NewInvoice, Debts

LEMMA CommitReconcileKeeps ==
    ASSUME NotesShape, NEW p \in Procs, CommitReconcile(p)
    PROVE  UserKeeps
<1>1. /\ call[p].note \in NoteIds /\ Exists(call[p].note)
      /\ call[p].order \in OrderIds \cup {None}
  BY Reconciling
<1>2. PICK v \in FreshInvoices(seen[p].note, seen[p].supplier), n \in Nat \ {0} :
          /\ invoices' = [invoices EXCEPT ![v] = DebtOf(p, n)]
          /\ notes' = [notes EXCEPT ![call[p].note] = RowOf(p, v)]
  BY Reconciling
<1>3. v \in InvoiceIds
  BY DEF FreshInvoices
<1>4. notes' \in [NoteIds -> Notes] /\ RowsMoveOn
  <2>1. Verdict(p) \in {"DIVERGENT", "RECONCILED"}
    BY DEF Verdict
  <2>2. PICK r \in NoteIds : r = call[p].note
    BY <1>1
  <2>3. /\ RowOf(p, v) \in Notes /\ RowOf(p, v).status \in {"DIVERGENT", "RECONCILED"}
        /\ RowOf(p, v).paper = notes[r].paper /\ RowOf(p, v).keyed = notes[r].keyed
        /\ RowOf(p, v).serial = notes[r].serial
    BY <1>1, <1>3, <2>1, <2>2, RowOfShape
  <2>4. notes' = [notes EXCEPT ![r] = RowOf(p, v)] /\ Exists(r)
    BY <1>1, <1>2, <2>2
  <2> QED
    BY <2>3, <2>4, RowWritten
<1>5. invoices' \in [InvoiceIds -> Debts]
  BY <1>1, <1>2, <1>3, DebtOfShape, RowsRest
<1>6. CallsShape' /\ UNCHANGED orders
  BY <1>4, EndedShape DEF CommitReconcile
<1> QED
  BY <1>4, <1>5, <1>6, RowsRest DEF UserKeeps

LEMMA CommitCancelNoteKeeps ==
    ASSUME NotesShape, NEW p \in Procs, CommitCancelNote(p)
    PROVE  UserKeeps /\ (~Conciliated(call[p].note) => DebtsKept)
<1> DEFINE r == call[p].note
           new == [notes[r] EXCEPT !.status = "CANCELLED"]
<1>1. r \in NoteIds /\ Exists(r)
  BY DEF CommitCancelNote, At, NotesShape, CallsShape, Asked
<1>2. notes[r] \in Notes /\ notes \in [NoteIds -> Notes]
  BY <1>1, RowsRest
<1>3. notes' = [notes EXCEPT ![r] = new]
  BY <1>1, <1>2 DEF CommitCancelNote
<1>4. /\ new \in Notes /\ new.status = "CANCELLED" /\ new.paper = notes[r].paper
      /\ new.keyed = notes[r].keyed /\ new.serial = notes[r].serial
  BY <1>2 DEF Notes
<1> HIDE DEF r, new
<1>5. /\ notes' \in [NoteIds -> Notes] /\ RowsMoveOn
      /\ ~Conciliated(r) => DebtsKept
  BY <1>1, <1>3, <1>4, RowWritten
<1>6. CallsShape'
  BY <1>5, EndedShape DEF CommitCancelNote
<1> QED
  BY <1>5, <1>6, RowsRest DEF CommitCancelNote, UserKeeps, r

LEMMA CommitCancelOrderKeeps ==
    ASSUME NotesShape, NEW p \in Procs, CommitCancelOrder(p)
    PROVE  /\ UserKeeps
           /\ call[p].order \in OrderIds
           /\ \A r \in NoteIds :
                 IF notes[r].order = call[p].order THEN notes'[r].status = "CANCELLED"
                 ELSE notes'[r] = notes[r]
           /\ \A v \in InvoiceIds :
                 /\ invoices[v].order = call[p].order /\ invoices[v].account # "PAID" =>
                       invoices'[v].account = "CANCELLED"
                 /\ invoices[v].order # call[p].order => invoices'[v] = invoices[v]
                 /\ invoices'[v].paper = invoices[v].paper /\ invoices'[v].serial = invoices[v].serial
                 /\ invoices'[v].note = invoices[v].note /\ invoices'[v].supplier = invoices[v].supplier
                 /\ invoices'[v].removed = invoices[v].removed
                 /\ invoices'[v].adjusted = invoices[v].adjusted /\ (Issued(v) => Issued(v)')
           /\ \A o \in OrderIds \ {call[p].order} : orders'[o] = orders[o]
<1> DEFINE o == call[p].order
<1>1. o \in OrderIds
  BY DEF CommitCancelOrder, At, NotesShape, CallsShape, Asked
<1>2. /\ orders' = [orders EXCEPT ![o].live = FALSE, ![o].patched = FALSE]
      /\ invoices' = [v \in InvoiceIds |->
             IF invoices[v].order # o THEN invoices[v]
             ELSE [invoices[v] EXCEPT !.status = IF invoices[v].removed THEN @ ELSE "CANCELLED",
                       !.account = IF @ = "OPEN" THEN "CANCELLED" ELSE @]]
      /\ notes' = [r \in NoteIds |->
             IF notes[r].order # o THEN notes[r] ELSE [notes[r] EXCEPT !.status = "CANCELLED"]]
  BY DEF CommitCancelOrder
<1> HIDE DEF o
<1>3. /\ orders' \in [OrderIds -> Orders] /\ \A x \in OrderIds \ {o} : orders'[x] = orders[x]
  BY <1>1, <1>2, RowsRest DEF Orders
<1>4. ASSUME NEW r \in NoteIds
      PROVE  /\ notes'[r] \in Notes
             /\ notes[r].order = o =>
                   /\ notes'[r].status = "CANCELLED" /\ notes'[r].paper = notes[r].paper
                   /\ notes'[r].keyed = notes[r].keyed /\ notes'[r].serial = notes[r].serial
             /\ notes[r].order # o => notes'[r] = notes[r]
  <2>1. notes[r] \in Notes
    BY RowsRest
  <2> QED
    BY <1>2, <2>1 DEF Notes
<1>5. notes' \in [NoteIds -> Notes]
  BY <1>2, <1>4
<1>6. RowsMoveOn
  <2>1. \A r \in NoteIds : notes[r].order = o => Exists(r)
    BY <1>1, NoneAssumption DEF NotesShape, Blank, NoNote, NewNote
  <2> QED
    BY <1>4, <2>1 DEF RowsMoveOn, Exists
<1>7. ASSUME NEW v \in InvoiceIds
      PROVE  /\ invoices'[v] \in Debts
             /\ invoices[v].order = o /\ invoices[v].account # "PAID" =>
                   invoices'[v].account = "CANCELLED"
             /\ invoices[v].order # o => invoices'[v] = invoices[v]
             /\ invoices'[v].paper = invoices[v].paper /\ invoices'[v].serial = invoices[v].serial
             /\ invoices'[v].note = invoices[v].note /\ invoices'[v].supplier = invoices[v].supplier
             /\ invoices'[v].removed = invoices[v].removed
             /\ invoices'[v].adjusted = invoices[v].adjusted /\ (Issued(v) => Issued(v)')
  <2>1. invoices[v] \in Debts
    BY RowsRest
  <2>2. CASE invoices[v].order # o
    BY <1>2, <2>1, <2>2 DEF Issued
  <2>3. CASE invoices[v].order = o
    <3> DEFINE st == IF invoices[v].removed THEN invoices[v].status ELSE "CANCELLED"
               ac == IF invoices[v].account = "OPEN" THEN "CANCELLED" ELSE invoices[v].account
    <3>1. invoices'[v] = [invoices[v] EXCEPT !.status = st, !.account = ac]
      BY <1>2, <2>3
    <3>2. /\ st \in {"NONE", "VALIDATED", "CANCELLED"} /\ ac \in {"OPEN", "PAID", "CANCELLED"}
          /\ invoices[v].account # "PAID" => ac = "CANCELLED"
          /\ invoices[v].status # "NONE" => st # "NONE"
      BY <2>1 DEF Debts
    <3> HIDE DEF st, ac
    <3> QED
      BY <2>1, <2>3, <3>1, <3>2 DEF Debts, Issued
  <2> QED
    BY <2>2, <2>3
<1>8. invoices' \in [InvoiceIds -> Debts]
  BY <1>2, <1>7
<1>9. CallsShape'
  BY <1>6, EndedShape DEF CommitCancelOrder
<1> QED
  BY <1>1, <1>3, <1>4, <1>5, <1>6, <1>7, <1>8, <1>9 DEF UserKeeps, o

LEMMA EditOrderKeeps ==
    ASSUME NotesShape, NEW o \in OrderIds, EditOrder(o)
    PROVE  /\ UserKeeps /\ DebtsKept
           /\ \A x \in OrderIds : Standing(x) => Standing(x)'
<1>1. PICK total \in workload.orders \cup {orders[o].total},
           supplier \in workload.suppliers \cup {orders[o].supplier}, live \in BOOLEAN :
          orders' = [orders EXCEPT ![o] =
              [live |-> live, total |-> total, supplier |-> supplier,
               patched |-> orders[o].patched \/ live # orders[o].live]]
  BY DEF EditOrder
<1>2. orders[o] \in Orders /\ orders \in [OrderIds -> Orders]
  BY RowsRest
<1>3. total \in Totals /\ supplier \in Suppliers
  BY <1>2, WorkloadAssumption DEF NotesShape, Orders
<1> DEFINE new == [live |-> live, total |-> total, supplier |-> supplier,
                   patched |-> orders[o].patched \/ live # orders[o].live]
<1>4. new \in Orders
  BY <1>2, <1>3 DEF Orders
<1>5. orders[o].live \/ orders[o].patched => new.live \/ new.patched
  OBVIOUS
<1> HIDE DEF new
<1>6. orders' = [orders EXCEPT ![o] = new]
  BY <1>1 DEF new
<1>7. orders' \in [OrderIds -> Orders] /\ \A x \in OrderIds : Standing(x) => Standing(x)'
  BY <1>2, <1>4, <1>5, <1>6 DEF Standing
<1>8. UNCHANGED <<notes, invoices>> /\ CallsShape'
  BY RowsRest, RestingShape DEF EditOrder
<1> QED
  BY <1>7, <1>8, RowsRest DEF UserKeeps

(* What a page of the finance team, or the trash, does to an invoice.      *)
DeskStep(v) == RemoveInvoice(v) \/ RestoreInvoice(v) \/ PayInvoice(v) \/ AdjustDebt(v)

Tended(v) ==
    /\ invoices'[v].note = invoices[v].note /\ invoices'[v].paper = invoices[v].paper
    /\ invoices'[v].serial = invoices[v].serial /\ invoices'[v].supplier = invoices[v].supplier
    /\ invoices'[v].order = invoices[v].order /\ invoices'[v].total = invoices[v].total
    /\ invoices'[v].parcels = invoices[v].parcels
    /\ Issued(v)' = Issued(v) /\ (Due(v)' => Due(v))
    /\ Owed(v) \/ invoices[v].adjusted => Owed(v)' \/ invoices'[v].adjusted

(* What such a step makes of the row.                                      *)
Revised(d, e) ==
    /\ e \in Debts
    /\ e.note = d.note /\ e.paper = d.paper /\ e.serial = d.serial /\ e.supplier = d.supplier
    /\ e.order = d.order /\ e.total = d.total /\ e.parcels = d.parcels /\ e.status = d.status
    /\ \/ e.adjusted
       \/ e.adjusted = d.adjusted /\ (e.account = "CANCELLED" <=> d.account = "CANCELLED")

LEMMA DeskStepKeeps ==
    ASSUME NotesShape, NEW v \in InvoiceIds, DeskStep(v)
    PROVE  /\ UserKeeps /\ DebtsKept /\ Room /\ UNCHANGED <<orders, userVars>> /\ UserOnly
           /\ \A w \in InvoiceIds : Tended(w)
           /\ \A w \in InvoiceIds \ {v} : invoices'[w] = invoices[w]
           /\ invoices[v].removed /\ ~invoices'[v].removed /\ invoices[v].serial =>
                 ~Taken(invoices[v].paper, invoices[v].supplier)
<1>1. invoices \in [InvoiceIds -> Debts] /\ invoices[v] \in Debts
  BY RowsRest
<1>2. PICK new : /\ invoices' = [invoices EXCEPT ![v] = new]
                 /\ Revised(invoices[v], new)
                 /\ invoices[v].removed /\ ~new.removed /\ invoices[v].serial =>
                       ~Taken(invoices[v].paper, invoices[v].supplier)
  <2>1. CASE RemoveInvoice(v)
    <3>1. invoices' = [invoices EXCEPT ![v] = [invoices[v] EXCEPT !.removed = TRUE]]
      BY <2>1 DEF RemoveInvoice, OnInvoice
    <3>2. \A d \in Debts : LET e == [d EXCEPT !.removed = TRUE]
                           IN  Revised(d, e) /\ e.removed
      BY DEF Debts, Revised
    <3> QED
      BY <1>1, <3>1, <3>2
  <2>2. CASE RestoreInvoice(v)
    <3>1. /\ invoices' = [invoices EXCEPT ![v] = [invoices[v] EXCEPT !.removed = FALSE]]
          /\ invoices[v].serial => ~Taken(invoices[v].paper, invoices[v].supplier)
      BY <2>2 DEF RestoreInvoice, OnInvoice
    <3>2. \A d \in Debts : Revised(d, [d EXCEPT !.removed = FALSE])
      BY DEF Debts, Revised
    <3> QED
      BY <1>1, <3>1, <3>2
  <2>3. CASE PayInvoice(v)
    <3>1. PICK account \in {"OPEN", "PAID"} :
              invoices' = [invoices EXCEPT ![v] = [invoices[v] EXCEPT !.account = account]]
      BY <2>3 DEF PayInvoice, OnInvoice
    <3>2. invoices[v].account # "CANCELLED"
      BY <2>3 DEF PayInvoice
    <3>3. \A d \in Debts, a \in {"OPEN", "PAID"} :
              LET e == [d EXCEPT !.account = a]
              IN  d.account # "CANCELLED" => Revised(d, e) /\ e.removed = d.removed
      BY DEF Debts, Revised
    <3> QED
      BY <1>1, <3>1, <3>2, <3>3
  <2>4. CASE AdjustDebt(v)
    <3>1. PICK account \in {"OPEN", "PAID", "CANCELLED"} :
              invoices' = [invoices EXCEPT ![v] =
                               [invoices[v] EXCEPT !.account = account, !.adjusted = TRUE]]
      BY <2>4 DEF AdjustDebt, OnInvoice
    <3>2. PICK d \in Debts : d = invoices[v]
      BY <1>1
    <3> DEFINE row == [d EXCEPT !.account = account, !.adjusted = TRUE]
    <3>3. row \in Debts
      BY DEF Debts
    <3>4. /\ row.note = d.note /\ row.paper = d.paper /\ row.serial = d.serial
          /\ row.supplier = d.supplier /\ row.order = d.order /\ row.total = d.total
          /\ row.parcels = d.parcels /\ row.status = d.status
          /\ row.adjusted = TRUE /\ row.removed = d.removed
      BY DEF Debts
    <3>5. invoices' = [invoices EXCEPT ![v] = row]
      BY <3>1, <3>2
    <3> HIDE DEF row
    <3>6. Revised(d, row)
      BY <3>3, <3>4 DEF Revised
    <3> QED
      BY <3>2, <3>4, <3>5, <3>6
  <2> QED
    BY <2>1, <2>2, <2>3, <2>4 DEF DeskStep
<1>3. /\ invoices' \in [InvoiceIds -> Debts] /\ invoices'[v] = new
      /\ \A w \in InvoiceIds \ {v} : invoices'[w] = invoices[w]
  BY <1>1, <1>2 DEF Revised
<1>4. Tended(v)
  BY <1>2, <1>3 DEF Tended, Due, Owed, Issued, Revised
<1>5. \A w \in InvoiceIds \ {v} : Tended(w)
  BY <1>3 DEF Tended, Due, Owed, Issued
<1>6. Room /\ UNCHANGED <<notes, orders, userVars>> /\ UserOnly
  BY DEF DeskStep, RemoveInvoice, RestoreInvoice, PayInvoice, AdjustDebt, OnInvoice
<1>7. UserKeeps /\ DebtsKept
  BY <1>3, <1>6, RowsRest, RestingShape DEF UserKeeps
<1> QED
  BY <1>2, <1>3, <1>4, <1>5, <1>6, <1>7

(* A step of anyone but the importer and the synchronisation.              *)
UserStep ==
    \/ \E p \in Procs : User(p)
    \/ \E o \in OrderIds : EditOrder(o)
    \/ \E v \in InvoiceIds : DeskStep(v)

LEMMA UserStepKeeps ==
    ASSUME NotesShape, UserStep
    PROVE  UserKeeps /\ UNCHANGED <<amount, docs, importer, workload>>
<1>1. ASSUME NEW p \in Procs, User(p)
      PROVE  UserKeeps /\ UNCHANGED <<amount, docs, importer, workload>>
  <2>1. UserKeeps
    BY <1>1, CreateNoteKeeps, AbortKeeps, BeginReconcileKeeps, ReadOrderKeeps, CommitReconcileKeeps,
       BeginCancelNoteKeeps, CommitCancelNoteKeeps, BeginCancelOrderKeeps, CommitCancelOrderKeeps DEF User
  <2>2. UserOnly
    BY <1>1 DEF User, CreateNote, Abort, BeginReconcile, ReadOrder, CommitReconcile,
       BeginCancelNote, CommitCancelNote, BeginCancelOrder, CommitCancelOrder
  <2> QED
    BY <2>1, <2>2 DEF UserOnly
<1>2. ASSUME NEW o \in OrderIds, EditOrder(o)
      PROVE  UserKeeps /\ UNCHANGED <<amount, docs, importer, workload>>
  BY <1>2, EditOrderKeeps DEF EditOrder, UserOnly
<1>3. ASSUME NEW v \in InvoiceIds, DeskStep(v)
      PROVE  UserKeeps /\ UNCHANGED <<amount, docs, importer, workload>>
  BY <1>3, DeskStepKeeps DEF UserOnly
<1> QED
  BY <1>1, <1>2, <1>3 DEF UserStep

(* The shape, and what the documents have made of the rows, always hold.   *)
LEMMA ShapeKept ==
    ASSUME NotesShape, Sourced, NotesNext
    PROVE  NotesShape' /\ Sourced' /\ RowsMoveOn
<1>1. CASE Arrive
  <2>1. Sourced' /\ docs' \in Seq(Docs) /\ Len(docs) <= Len(docs')
    BY <1>1, ArriveSourced
  <2>2. UNCHANGED <<amount, rows, importer, userVars, workload>>
    BY <1>1 DEF Arrive
  <2>3. importer' \in [step: {"idle", "create", "update", "enrich", "event", "mark"},
                       doc: 0..Len(docs'), found: NoteIds \cup {None},
                       outcome: {"PROCESSED", "ERROR"}]
    <3>1. Len(docs) \in Nat /\ Len(docs') \in Nat
      BY <2>1 DEF NotesShape, NotesTypeOK
    <3>2. 0..Len(docs) \subseteq 0..Len(docs')
      BY <2>1, <3>1
    <3> QED
      BY <2>2, <3>2 DEF NotesShape, NotesTypeOK
  <2>4. CallsShape'
    BY <2>2, RowsRest, RestingShape DEF rows
  <2>5. NotesTypeOK'
    BY <2>1, <2>2, <2>3, <2>4 DEF NotesShape, NotesTypeOK, rows, CallsShape
  <2>6. RowsMoveOn
    BY <2>2, RowsRest DEF rows
  <2>7. SerialRows'
    BY <2>6, SerialRowsStay
  <2> QED
    BY <2>1, <2>2, <2>4, <2>5, <2>6, <2>7 DEF NotesShape, Blank, Exists, rows
<1>2. CASE Import
  <2>1. ImporterOnly
    BY <1>2 DEF Import, ImportRead, ImportUpdate, ImportEnrich, ImportCreate, ImportEvent,
       ImportMark, ImportFails, ImportCrash
  <2>2. Sourced' /\ ImporterShape' /\ notes' \in [NoteIds -> Notes] /\ docs' \in Seq(Docs) /\ RowsMoveOn
    <3>1. CASE ImportRead
      <4>1. UNCHANGED <<docs, notes>>
        BY <3>1 DEF ImportRead
      <4> QED
        BY <3>1, <4>1, ReadSourced, RowsRest DEF NotesShape, NotesTypeOK
    <3>2. CASE ~ImportRead
      BY <1>2, <3>2, ImporterKeeps DEF ImportKeeps
    <3> QED
      BY <3>1, <3>2
  <2>3. CallsShape'
    BY <2>1, <2>2, RestingShape DEF ImporterOnly
  <2>4. NotesTypeOK'
    BY <2>1, <2>2, <2>3 DEF NotesShape, NotesTypeOK, ImporterOnly, ImporterShape, CallsShape, userVars
  <2>5. Blank'
    BY <2>2 DEF NotesShape, Blank, RowsMoveOn, Exists
  <2>6. SerialRows'
    BY <2>2, SerialRowsStay
  <2> QED
    BY <2>1, <2>2, <2>3, <2>4, <2>5, <2>6 DEF NotesShape, ImporterOnly
<1>3. CASE UserStep
  <2>1. UserKeeps /\ UNCHANGED <<amount, docs, importer, workload>>
    BY <1>3, UserStepKeeps
  <2>2. Sourced'
    BY <2>1, UsersKeepSourced DEF UserKeeps
  <2>3. Blank'
    BY <2>1 DEF UserKeeps, NotesShape, Blank, RowsMoveOn, Exists
  <2>4. \A v \in InvoiceIds :
          /\ invoices'[v].status \in {"NONE", "VALIDATED", "CANCELLED"}
          /\ invoices'[v].account \in {"OPEN", "PAID", "CANCELLED"}
          /\ invoices'[v].removed \in BOOLEAN /\ invoices'[v].adjusted \in BOOLEAN
    BY <2>1 DEF UserKeeps, Debts
  <2>5. NotesTypeOK'
    BY <2>1, <2>4 DEF UserKeeps, NotesShape, NotesTypeOK, CallsShape, Orders
  <2>6. SerialRows'
    BY <2>1, SerialRowsStay DEF UserKeeps
  <2> QED
    BY <2>1, <2>2, <2>3, <2>5, <2>6 DEF UserKeeps, NotesShape
<1> QED
  BY <1>1, <1>2, <1>3 DEF NotesNext, UserStep, DeskStep
-----------------------------------------------------------------------------
(* Only a reconciliation writes what an invoice is; a removed one comes    *)
(* back alone, and where no other has taken its number.                    *)
LEMMA DebtsStand ==
    ASSUME NotesShape, NotesNext, \A p \in Procs : ~CommitReconcile(p)
    PROVE  \A v \in InvoiceIds :
              /\ invoices'[v].note = invoices[v].note /\ invoices'[v].paper = invoices[v].paper
              /\ invoices'[v].serial = invoices[v].serial
              /\ invoices'[v].supplier = invoices[v].supplier
              /\ invoices[v].removed /\ ~invoices'[v].removed =>
                    /\ invoices[v].serial => ~Taken(invoices[v].paper, invoices[v].supplier)
                    /\ \A w \in InvoiceIds \ {v} : invoices'[w] = invoices[w]
<1> DEFINE Same ==
        \A v \in InvoiceIds :
              /\ invoices'[v].note = invoices[v].note /\ invoices'[v].paper = invoices[v].paper
              /\ invoices'[v].serial = invoices[v].serial
              /\ invoices'[v].supplier = invoices[v].supplier
              /\ invoices[v].removed /\ ~invoices'[v].removed =>
                    /\ invoices[v].serial => ~Taken(invoices[v].paper, invoices[v].supplier)
                    /\ \A w \in InvoiceIds \ {v} : invoices'[w] = invoices[w]
<1>1. UNCHANGED invoices => Same
  OBVIOUS
<1>2. ASSUME NEW p \in Procs, CommitCancelOrder(p) PROVE Same
  BY <1>2, CommitCancelOrderKeeps
<1>3. ASSUME NEW v \in InvoiceIds, DeskStep(v) PROVE Same
  <2>1. /\ \A w \in InvoiceIds : Tended(w)
        /\ \A w \in InvoiceIds \ {v} : invoices'[w] = invoices[w]
        /\ invoices[v].removed /\ ~invoices'[v].removed /\ invoices[v].serial =>
              ~Taken(invoices[v].paper, invoices[v].supplier)
    BY <1>3, DeskStepKeeps
  <2>2. ASSUME NEW w \in InvoiceIds, invoices[w].removed, ~invoices'[w].removed
        PROVE  w = v
    BY <2>1, <2>2
  <2> QED
    BY <2>1, <2>2 DEF Tended
<1> HIDE DEF Same
<1>4. Arrive \/ Import \/ (\E o \in OrderIds : EditOrder(o)) => UNCHANGED invoices
  BY DEF Arrive, rows, Import, ImportRead, ImportUpdate, ImportEnrich, ImportCreate, ImportEvent,
     ImportMark, ImportFails, ImportCrash, ImporterOnly, EditOrder
<1>5. ASSUME NEW p \in Procs, User(p), ~CommitCancelOrder(p)
      PROVE  UNCHANGED invoices
  BY <1>5 DEF User, CreateNote, Abort, BeginReconcile, ReadOrder, BeginCancelNote,
     CommitCancelNote, BeginCancelOrder, rows
<1>6. Same
  BY <1>1, <1>2, <1>3, <1>4, <1>5 DEF NotesNext, DeskStep
<1> QED
  BY <1>6 DEF Same

(* The unique index.                                                       *)
LEMMA SerialStaysOnce ==
    ASSUME NotesShape, SerialOnce, NotesNext
    PROVE  SerialOnce'
<1>1. ASSUME NEW p \in Procs, CommitReconcile(p) PROVE SerialOnce'
  <2>1. PICK v \in FreshInvoices(seen[p].note, seen[p].supplier), n \in Nat \ {0} :
            invoices' = [invoices EXCEPT ![v] = DebtOf(p, n)]
    BY <1>1, Reconciling
  <2>2. /\ v \in InvoiceIds
        /\ seen[p].note.serial => ~Taken(seen[p].note.paper, seen[p].supplier)
    BY DEF FreshInvoices
  <2>3. /\ DebtOf(p, n).paper = seen[p].note.paper /\ DebtOf(p, n).serial = seen[p].note.serial
        /\ DebtOf(p, n).supplier = seen[p].supplier
    BY DEF DebtOf, NewInvoice
  <2>4. invoices'[v] = DebtOf(p, n) /\ \A w \in InvoiceIds \ {v} : invoices'[w] = invoices[w]
    BY <2>1, <2>2, RowsRest
  <2> QED
    BY <2>2, <2>3, <2>4 DEF SerialOnce, Taken
<1>2. ASSUME \A p \in Procs : ~CommitReconcile(p) PROVE SerialOnce'
  <2>1. SUFFICES ASSUME NEW v \in InvoiceIds, NEW w \in InvoiceIds, v # w,
                        invoices'[v].serial, invoices'[w].serial,
                        invoices'[v].paper = invoices'[w].paper,
                        invoices'[v].supplier = invoices'[w].supplier,
                        ~invoices'[v].removed, ~invoices'[w].removed
                 PROVE  FALSE
    BY DEF SerialOnce
  <2>2. \A x \in {v, w} :
            /\ invoices'[x].paper = invoices[x].paper
            /\ invoices'[x].serial = invoices[x].serial
            /\ invoices'[x].supplier = invoices[x].supplier
            /\ invoices[x].removed /\ ~invoices'[x].removed =>
                  /\ invoices[x].serial => ~Taken(invoices[x].paper, invoices[x].supplier)
                  /\ \A y \in InvoiceIds \ {x} : invoices'[y] = invoices[y]
    BY <1>2, DebtsStand
  <2>3. ~invoices[v].removed
    BY <2>1, <2>2 DEF Taken
  <2>4. ~invoices[w].removed
    BY <2>1, <2>2 DEF Taken
  <2> QED
    BY <2>1, <2>2, <2>3, <2>4 DEF SerialOnce
<1> QED
  BY <1>1, <1>2

(* One call at a time, the row that is reconciled is the only one of its   *)
(* paper with a series, and no invoice was made of it.                     *)
LEMMA SingleStays ==
    ASSUME NotesShape, Sourced, OneAtATime, InTurn, NotesNext
    PROVE  Single'
<1>1. RowsMoveOn
  BY ShapeKept
<1>2. Single
  BY DEF InTurn
<1>3. ASSUME NEW v \in InvoiceIds, invoices[v].serial, invoices'[v].note = invoices[v].note,
             invoices'[v].paper = invoices[v].paper
      PROVE  Spent(v)'
  <2>1. PICK r : r = invoices[v].note
    OBVIOUS
  <2>2. /\ r \in NoteIds /\ Exists(r) /\ notes[r].status # "PENDING"
        /\ notes[r].serial /\ notes[r].paper = invoices[v].paper
    BY <1>2, <1>3, <2>1 DEF Single, Spent
  <2>3. /\ Exists(r)' /\ notes'[r].status # "PENDING"
        /\ notes'[r].serial /\ notes'[r].paper = notes[r].paper
    BY <1>1, <2>2 DEF RowsMoveOn
  <2> QED
    BY <1>3, <2>1, <2>2, <2>3 DEF Spent, Exists
<1>4. ASSUME \A p \in Procs : ~CommitReconcile(p) PROVE Single'
  <2>1. \A v \in InvoiceIds :
            /\ invoices'[v].note = invoices[v].note /\ invoices'[v].paper = invoices[v].paper
            /\ invoices'[v].serial = invoices[v].serial
    BY <1>4, DebtsStand
  <2> QED
    BY <1>2, <1>3, <2>1 DEF Single
<1>5. ASSUME NEW p \in Procs, CommitReconcile(p) PROVE Single'
  <2>1. PICK r : r = call[p].note
    OBVIOUS
  <2>2. r \in NoteIds /\ seen[p].note = notes[r] /\ notes[r].status = "PENDING"
    BY <1>5, <2>1, Reconciling DEF CommitReconcile, At, InTurn, StillSo
  <2>3. PICK v \in FreshInvoices(seen[p].note, seen[p].supplier), n \in Nat \ {0} :
            /\ invoices' = [invoices EXCEPT ![v] = DebtOf(p, n)]
            /\ notes' = [notes EXCEPT ![r] = RowOf(p, v)]
    BY <1>5, <2>1, Reconciling
  <2>4. v \in InvoiceIds
    BY DEF FreshInvoices
  <2>5. /\ invoices'[v].note = r /\ invoices'[v].paper = notes[r].paper
        /\ invoices'[v].serial = notes[r].serial
        /\ \A w \in InvoiceIds \ {v} : invoices'[w] = invoices[w]
    BY <2>1, <2>2, <2>3, <2>4, RowsRest DEF DebtOf, NewInvoice
  <2>6. /\ notes'[r].status # "PENDING" /\ notes'[r].status # "NONE"
        /\ notes'[r].paper = notes[r].paper /\ notes'[r].serial = notes[r].serial
    <3>1. call[p].order \in OrderIds \cup {None}
      BY <1>5, Reconciling
    <3>2. /\ RowOf(p, v).status = Verdict(p) /\ RowOf(p, v).paper = notes[r].paper
          /\ RowOf(p, v).serial = notes[r].serial
      BY <2>1, <2>2, <2>4, <3>1, RowOfShape
    <3>3. notes'[r] = RowOf(p, v)
      BY <2>2, <2>3, RowsRest
    <3> QED
      BY <3>2, <3>3 DEF Verdict
  <2>7. ASSUME NEW w \in InvoiceIds, invoices[w].serial, invoices[w].paper = notes[r].paper,
               notes[r].serial
        PROVE  FALSE
    <3>1. PICK s : s = invoices[w].note
      OBVIOUS
    <3>2. /\ s \in NoteIds /\ notes[s].status # "PENDING" /\ notes[s].serial
          /\ notes[s].paper = notes[r].paper
      BY <1>2, <2>7, <3>1 DEF Single, Spent
    <3>3. s = r
      BY <2>2, <2>7, <3>2 DEF NotesShape, SerialRows
    <3> QED
      BY <2>2, <3>2, <3>3
  <2>8. ASSUME NEW w \in InvoiceIds, invoices'[w].serial
        PROVE  Spent(w)'
    <3>1. CASE w = v
      BY <2>2, <2>5, <2>6, <2>8, <3>1 DEF Exists, Spent
    <3>2. CASE w # v
      BY <1>3, <2>5, <2>8, <3>2
    <3> QED
      BY <3>1, <3>2
  <2>9. ASSUME NEW x \in InvoiceIds, NEW y \in InvoiceIds, invoices'[x].serial,
               invoices'[y].serial, invoices'[x].paper = invoices'[y].paper
        PROVE  x = y
    <3>1. CASE x = v /\ y # v
      BY <2>5, <2>7, <2>9, <3>1
    <3>2. CASE x # v /\ y = v
      BY <2>5, <2>7, <2>9, <3>2
    <3>3. CASE x # v /\ y # v
      BY <1>2, <2>5, <2>9, <3>3 DEF Single
    <3> QED
      BY <3>1, <3>2, <3>3
  <2> QED
    BY <2>8, <2>9 DEF Single
<1> QED
  BY <1>4, <1>5
-----------------------------------------------------------------------------
(* One call at a time.                                                     *)
Resting == (\A p \in Procs : stage[p] = "idle") /\ importer.step = "idle"

LEMMA NobodyIsBusy ==
    ASSUME NotesShape, OneAtATime, Room
    PROVE  Resting
<1>1. IsFiniteSet(Busy)
  BY RowsAssumption, FS_Subset DEF Busy
<1>2. Cardinality(Busy) \in Nat /\ (Cardinality(Busy) = 0 <=> Busy = {})
  BY <1>1, FS_CardinalityType, FS_EmptySet
<1>3. Cardinality(Busy) = 0 /\ importer.step = "idle"
  BY <1>2 DEF Room, OneAtATime
<1> QED
  BY <1>2, <1>3 DEF Resting, Busy

(* What does not touch the debts leaves the books in order.                *)
LEMMA BooksStay ==
    ASSUME NotesShape, Books, DebtsKept,
           \A o \in OrderIds : Standing(o) => Standing(o)',
           \A v \in InvoiceIds : Tended(v)
    PROVE  Books'
<1>1. \A r \in NoteIds : /\ Conciliated(r)' = Conciliated(r)
                         /\ Conciliated(r) => /\ notes'[r].invoice = notes[r].invoice
                                              /\ notes'[r].total = notes[r].total
                                              /\ notes'[r].order = notes[r].order
                                              /\ notes'[r].supplier = notes[r].supplier
  BY DEF DebtsKept, Conciliated
<1>2. Paired'
  <2>1. ASSUME NEW r \in NoteIds, Conciliated(r)'
        PROVE  Backs(notes[r].invoice, r)'
    <3>1. PICK v : v = notes[r].invoice
      OBVIOUS
    <3>2. Conciliated(r) /\ notes'[r].invoice = v
      BY <1>1, <2>1, <3>1
    <3>3. Backs(v, r) /\ v \in InvoiceIds
      BY <3>1, <3>2 DEF Books, Paired, Backs
    <3>4. Backs(v, r)'
      BY <3>3 DEF Tended, Backs
    <3> QED
      BY <3>2, <3>4 DEF Backs, Owed, Issued
  <2> QED
    BY <2>1 DEF Paired
<1>3. ASSUME NEW v \in InvoiceIds, Due(v)' PROVE Owes(v)'
  <2>1. Due(v) /\ Owes(v)
    BY <1>3 DEF Books, Tended
  <2>2. SumOf(invoices[v].parcels)' = SumOf(invoices[v].parcels)
    <3>1. invoices'[v].parcels = invoices[v].parcels
      BY DEF Tended
    <3> QED
      BY <3>1 DEF SumOf
  <2>3. /\ invoices[v].note \in NoteIds /\ Conciliated(invoices[v].note)
        /\ notes[invoices[v].note].invoice = v
        /\ notes[invoices[v].note].total = invoices[v].total
        /\ notes[invoices[v].note].order = invoices[v].order
        /\ notes[invoices[v].note].supplier = invoices[v].supplier
        /\ SumOf(invoices[v].parcels) = invoices[v].total
        /\ notes[invoices[v].note].order # None =>
               notes[invoices[v].note].order \in OrderIds /\ Standing(notes[invoices[v].note].order)
    BY <2>1 DEF Owes
  <2>4. /\ invoices'[v].note = invoices[v].note /\ invoices'[v].order = invoices[v].order
        /\ invoices'[v].total = invoices[v].total /\ invoices'[v].supplier = invoices[v].supplier
    BY DEF Tended
  <2>5. PICK r \in NoteIds : r = invoices[v].note
    BY <2>3
  <2>6. PICK o : o = notes[r].order
    OBVIOUS
  <2>7. o # None => o \in OrderIds /\ Standing(o)'
    BY <2>3, <2>5, <2>6
  <2> QED
    BY <1>1, <2>2, <2>3, <2>4, <2>5, <2>6, <2>7 DEF Owes, Standing
<1> QED
  BY <1>2, <1>3 DEF Books

LEMMA AtRestTended ==
    ASSUME NEW v \in InvoiceIds, UNCHANGED invoices
    PROVE  Tended(v)
  BY DEF Tended, Due, Owed, Issued

LEMMA ReconciledBooks ==
    ASSUME NotesShape, Books, NEW p \in Procs, StillSo(p), CommitReconcile(p)
    PROVE  Books'
<1> DEFINE r == call[p].note
           o == call[p].order
<1>1. /\ seen[p].note = notes[r] /\ notes[r].status = "PENDING"
      /\ o # None => o \in OrderIds /\ Standing(o)
      /\ r \in NoteIds /\ o \in OrderIds \cup {None}
  <2>1. At(p, "write", "reconcile")
    BY DEF CommitReconcile
  <2> QED
    BY <2>1, Reconciling DEF StillSo, At, Standing
<1>2. PICK v \in FreshInvoices(seen[p].note, seen[p].supplier), n \in Nat \ {0} :
          /\ invoices' = [invoices EXCEPT ![v] = DebtOf(p, n)]
          /\ notes' = [notes EXCEPT ![r] = RowOf(p, v)]
  BY Reconciling
<1>3. v \in InvoiceIds /\ ~Issued(v) /\ UNCHANGED orders
  BY DEF FreshInvoices, CommitReconcile
<1>4. /\ invoices'[v] = DebtOf(p, n) /\ \A w \in InvoiceIds \ {v} : invoices'[w] = invoices[w]
      /\ notes'[r] = RowOf(p, v) /\ \A s \in NoteIds \ {r} : notes'[s] = notes[s]
  BY <1>1, <1>2, <1>3, RowsRest
<1>5. /\ notes'[r].status \in {"DIVERGENT", "RECONCILED"} /\ notes'[r].invoice = v
      /\ notes'[r].order = o /\ notes'[r].total = notes[r].total
      /\ notes'[r].supplier = seen[p].supplier
  <2>1. Verdict(p) \in {"DIVERGENT", "RECONCILED"}
    BY DEF Verdict
  <2> QED
    BY <1>1, <1>3, <1>4, <2>1, RowOfShape
<1>6. /\ invoices'[v].status = "VALIDATED" /\ invoices'[v].note = r /\ invoices'[v].order = o
      /\ invoices'[v].total = notes[r].total /\ invoices'[v].supplier = seen[p].supplier
      /\ invoices'[v].account = "OPEN"
      /\ SumOf(invoices'[v].parcels) = invoices'[v].total
  <2>1. SumOf(DebtOf(p, n).parcels) = DebtOf(p, n).total
    BY <1>1, DebtOfShape
  <2> QED
    BY <1>1, <1>4, <2>1 DEF DebtOf, NewInvoice
<1> HIDE DEF r, o
<1>7. ~Conciliated(r)
  BY <1>1 DEF Conciliated
<1>8. \A w \in InvoiceIds \ {v} : Due(w)' = Due(w) /\ Owed(w)' = Owed(w)
  BY <1>4 DEF Due, Owed, Issued
<1>9. Owed(v)'
  BY <1>6 DEF Owed, Issued
<1>10. Paired'
  <2>1. ASSUME NEW s \in NoteIds, Conciliated(s)'
        PROVE  Backs(notes[s].invoice, s)'
    <3>1. CASE s = r
      <4>1. Backs(v, s)'
        BY <1>3, <1>6, <1>9, <3>1 DEF Backs, Issued
      <4> QED
        BY <1>5, <3>1, <4>1 DEF Backs, Owed, Issued
    <3>2. CASE s # r
      <4>1. notes'[s] = notes[s] /\ Conciliated(s)
        BY <1>4, <2>1, <3>2 DEF Conciliated
      <4>2. PICK w : w = notes[s].invoice
        OBVIOUS
      <4>3. Backs(w, s)
        BY <4>1, <4>2 DEF Books, Paired
      <4>4. w \in InvoiceIds /\ invoices'[w] = invoices[w]
        BY <1>3, <1>4, <4>3 DEF Backs
      <4>5. Backs(w, s)'
        BY <4>3, <4>4 DEF Backs, Owed, Issued
      <4> QED
        BY <4>1, <4>2, <4>5 DEF Backs, Owed, Issued
    <3> QED
      BY <3>1, <3>2
  <2> QED
    BY <2>1 DEF Paired
<1>11. ASSUME NEW w \in InvoiceIds, Due(w)' PROVE Owes(w)'
  <2>1. CASE w = v
    <3>1. SumOf(invoices[v].parcels)' = SumOf(invoices'[v].parcels)
      BY DEF SumOf
    <3> QED
      BY <1>1, <1>3, <1>5, <1>6, <2>1, <3>1 DEF Owes, Conciliated, Standing
  <2>2. CASE w # v
    <3>1. Due(w) /\ invoices'[w] = invoices[w]
      BY <1>4, <1>8, <1>11, <2>2
    <3>2. Owes(w)
      BY <3>1 DEF Books
    <3>3. invoices[w].note # r
      BY <1>7, <3>2 DEF Owes
    <3>4. notes'[invoices[w].note] = notes[invoices[w].note]
      BY <1>4, <3>2, <3>3 DEF Owes
    <3>5. SumOf(invoices[w].parcels)' = SumOf(invoices[w].parcels)
      BY <3>1 DEF SumOf
    <3> QED
      BY <1>3, <3>1, <3>2, <3>4, <3>5 DEF Owes, Conciliated, Standing
  <2> QED
    BY <2>1, <2>2
<1> QED
  BY <1>10, <1>11 DEF Books

LEMMA CancelledBooks ==
    ASSUME NotesShape, Books, NEW p \in Procs, StillSo(p), CommitCancelOrder(p)
    PROVE  Books'
<1> DEFINE o == call[p].order
<1>1. /\ o \in OrderIds
      /\ \A r \in NoteIds : IF notes[r].order = o THEN notes'[r].status = "CANCELLED"
                            ELSE notes'[r] = notes[r]
      /\ \A v \in InvoiceIds :
            /\ invoices[v].order = o => invoices'[v].account = "CANCELLED"
            /\ invoices[v].order # o => invoices'[v] = invoices[v]
            /\ invoices'[v].note = invoices[v].note /\ invoices'[v].adjusted = invoices[v].adjusted
            /\ Issued(v) => Issued(v)'
      /\ \A x \in OrderIds \ {o} : orders'[x] = orders[x]
  <2>1. \A v \in InvoiceIds : invoices[v].order = o => invoices[v].account # "PAID"
    BY DEF CommitCancelOrder, StillSo
  <2> QED
    BY <2>1, CommitCancelOrderKeeps
<1> HIDE DEF o
<1>2. Paired'
  <2>1. ASSUME NEW s \in NoteIds, Conciliated(s)'
        PROVE  Backs(notes[s].invoice, s)'
    <3>1. notes[s].order # o /\ notes'[s] = notes[s] /\ Conciliated(s)
      BY <1>1, <2>1 DEF Conciliated
    <3>2. PICK w : w = notes[s].invoice
      OBVIOUS
    <3>3. Backs(w, s) /\ w \in InvoiceIds
      BY <3>1, <3>2 DEF Books, Paired, Backs
    <3>4. CASE invoices[w].adjusted
      BY <1>1, <3>1, <3>2, <3>3, <3>4 DEF Backs, Owed, Issued
    <3>5. CASE ~invoices[w].adjusted
      <4>1. Owes(w) /\ invoices[w].note = s
        BY <3>3, <3>5 DEF Books, Due, Backs
      <4>2. invoices[w].order # o
        BY <3>1, <4>1 DEF Owes
      <4>3. invoices'[w] = invoices[w]
        BY <1>1, <3>3, <4>2
      <4> QED
        BY <3>1, <3>2, <3>3, <4>3 DEF Backs, Owed, Issued
    <3> QED
      BY <3>4, <3>5
  <2> QED
    BY <2>1 DEF Paired
<1>3. ASSUME NEW w \in InvoiceIds, Due(w)' PROVE Owes(w)'
  <2>1. invoices[w].order # o /\ invoices'[w] = invoices[w] /\ Due(w)
    BY <1>1, <1>3 DEF Due, Owed, Issued
  <2>2. Owes(w)
    BY <2>1 DEF Books
  <2>3. notes'[invoices[w].note] = notes[invoices[w].note] /\ notes[invoices[w].note].order # o
    BY <1>1, <2>1, <2>2 DEF Owes
  <2>4. SumOf(invoices[w].parcels)' = SumOf(invoices[w].parcels)
    BY <2>1 DEF SumOf
  <2> QED
    BY <1>1, <2>1, <2>2, <2>3, <2>4 DEF Owes, Conciliated, Standing
<1> QED
  BY <1>2, <1>3 DEF Books

(* A call that begins finds everyone at rest, and is then the only one.    *)
LEMMA OnlyOneBegins ==
    ASSUME NotesShape, OneAtATime, NEW p \in Procs, NEW c, NEW step \in {"order", "write"},
           BeginCall(p, c, step), UNCHANGED importer
    PROVE  /\ Sole' /\ importer.step = "idle" /\ stage'[p] = step /\ call'[p] = c
           /\ \A q \in Procs \ {p} : stage'[q] = "idle"
<1>1. Resting
  BY NobodyIsBusy DEF BeginCall
<1>2. /\ stage'[p] = step /\ call'[p] = c
      /\ \A q \in Procs \ {p} : stage'[q] = stage[q]
  BY DEF BeginCall, NotesShape, CallsShape
<1>3. \A q \in Procs \ {p} : stage'[q] = "idle"
  BY <1>1, <1>2 DEF Resting
<1> QED
  BY <1>1, <1>2, <1>3 DEF Sole, Resting

(* A call that ends leaves everyone at rest.                               *)
LEMMA TheOneEnds ==
    ASSUME NotesShape, Sole, NEW p \in Procs, stage[p] # "idle", EndCall(p), UNCHANGED importer
    PROVE  Sole' /\ importer.step = "idle" /\ \A q \in Procs : stage'[q] = "idle" /\ StillSo(q)'
<1>1. stage' = [stage EXCEPT ![p] = "idle"] /\ stage \in [Procs -> {"idle", "order", "write"}]
  BY DEF EndCall, NotesShape, CallsShape
<1>2. importer.step = "idle" /\ \A q \in Procs : stage'[q] = "idle"
  BY <1>1 DEF Sole
<1> QED
  BY <1>2 DEF Sole, StillSo, At

LEMMA UsersTakeTurns ==
    ASSUME NotesShape, OneAtATime, InTurn, NEW p \in Procs, User(p), Single'
    PROVE  InTurn'
<1>1. UserOnly /\ UNCHANGED importer
  BY DEF User, CreateNote, Abort, BeginReconcile, ReadOrder, CommitReconcile,
     BeginCancelNote, CommitCancelNote, BeginCancelOrder, CommitCancelOrder, UserOnly
<1>2. UNCHANGED rows => Books'
  <2>1. SUFFICES ASSUME UNCHANGED rows PROVE Books'
    OBVIOUS
  <2> QED
    BY <2>1, RowsRest, BooksStay, AtRestTended DEF rows, InTurn, Standing
<1>3. CASE CreateNote(p)
  <2>1. Resting /\ UNCHANGED <<orders, invoices, userVars>>
    BY <1>3, NobodyIsBusy DEF CreateNote
  <2>2. Books'
    BY <1>3, <2>1, CreateNoteKeeps, BooksStay, AtRestTended DEF InTurn, Standing
  <2> QED
    BY <1>1, <2>1, <2>2 DEF InTurn, Resting, Sole, StillSo, At, userVars
<1>4. CASE Abort(p)
  BY <1>1, <1>2, <1>4, TheOneEnds DEF Abort, InTurn
<1>5. CASE BeginReconcile(p)
  <2>1. PICK r \in NoteIds, o \in OrderIds \cup {None} :
            /\ notes[r].status = "PENDING"
            /\ BeginCall(p, [op |-> "reconcile", note |-> r, order |-> o], "order")
            /\ seen' = [seen EXCEPT ![p].note = notes[r]]
    BY <1>5 DEF BeginReconcile, RECONCILABLE_STATUSES
  <2>2. /\ Sole' /\ importer.step = "idle" /\ stage'[p] = "order"
        /\ call'[p] = [op |-> "reconcile", note |-> r, order |-> o]
        /\ \A q \in Procs \ {p} : stage'[q] = "idle"
    BY <1>1, <2>1, OnlyOneBegins
  <2>3. UNCHANGED rows /\ seen'[p].note = notes[r]
    BY <1>5, <2>1 DEF BeginReconcile, NotesShape, CallsShape, Sights
  <2>4. ASSUME NEW q \in Procs PROVE StillSo(q)'
    BY <2>1, <2>2, <2>3 DEF StillSo, At, rows
  <2> QED
    BY <1>1, <1>2, <2>2, <2>3, <2>4 DEF InTurn
<1>6. CASE ReadOrder(p)
  <2>1. /\ stage[p] = "order" /\ call[p].op = "reconcile" /\ UNCHANGED <<rows, call>>
        /\ stage' = [stage EXCEPT ![p] = "write"]
    BY <1>6 DEF ReadOrder, At
  <2>2. stage'[p] = "write" /\ \A q \in Procs \ {p} : stage'[q] = "idle"
    BY <2>1 DEF NotesShape, CallsShape, InTurn, Sole
  <2>3. Sole' /\ importer.step = "idle"
    BY <1>1, <2>1, <2>2 DEF InTurn, Sole
  <2>4. /\ seen'[p].note = seen[p].note
        /\ call[p].order # None =>
              /\ orders[call[p].order].live
              /\ seen'[p].open = orders[call[p].order].total - Consumed(call[p].order)
    BY <1>6 DEF ReadOrder, NotesShape, CallsShape, Sights
  <2>5. Consumed(call[p].order)' = Consumed(call[p].order)
    BY <2>1 DEF Consumed, rows
  <2>6. seen[p].note = notes[call[p].note] /\ notes[call[p].note].status = "PENDING"
    BY <2>1 DEF InTurn, StillSo
  <2>7. ASSUME NEW q \in Procs PROVE StillSo(q)'
    BY <2>1, <2>2, <2>4, <2>5, <2>6 DEF StillSo, At, rows
  <2> QED
    BY <1>1, <1>2, <2>1, <2>3, <2>7 DEF InTurn
<1>7. CASE CommitReconcile(p)
  BY <1>1, <1>7, ReconciledBooks, TheOneEnds DEF CommitReconcile, At, InTurn
<1>8. CASE BeginCancelNote(p)
  <2>1. PICK r \in NoteIds :
            notes[r].status = "PENDING" /\ BeginCall(p, [op |-> "cancelNote", note |-> r], "write")
    BY <1>8 DEF BeginCancelNote
  <2>2. /\ Sole' /\ importer.step = "idle" /\ stage'[p] = "write"
        /\ call'[p] = [op |-> "cancelNote", note |-> r]
        /\ \A q \in Procs \ {p} : stage'[q] = "idle"
    BY <1>1, <2>1, OnlyOneBegins
  <2>3. UNCHANGED rows
    BY <1>8 DEF BeginCancelNote
  <2>4. ASSUME NEW q \in Procs PROVE StillSo(q)'
    BY <2>1, <2>2, <2>3 DEF StillSo, At, rows
  <2> QED
    BY <1>1, <1>2, <2>2, <2>3, <2>4 DEF InTurn
<1>9. CASE CommitCancelNote(p)
  <2>1. At(p, "write", "cancelNote") /\ EndCall(p) /\ UNCHANGED <<orders, invoices>>
    BY <1>9 DEF CommitCancelNote
  <2>2. ~Conciliated(call[p].note)
    BY <2>1 DEF InTurn, StillSo, Conciliated
  <2>3. Books'
    BY <1>9, <2>1, <2>2, CommitCancelNoteKeeps, BooksStay, AtRestTended DEF InTurn, Standing
  <2> QED
    BY <1>1, <2>1, <2>3, TheOneEnds DEF At, InTurn
<1>10. CASE BeginCancelOrder(p)
  <2>1. PICK o \in OrderIds :
            /\ \A v \in InvoiceIds : invoices[v].order = o => invoices[v].account # "PAID"
            /\ BeginCall(p, [op |-> "cancelOrder", order |-> o], "write")
    BY <1>10 DEF BeginCancelOrder
  <2>2. /\ Sole' /\ importer.step = "idle" /\ call'[p] = [op |-> "cancelOrder", order |-> o]
        /\ \A q \in Procs \ {p} : stage'[q] = "idle"
    BY <1>1, <2>1, OnlyOneBegins
  <2>3. UNCHANGED rows
    BY <1>10 DEF BeginCancelOrder
  <2>4. ASSUME NEW q \in Procs PROVE StillSo(q)'
    BY <2>1, <2>2, <2>3 DEF StillSo, At, rows
  <2> QED
    BY <1>1, <1>2, <2>2, <2>3, <2>4 DEF InTurn
<1>11. CASE CommitCancelOrder(p)
  BY <1>1, <1>11, CancelledBooks, TheOneEnds DEF CommitCancelOrder, At, InTurn
<1> QED
  BY <1>3, <1>4, <1>5, <1>6, <1>7, <1>8, <1>9, <1>10, <1>11 DEF User

LEMMA TurnsStay ==
    ASSUME NotesShape, Sourced, OneAtATime, InTurn, NotesNext
    PROVE  InTurn'
<1>0. Single'
  BY SingleStays
<1>1. CASE Arrive
  <2>1. UNCHANGED <<rows, importer, userVars>>
    BY <1>1 DEF Arrive
  <2>2. Books'
    BY <2>1, RowsRest, BooksStay, AtRestTended DEF rows, InTurn, Standing
  <2>3. \A o : Consumed(o)' = Consumed(o)
    BY <2>1 DEF Consumed, rows
  <2>4. Sole' /\ \A p \in Procs : StillSo(p)'
    BY <2>1, <2>3 DEF InTurn, Sole, StillSo, At, rows, userVars
  <2> QED
    BY <1>0, <2>1, <2>2, <2>4 DEF InTurn, Conciliated, rows
<1>2. CASE Import
  <2>1. UNCHANGED <<orders, invoices, userVars>>
    BY <1>2 DEF Import, ImportRead, ImportUpdate, ImportEnrich, ImportCreate, ImportEvent,
       ImportMark, ImportFails, ImportCrash, ImporterOnly
  <2>2. \A p \in Procs : stage[p] = "idle"
    <3>1. CASE importer.step = "idle"
      <4>1. Room
        BY <1>2, <3>1 DEF Import, ImportRead, ImportUpdate, ImportEnrich, ImportCreate, ImportEvent,
           ImportMark, ImportFails, ImportCrash
      <4> QED
        BY <4>1, NobodyIsBusy DEF Resting
    <3>2. CASE importer.step # "idle"
      BY <3>2 DEF InTurn, Sole
    <3> QED
      BY <3>1, <3>2
  <2>3. DebtsKept /\ (importer'.step = "update" => ~Conciliated(importer.found)')
    <3>1. CASE ImportRead
      <4>1. UNCHANGED notes
        BY <3>1 DEF ImportRead
      <4>2. importer'.step = "update" => ~Conciliated(importer'.found)
        BY <3>1, ReadSourced
      <4> QED
        BY <4>1, <4>2, RowsRest DEF Conciliated
    <3>2. CASE ~ImportRead
      BY <1>2, <3>2, ImporterKeeps DEF ImportKeeps, InTurn
    <3> QED
      BY <3>1, <3>2
  <2>4. Books'
    BY <2>1, <2>3, BooksStay, AtRestTended DEF InTurn, Standing
  <2>5. Sole' /\ \A p \in Procs : StillSo(p)'
    BY <2>1, <2>2 DEF Sole, StillSo, At, userVars
  <2> QED
    BY <1>0, <2>3, <2>4, <2>5 DEF InTurn
<1>3. ASSUME NEW p \in Procs, User(p) PROVE InTurn'
  BY <1>0, <1>3, UsersTakeTurns
<1>4. ASSUME Resting, UNCHANGED <<userVars, importer>>, Books' PROVE InTurn'
  BY <1>0, <1>4 DEF InTurn, Resting, Sole, StillSo, At, userVars
<1>5. ASSUME NEW o \in OrderIds, EditOrder(o) PROVE InTurn'
  <2>1. Resting /\ UNCHANGED <<invoices, userVars, importer>>
    BY <1>5, NobodyIsBusy DEF EditOrder, UserOnly
  <2>2. Books'
    BY <1>5, <2>1, EditOrderKeeps, BooksStay, AtRestTended DEF InTurn
  <2> QED
    BY <1>4, <2>1, <2>2
<1>6. ASSUME NEW v \in InvoiceIds, DeskStep(v) PROVE InTurn'
  <2>1. Resting /\ UNCHANGED <<orders, userVars, importer>>
    BY <1>6, NobodyIsBusy, DeskStepKeeps DEF UserOnly
  <2>2. Books'
    BY <1>6, <2>1, DeskStepKeeps, BooksStay DEF InTurn, Standing
  <2> QED
    BY <1>4, <2>1, <2>2
<1> QED
  BY <1>1, <1>2, <1>3, <1>5, <1>6 DEF NotesNext, DeskStep
-----------------------------------------------------------------------------
LEMMA NotesInitInv == NotesInit => NotesInv
<1>1. SUFFICES ASSUME NotesInit PROVE NotesInv
  OBVIOUS
<1>2. NoNote \in Notes /\ NothingSeen \in Sights
  BY SeenShape DEF NothingSeen, Sights
<1>3. NotesTypeOK
  <2>1. amount \in [Papers -> Totals] /\ orders \in [OrderIds -> Orders]
    <3>1. /\ workload.totals \subseteq Totals /\ workload.orders \subseteq Totals
          /\ workload.suppliers \subseteq Suppliers
      BY <1>1, WorkloadAssumption DEF NotesInit
    <3> QED
      BY <1>1, <3>1 DEF NotesInit, Orders
  <2>2. docs \in Seq(Docs) /\ Len(docs) = 0
    BY <1>1 DEF NotesInit
  <2>3. importer \in [step: {"idle", "create", "update", "enrich", "event", "mark"},
                      doc: 0..Len(docs), found: NoteIds \cup {None},
                      outcome: {"PROCESSED", "ERROR"}]
    BY <1>1, <2>2 DEF NotesInit, Idle
  <2>4. notes \in [NoteIds -> Notes] /\ stage \in [Procs -> {"idle", "order", "write"}]
    BY <1>1, <1>2 DEF NotesInit
  <2>5. \A v \in InvoiceIds : /\ invoices[v].status = "NONE" /\ invoices[v].account = "OPEN"
                              /\ invoices[v].removed = FALSE /\ invoices[v].adjusted = FALSE
    BY <1>1 DEF NotesInit, NoInvoice
  <2> QED
    BY <2>1, <2>2, <2>3, <2>4, <2>5 DEF NotesTypeOK
<1>4. invoices \in [InvoiceIds -> Debts]
  <2>1. 0 \in 0..MaxTotal /\ << >> \in Seq(Int)
    BY BoundsAssumption
  <2>2. NoInvoice \in Debts
    BY <2>1 DEF NoInvoice, Debts
  <2> QED
    BY <1>1, <2>2 DEF NotesInit
<1>5. CallsShape
  BY <1>1, <1>2 DEF NotesInit, CallsShape, Asked, NoCall
<1>6. Blank /\ SerialRows /\ workload \in Workloads
  BY <1>1 DEF NotesInit, Blank, SerialRows, NoNote, NewNote
<1>7. AtTheFirst /\ InOrder /\ KnownNotes /\ EventsApplied
  <2>1. DOMAIN docs = {} /\ importer.step = "idle"
    BY <1>1 DEF NotesInit, Idle
  <2> QED
    BY <2>1 DEF AtTheFirst, InOrder, KnownNotes, EventsApplied
<1>8. SerialOnce
  BY <1>1 DEF NotesInit, NoInvoice, SerialOnce
<1>9. InTurn
  <2>1. Sole /\ (\A p \in Procs : StillSo(p)) /\ importer.step = "idle"
    BY <1>1 DEF NotesInit, Idle, Sole, StillSo, At
  <2>2. \A v \in InvoiceIds : ~Due(v) /\ ~invoices[v].serial
    BY <1>1 DEF NotesInit, NoInvoice, Due, Owed, Issued
  <2>3. \A r \in NoteIds : ~Conciliated(r)
    <3>1. NoNote.status = "NONE"
      BY DEF NoNote, NewNote
    <3> QED
      BY <1>1, <3>1 DEF NotesInit, Conciliated
  <2> QED
    BY <2>1, <2>2, <2>3 DEF InTurn, Books, Paired, Single
<1> QED
  BY <1>3, <1>4, <1>5, <1>6, <1>7, <1>8, <1>9 DEF NotesInv, NotesShape

LEMMA NotesNextInv == NotesInv /\ [NotesNext]_notesVars => NotesInv'
<1>1. ASSUME NotesInv, NotesNext PROVE NotesInv'
  <2>1. NotesShape /\ Sourced /\ SerialOnce /\ (OneAtATime => InTurn)
    BY <1>1 DEF NotesInv, Sourced
  <2>2. NotesShape' /\ Sourced'
    BY <1>1, <2>1, ShapeKept
  <2>3. SerialOnce'
    BY <1>1, <2>1, SerialStaysOnce
  <2>4. OneAtATime' => OneAtATime
    <3>1. UNCHANGED workload
      <4>1. Arrive \/ Import => UNCHANGED workload
        BY DEF Arrive, Import, ImportRead, ImportUpdate, ImportEnrich, ImportCreate, ImportEvent,
           ImportMark, ImportFails, ImportCrash, ImporterOnly
      <4>2. UserStep => UNCHANGED workload
        BY <2>1, UserStepKeeps
      <4> QED
        BY <1>1, <4>1, <4>2 DEF NotesNext, UserStep, DeskStep
    <3> QED
      BY <3>1 DEF OneAtATime
  <2>5. OneAtATime' => InTurn'
    BY <1>1, <2>1, <2>4, TurnsStay
  <2> QED
    BY <2>2, <2>3, <2>5 DEF NotesInv, Sourced
<1>2. ASSUME NotesInv, UNCHANGED notesVars PROVE NotesInv'
  <2>1. UNCHANGED <<amount, docs, notes, orders, invoices, importer, stage, call, seen, workload>>
    BY <1>2 DEF notesVars
  <2>2. NotesShape'
    BY <1>2, <2>1 DEF NotesInv, NotesShape, NotesTypeOK, Blank, SerialRows, Exists, CallsShape, Asked
  <2>3. AtTheFirst' /\ InOrder' /\ KnownNotes'
    BY <1>2, <2>1 DEF NotesInv, AtTheFirst, InOrder, KnownNotes, Keyed, Exists, Doc
  <2>4. EventsApplied' /\ SerialOnce'
    BY <1>2, <2>1 DEF NotesInv, EventsApplied, Follows, Applied, Settled, Keyed, Exists, SerialOnce
  <2>5. OneAtATime' => InTurn'
    <3>1. OneAtATime' = OneAtATime
      BY <2>1 DEF OneAtATime
    <3>2. ASSUME InTurn PROVE InTurn'
      <4>1. Books'
        BY <1>2, <2>1, <3>2, RowsRest, BooksStay, AtRestTended DEF NotesInv, InTurn, Standing
      <4>2. \A o : Consumed(o)' = Consumed(o)
        BY <2>1 DEF Consumed
      <4>3. Sole' /\ \A p \in Procs : StillSo(p)'
        BY <2>1, <3>2, <4>2 DEF InTurn, Sole, StillSo, At
      <4>4. Single'
        BY <2>1, <3>2 DEF InTurn, Single, Spent, Exists
      <4> QED
        BY <2>1, <3>2, <4>1, <4>3, <4>4 DEF InTurn, Conciliated
    <3> QED
      BY <1>2, <3>1, <3>2 DEF NotesInv
  <2> QED
    BY <2>2, <2>3, <2>4, <2>5 DEF NotesInv
<1> QED
  BY <1>1, <1>2

LEMMA NotesSpecInv == NotesSpec => []NotesInv
  BY NotesInitInv, NotesNextInv, PTL DEF NotesSpec

(* Every variable keeps its shape, the importer's document is one of those *)
(* that arrived, and the lines of a note are stored at most once however   *)
(* often its document is processed (aplicarNota deletes them first).       *)
THEOREM NotesTypeCorrect == NotesSpec => []NotesTypeOK
<1>1. NotesInv => NotesTypeOK
  BY DEF NotesInv, NotesShape
<1> QED
  BY <1>1, NotesSpecInv, PTL

(* A note with its series becomes a second invoice only where two calls    *)
(* reconcile it at once, and then, while neither is removed, the two are   *)
(* of two suppliers: from the unique index of invoices, and one call at a  *)
(* time from that of received notes and from their status.                 *)
THEOREM NoteIsOneDebt == NotesSpec => []OneDebtPerNote
<1>1. NotesInv => OneDebtPerNote
  <2>1. SUFFICES ASSUME NotesInv, NEW v \in InvoiceIds, NEW w \in InvoiceIds, v # w,
                        invoices[v].serial, invoices[w].serial, invoices[v].paper = invoices[w].paper
                 PROVE  /\ ~OneAtATime
                        /\ \/ invoices[v].removed \/ invoices[w].removed
                           \/ invoices[v].supplier # invoices[w].supplier
    BY DEF OneDebtPerNote
  <2>2. ~OneAtATime
    BY <2>1 DEF NotesInv, InTurn, Single
  <2> QED
    BY <2>1, <2>2 DEF NotesInv, SerialOnce
<1> QED
  BY <1>1, NotesSpecInv, PTL

(* One call at a time, a note is reconciled with an invoice of its own     *)
(* whose accounts are there, and accounts are those of a reconciled note:  *)
(* of its own value, split without losing a cent whatever the number of    *)
(* parcels, of its supplier and its order, and gone once the order is      *)
(* cancelled other than by a PATCH.  Invoices may be removed and restored  *)
(* and orders edited meanwhile; it holds of the accounts that the finance  *)
(* team has not adjusted itself.                                           *)
THEOREM DebtsAreOfTheirNotes == NotesSpec => []DebtIsOfTheNote
<1>1. NotesInv => DebtIsOfTheNote
  BY DEF NotesInv, InTurn, Books, Paired, Backs, Owes, Due, DebtIsOfTheNote
<1> QED
  BY <1>1, NotesSpecInv, PTL

(* Once a note and, after it, the issuer's cancellation have been          *)
(* processed, no row of the note waits to be reconciled, whatever users,   *)
(* crashes and repeated documents do before, between and after.            *)
THEOREM CancelledNotesAreSettled == NotesSpec => []CancelledAtSource
<1>1. NotesInv => CancelledAtSource
  <2>1. SUFFICES ASSUME NotesInv, NEW d \in DOMAIN docs, NEW e \in DOMAIN docs,
                        d < e, docs[d].paper = docs[e].paper,
                        docs[d].kind # "cancellation", docs[d].status = "PROCESSED",
                        docs[e].kind = "cancellation", docs[e].status = "PROCESSED",
                        NEW r \in Keyed(docs[d].paper)
                 PROVE  notes[r].status # "PENDING"
    BY DEF CancelledAtSource
  <2>2. Follows(e) /\ Applied(e)
    BY <2>1 DEF Follows, Applied
  <2>3. Settled(docs[e].paper)
    BY <2>1, <2>2 DEF NotesInv, EventsApplied
  <2> QED
    BY <2>1, <2>3 DEF Settled
<1> QED
  BY <1>1, NotesSpecInv, PTL

(* Only a reconciliation makes a note a debt.                              *)
LEMMA OnlyReconciling ==
    ASSUME NotesInv, NotesNext, OneAtATime, NEW r \in NoteIds,
           notes[r].status # "RECONCILED", notes'[r].status = "RECONCILED"
    PROVE  \E p \in Procs : CommitReconcile(p) /\ call[p].note = r
<1>1. NotesShape /\ Sourced /\ InTurn
  BY DEF NotesInv, Sourced
<1>2. ~DebtsKept
  BY DEF DebtsKept, Conciliated
<1>3. ~Arrive
  BY <1>1, <1>2, RowsRest DEF Arrive, rows
<1>4. ~Import
  <2>1. ImportRead => UNCHANGED notes
    BY DEF ImportRead
  <2> QED
    BY <1>1, <1>2, <2>1, RowsRest, ImporterKeeps DEF ImportKeeps, InTurn
<1>5. (\A o \in OrderIds : ~EditOrder(o)) /\ (\A v \in InvoiceIds : ~DeskStep(v))
  BY <1>1, <1>2, EditOrderKeeps, DeskStepKeeps
<1>6. PICK p \in Procs : User(p)
  BY <1>3, <1>4, <1>5 DEF NotesNext, DeskStep
<1>7. ~CreateNote(p)
  BY <1>1, <1>2, CreateNoteKeeps
<1>8. ~(Abort(p) \/ BeginReconcile(p) \/ ReadOrder(p) \/ BeginCancelNote(p) \/ BeginCancelOrder(p))
  BY <1>1, <1>2, RowsRest
  DEF Abort, BeginReconcile, ReadOrder, BeginCancelNote, BeginCancelOrder, rows
<1>9. ~CommitCancelNote(p)
  <2>1. CommitCancelNote(p) => ~Conciliated(call[p].note)
    BY <1>1 DEF CommitCancelNote, At, InTurn, StillSo, Conciliated
  <2> QED
    BY <1>1, <1>2, <2>1, CommitCancelNoteKeeps
<1>10. ~CommitCancelOrder(p)
  <2>1. SUFFICES ASSUME CommitCancelOrder(p) PROVE FALSE
    OBVIOUS
  <2>2. IF notes[r].order = call[p].order THEN notes'[r].status = "CANCELLED" ELSE notes'[r] = notes[r]
    BY <1>1, <2>1, CommitCancelOrderKeeps
  <2> QED
    BY <2>2
<1>11. CommitReconcile(p)
  BY <1>6, <1>7, <1>8, <1>9, <1>10 DEF User
<1>12. call[p].note = r
  <2>1. PICK v \in FreshInvoices(seen[p].note, seen[p].supplier) :
            /\ call[p].note \in NoteIds
            /\ notes' = [notes EXCEPT ![call[p].note] = RowOf(p, v)]
    BY <1>1, <1>11, Reconciling
  <2>2. call[p].note # r => notes'[r] = notes[r]
    BY <1>1, <2>1, RowsRest
  <2> QED
    BY <2>2
<1> QED
  BY <1>11, <1>12

LEMMA ClosingStep ==
    ASSUME NotesInv, NotesNext, OneAtATime, NEW r \in NoteIds,
           notes[r].status # "RECONCILED", notes'[r].status = "RECONCILED", notes'[r].order # None
    PROVE  ClosesItsOrder(r)
<1>1. NotesShape /\ InTurn
  BY DEF NotesInv
<1>2. PICK p \in Procs : CommitReconcile(p) /\ call[p].note = r
  BY OnlyReconciling
<1>3. PICK o : o = call[p].order
  OBVIOUS
<1>4. PICK v \in InvoiceIds : notes' = [notes EXCEPT ![r] = RowOf(p, v)]
  BY <1>1, <1>2, Reconciling DEF FreshInvoices
<1>5. o \in OrderIds \cup {None}
  BY <1>1, <1>2, <1>3, Reconciling
<1>6. /\ notes'[r].status = Verdict(p) /\ notes'[r].order = o /\ notes'[r].total = notes[r].total
      /\ \A s \in NoteIds \ {r} : notes'[s] = notes[s]
  <2>1. notes'[r] = RowOf(p, v) /\ \A s \in NoteIds \ {r} : notes'[s] = notes[s]
    BY <1>1, <1>4, RowsRest
  <2> QED
    BY <1>1, <1>2, <1>3, <1>5, <2>1, RowOfShape
<1>7. /\ o # None /\ seen[p].note = notes[r] /\ notes[r].status = "PENDING"
      /\ seen[p].open = orders[o].total - Consumed(o)
  BY <1>1, <1>2, <1>3, <1>6 DEF CommitReconcile, At, InTurn, StillSo
<1>8. notes[r].total = orders[o].total - Consumed(o)
  BY <1>2, <1>3, <1>6, <1>7 DEF Verdict
<1> DEFINE S == {s \in NoteIds : notes[s].order = o /\ notes[s].status \in CONSUMING_STATUSES}
           f == [s \in NoteIds |-> notes[s].total]
           g == [s \in NoteIds |-> notes'[s].total]
           closing == {s \in NoteIds : notes'[s].order = o /\ Conciliated(s)'}
<1>9. closing = S \cup {r} /\ r \notin S
  BY <1>6, <1>7 DEF Conciliated, CONSUMING_STATUSES
<1>10. IsFiniteSet(S)
  BY RowsAssumption, FS_Subset
<1>11. /\ \A s \in S : f[s] \in Int /\ g[s] = f[s]
       /\ g[r] = notes[r].total /\ g[r] \in Int
  BY <1>1, <1>6, <1>9, RowsRest DEF Notes
<1>12. Consumed(o) = SumOver(f, S)
  BY DEF Consumed
<1>13. orders[o].total \in Int
  BY <1>1, <1>5, <1>7, RowsRest DEF Orders, Totals
<1> HIDE DEF S, f, g, closing
<1>14. SumOver(g, S) = SumOver(f, S) /\ SumOver(f, S) \in Int
  BY <1>10, <1>11, SumSame, SumInt
<1>15. SumOver(g, S \cup {r}) = SumOver(g, S) + g[r]
  <2>1. \A s \in S : g[s] \in Int
    BY <1>11
  <2> QED
    BY <1>9, <1>10, <1>11, <2>1, SumInsert
<1>16. SumOver(g, closing) = orders[o].total
  BY <1>8, <1>9, <1>11, <1>12, <1>13, <1>14, <1>15
<1> QED
  BY <1>6, <1>16 DEF ClosesItsOrder, g, closing

(* One call at a time, the notes of an order that ends reconciled, and not *)
(* divergent, sum up to the order's value, however many notes before it    *)
(* took a part of it.                                                      *)
THEOREM LastNoteClosesTheOrder == NotesSpec => ReconciledClosesOrder
<1> DEFINE Closes ==
        OneAtATime => \A r \in NoteIds :
            /\ notes[r].status # "RECONCILED"
            /\ notes'[r].status = "RECONCILED" /\ notes'[r].order # None
            => ClosesItsOrder(r)
<1>1. NotesInv /\ [NotesNext]_notesVars => [Closes]_notesVars
  BY ClosingStep
<1> HIDE DEF Closes
<1>2. NotesSpec => [][Closes]_notesVars
  BY <1>1, NotesSpecInv, PTL DEF NotesSpec
<1> QED
  BY <1>2 DEF Closes, ReconciledClosesOrder
=============================================================================
