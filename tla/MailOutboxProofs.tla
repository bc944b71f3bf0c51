-------------------------- MODULE MailOutboxProofs --------------------------
(***************************************************************************)
(* Proofs about MailOutbox, for any number of mails and of runs, any batch *)
(* and any number of mishaps.                                              *)
(*                                                                         *)
(* The claim protects a mail as long as one run alone holds it: of a mail  *)
(* that was never claimed twice, and whose acceptance was never lost, one  *)
(* run at most means to send it, none does once it is sent, and what the   *)
(* provider took is recorded or about to be.                               *)
(***************************************************************************)
EXTENDS MailOutbox, TLAPS

\* Every copy a claim returned has its variables.
CopiesWhole == \A w \in Runs : \A c \in left[w] : \E m \in Mails : c = <<m, TRUE>>

\* A run is at a row it holds.
AtItsRow == \A w \in Runs : pc[w] \in {"send", "record", "retry"} => cur[w] \in left[w]

\* A run that has not ended has not been logged as anything.
LogOpen ==
    \A w \in Runs :
        pc[w] \in {"claim", "next", "send", "record", "retry", "finish"} => log[w] = "open"

\* A run finishes when it has settled what it claimed.
AllDone == \A w \in Runs : pc[w] \in {"finish", "stamp"} => left[w] = {}

RunsInv == CopiesWhole /\ AtItsRow /\ LogOpen /\ AllDone /\ SuccessLeavesNothing

\* What is about to be recorded was taken.
RecordTaken == \A w \in Runs : pc[w] = "record" => taken[cur[w][1]] > 0

TakenInv == RecordTaken /\ WholeAndTaken

Holds(w, m) == Holding(w) /\ <<m, TRUE>> \in left[w]

\* A mail that no two runs held and whose acceptance was not lost.
Clean(m) ==
    /\ \A v, w \in Runs : Holds(v, m) /\ Holds(w, m) => v = w
    /\ row[m] = "sent" => \A w \in Runs : ~Holds(w, m)
    /\ taken[m] > 0 => row[m] = "sent" \/ \E w \in Runs : pc[w] = "record" /\ cur[w] = <<m, TRUE>>
    /\ taken[m] <= 1

CleanInv == \A m \in Mails : m \notin late \cup lost => Clean(m)

IInv == TypeOK /\ RunsInv /\ TakenInv /\ CleanInv

-----------------------------------------------------------------------------
(* Types. *)

LEMMA CurTypes ==
    ASSUME TypeOK, RunsInv, NEW w \in Runs, pc[w] \in {"send", "record", "retry"}
    PROVE  /\ cur[w] \in Copies
           /\ cur[w][1] \in Mails
           /\ cur[w][2] = TRUE
           /\ cur[w] = <<cur[w][1], TRUE>>
<1>1. PICK m \in Mails : cur[w] = <<m, TRUE>>
  BY DEF RunsInv, AtItsRow, CopiesWhole
<1>2. <<m, TRUE>> \in Copies /\ <<m, TRUE>>[1] = m /\ <<m, TRUE>>[2] = TRUE
  BY DEF Copies
<1> QED
  BY <1>1, <1>2

LEMMA ClaimTypes ==
    ASSUME TypeOK, NEW w \in Runs, Claim(w)
    PROVE  TypeOK'
<1>1. PICK S \in Batches :
        /\ due' = due \ S
        /\ left' = [left EXCEPT ![w] = {<<m, m \in full>> : m \in S}]
        /\ late' = late \cup StillHeld(S)
  BY DEF Claim
<1>2. S \subseteq due /\ due \subseteq full /\ full \subseteq Mails
  BY <1>1 DEF Batches, TypeOK
<1>3. {<<m, m \in full>> : m \in S} \subseteq Copies
  <2>1. ASSUME NEW m \in S
        PROVE  <<m, m \in full>> \in Copies
    BY <1>2 DEF Copies
  <2> QED
    BY <2>1
<1>4. left' \in [Runs -> SUBSET Copies]
  BY <1>1, <1>3 DEF TypeOK
<1>5. late' \subseteq Mails
  BY <1>1, <1>2 DEF StillHeld, TypeOK
<1>6. pc' \in [Runs -> Steps] /\ UNCHANGED <<row, full, log, cur, mishaps, taken, blank, lost>>
  BY DEF Claim, Goto, Steps, TypeOK
<1> QED
  BY <1>1, <1>2, <1>4, <1>5, <1>6 DEF TypeOK

LEMMA TypeStep == TypeOK /\ RunsInv /\ [Next]_vars => TypeOK'
<1> SUFFICES ASSUME TypeOK, RunsInv, [Next]_vars PROVE TypeOK'
  OBVIOUS
<1>1. ASSUME NEW m \in Mails, Enqueue(m)
      PROVE  TypeOK'
  BY <1>1 DEF TypeOK, Enqueue, run, history
<1>2. ASSUME NEW m \in Mails, BecomeDue(m)
      PROVE  TypeOK'
  BY <1>2 DEF TypeOK, BecomeDue, run, history
\* A step that moves the run and at most writes its log.
<1>3. ASSUME NEW w \in Runs,
             Tick(w) \/ LogSuccess(w) \/ Stamp(w) \/ LogFailure(w) \/ AllSettled(w) \/ Refuse(w)
      PROVE  TypeOK'
  BY <1>3 DEF TypeOK, Tick, LogSuccess, Stamp, LogFailure, AllSettled, Refuse, Goto, Steps,
              table, history
<1>4. ASSUME NEW w \in Runs, LogStart(w)
      PROVE  TypeOK'
  BY <1>4 DEF TypeOK, LogStart, Goto, Steps, table, history
<1>5. ASSUME NEW w \in Runs, NextMail(w)
      PROVE  TypeOK'
  BY <1>5 DEF TypeOK, NextMail, Goto, Steps, table, history
<1>6. ASSUME NEW w \in Runs, Accept(w) \/ AcceptUnheard(w)
      PROVE  TypeOK'
  <2>1. cur[w][1] \in Mails
    BY <1>6, CurTypes DEF Accept, AcceptUnheard
  <2> QED
    BY <1>6, <2>1 DEF TypeOK, Accept, AcceptUnheard, TakenBy, Goto, Steps, table
<1>7. ASSUME NEW w \in Runs, RecordSent(w)
      PROVE  TypeOK'
  <2>1. cur[w][1] \in Mails
    BY <1>7, CurTypes DEF RecordSent
  <2> QED
    BY <1>7, <2>1 DEF TypeOK, RecordSent, Settled, Goto, Steps, history
<1>8. ASSUME NEW w \in Runs, RecordRetry(w)
      PROVE  TypeOK'
  BY <1>8 DEF TypeOK, RecordRetry, Settled, Goto, Steps, history
<1>9. ASSUME NEW w \in Runs, GoesWrong(w)
      PROVE  TypeOK'
  <2>1. pc[w] = "record" => cur[w][1] \in Mails
    BY CurTypes
  <2> QED
    BY <1>9, <2>1, MailBounds DEF TypeOK, GoesWrong, RecordSentFails, RecordRetryFails, RunThrows,
       LogFails, Crash, Mishap, Goto, Steps, table, history
<1>10. CASE UNCHANGED vars
  BY <1>10 DEF TypeOK, vars, table, run, history
<1> QED
  BY <1>1, <1>2, <1>3, <1>4, <1>5, <1>6, <1>7, <1>8, <1>9, <1>10, ClaimTypes DEF Next, Work

-----------------------------------------------------------------------------
(* What a run knows of itself. *)

LEMMA ClaimRuns ==
    ASSUME TypeOK, RunsInv, NEW w \in Runs, Claim(w)
    PROVE  RunsInv'
<1>1. PICK S \in Batches : left' = [left EXCEPT ![w] = {<<m, m \in full>> : m \in S}]
  BY DEF Claim
<1>2. \A m \in S : m \in Mails /\ (m \in full) = TRUE
  BY <1>1 DEF Batches, TypeOK
<1>3. CopiesWhole'
  BY <1>1, <1>2 DEF RunsInv, CopiesWhole, TypeOK
<1> QED
  BY <1>1, <1>3 DEF Claim, Goto, RunsInv, AtItsRow, LogOpen, AllDone, SuccessLeavesNothing, TypeOK

\* Only a claim adds to what a run holds.
LEMMA WholeStays ==
    ASSUME RunsInv, \A w \in Runs : left'[w] \subseteq left[w]
    PROVE  CopiesWhole'
BY DEF RunsInv, CopiesWhole

LEMMA RunsStep == TypeOK /\ RunsInv /\ [Next]_vars => RunsInv'
<1> SUFFICES ASSUME TypeOK, RunsInv, [Next]_vars PROVE RunsInv'
  OBVIOUS
<1> DEFINE Others == AtItsRow /\ LogOpen /\ AllDone /\ SuccessLeavesNothing
<1>0. Others
  BY DEF RunsInv
<1> USE DEF AtItsRow, LogOpen, AllDone, SuccessLeavesNothing
<1>1. ASSUME NEW m \in Mails, Enqueue(m) \/ BecomeDue(m)
      PROVE  RunsInv'
  <2>1. UNCHANGED <<pc, left, cur, log>>
    BY <1>1 DEF Enqueue, BecomeDue, run
  <2> QED
    BY <1>0, <2>1, WholeStays DEF RunsInv
<1>2. ASSUME NEW w \in Runs,
             Tick(w) \/ LogSuccess(w) \/ Stamp(w) \/ LogFailure(w) \/ AllSettled(w)
      PROVE  RunsInv'
  <2>1. UNCHANGED left
    BY <1>2 DEF Tick, LogSuccess, Stamp, LogFailure, AllSettled
  <2>2. Others'
    BY <1>0, <1>2 DEF TypeOK, Tick, LogSuccess, Stamp, LogFailure, AllSettled, Goto
  <2> QED
    BY <2>1, <2>2, WholeStays DEF RunsInv
<1>3. ASSUME NEW w \in Runs, Refuse(w) \/ Accept(w) \/ AcceptUnheard(w)
      PROVE  RunsInv'
  <2>1. UNCHANGED left
    BY <1>3 DEF Refuse, Accept, AcceptUnheard
  <2>2. Others'
    BY <1>0, <1>3 DEF TypeOK, Refuse, Accept, AcceptUnheard, Goto
  <2> QED
    BY <2>1, <2>2, WholeStays DEF RunsInv
<1>4. ASSUME NEW w \in Runs, LogStart(w)
      PROVE  RunsInv'
  <2>1. \A v \in Runs : left'[v] \subseteq left[v]
    BY <1>4 DEF LogStart, TypeOK
  <2>2. Others'
    BY <1>0, <1>4 DEF TypeOK, LogStart, Goto
  <2> QED
    BY <2>1, <2>2, WholeStays DEF RunsInv
<1>5. ASSUME NEW w \in Runs, NextMail(w)
      PROVE  RunsInv'
  <2>1. UNCHANGED left
    BY <1>5 DEF NextMail
  <2>2. Others'
    BY <1>0, <1>5 DEF TypeOK, NextMail, Goto
  <2> QED
    BY <2>1, <2>2, WholeStays DEF RunsInv
<1>6. ASSUME NEW w \in Runs, RecordSent(w) \/ RecordRetry(w)
      PROVE  RunsInv'
  <2>1. /\ pc[w] \in {"record", "retry"}
        /\ left' = [left EXCEPT ![w] = @ \ {cur[w]}]
        /\ cur' = [cur EXCEPT ![w] = NoMail]
        /\ pc' = [pc EXCEPT ![w] = "next"]
        /\ log' = log
    BY <1>6 DEF RecordSent, RecordRetry, Settled, Goto
  <2>2. \A v \in Runs : left'[v] \subseteq left[v]
    BY <2>1 DEF TypeOK
  <2>3. Others'
    BY <1>0, <2>1, <2>2 DEF TypeOK
  <2> QED
    BY <2>2, <2>3, WholeStays DEF RunsInv
<1>7. ASSUME NEW w \in Runs, GoesWrong(w)
      PROVE  RunsInv'
  <2>1. UNCHANGED left
    BY <1>7 DEF GoesWrong, RecordSentFails, RecordRetryFails, RunThrows, LogFails, Crash
  <2>2. UNCHANGED <<cur, log>> \/ (cur' = [cur EXCEPT ![w] = NoMail] /\ UNCHANGED log)
    BY <1>7 DEF GoesWrong, RecordSentFails, RecordRetryFails, RunThrows, LogFails, Crash
  <2>3. \/ pc' = [pc EXCEPT ![w] = "retry"] /\ pc[w] = "record" /\ cur' = cur
        \/ pc' = [pc EXCEPT ![w] = "fail"]
        \/ pc' = [pc EXCEPT ![w] = "idle"]
    BY <1>7 DEF GoesWrong, RecordSentFails, RecordRetryFails, RunThrows, LogFails, Crash, Goto
  <2>4. Others'
    BY <1>0, <2>1, <2>2, <2>3 DEF TypeOK
  <2> QED
    BY <2>1, <2>4, WholeStays DEF RunsInv
<1>8. CASE UNCHANGED vars
  BY <1>0, <1>8, WholeStays DEF vars, run, RunsInv
<1> QED
  BY <1>1, <1>2, <1>3, <1>4, <1>5, <1>6, <1>7, <1>8, ClaimRuns DEF Next, Work

-----------------------------------------------------------------------------
(* What goes out and what is recorded of it. *)

LEMMA TakenGrows ==
    ASSUME TypeOK, RunsInv, NEW w \in Runs, pc[w] = "send", TakenBy(w)
    PROVE  /\ \A m \in Mails : taken[m] > 0 => taken'[m] > 0
           /\ taken'[cur[w][1]] > 0
           /\ UNCHANGED <<blank, late>>
<1>1. cur[w][1] \in Mails /\ cur[w][2]
  BY CurTypes
<1> QED
  BY <1>1 DEF TakenBy, TypeOK

LEMMA TakenStep == TypeOK /\ RunsInv /\ TakenInv /\ [Next]_vars => TakenInv'
<1> SUFFICES ASSUME TypeOK, RunsInv, TakenInv, [Next]_vars PROVE TakenInv'
  OBVIOUS
<1> USE DEF TakenInv, RecordTaken, WholeAndTaken
<1>0. \A w \in Runs : pc[w] = "record" => cur[w][1] \in Mails
  BY CurTypes
\* The provider takes nothing and no row is marked: nothing new is to record.
<1>1. ASSUME UNCHANGED <<taken, blank>>,
             \A m \in Mails : row'[m] = "sent" => row[m] = "sent",
             \A w \in Runs : pc'[w] = "record" => pc[w] = "record" /\ cur'[w] = cur[w]
      PROVE  TakenInv'
  BY <1>1
<1>2. ASSUME NEW m \in Mails, Enqueue(m) \/ BecomeDue(m)
      PROVE  TakenInv'
  BY <1>1, <1>2 DEF Enqueue, BecomeDue, run, history, TypeOK
<1>3. ASSUME NEW w \in Runs, Accept(w)
      PROVE  TakenInv'
  <2>1. pc[w] = "send" /\ TakenBy(w) /\ pc' = [pc EXCEPT ![w] = "record"] /\ UNCHANGED <<row, cur>>
    BY <1>3 DEF Accept, Goto, table
  <2> QED
    BY <1>0, <2>1, TakenGrows DEF TypeOK
<1>4. ASSUME NEW w \in Runs, AcceptUnheard(w)
      PROVE  TakenInv'
  <2>1. pc[w] = "send" /\ TakenBy(w) /\ pc' = [pc EXCEPT ![w] = "retry"] /\ UNCHANGED <<row, cur>>
    BY <1>4 DEF AcceptUnheard, Goto, table
  <2> QED
    BY <1>0, <2>1, TakenGrows DEF TypeOK
<1>5. ASSUME NEW w \in Runs, RecordSent(w)
      PROVE  TakenInv'
  <2>1. /\ pc[w] = "record"
        /\ row' = [row EXCEPT ![cur[w][1]] = "sent"]
        /\ pc' = [pc EXCEPT ![w] = "next"] /\ cur' = [cur EXCEPT ![w] = NoMail]
        /\ UNCHANGED <<taken, blank>>
    BY <1>5 DEF RecordSent, Settled, Goto, history
  <2> QED
    BY <2>1 DEF TypeOK
<1>6. ASSUME NEW w \in Runs, UNCHANGED <<row, taken, blank>>, NEW to, to # "record",
             pc' = [pc EXCEPT ![w] = to], \A v \in Runs : v # w => cur'[v] = cur[v]
      PROVE  TakenInv'
  BY <1>1, <1>6 DEF TypeOK
<1>7. ASSUME NEW w \in Runs,
             \/ Tick(w) \/ LogStart(w) \/ Claim(w) \/ NextMail(w) \/ Refuse(w) \/ RecordRetry(w)
             \/ AllSettled(w) \/ LogSuccess(w) \/ Stamp(w) \/ LogFailure(w)
      PROVE  TakenInv'
  BY <1>6, <1>7 DEF Tick, LogStart, Claim, NextMail, Refuse, RecordRetry, Settled, AllSettled,
                    LogSuccess, Stamp, LogFailure, Goto, table, history, TypeOK
<1>8. ASSUME NEW w \in Runs, GoesWrong(w)
      PROVE  TakenInv'
  BY <1>6, <1>8 DEF GoesWrong, RecordSentFails, RecordRetryFails, RunThrows, LogFails, Crash, Goto,
                    table, history, TypeOK
<1>9. CASE UNCHANGED vars
  BY <1>1, <1>9 DEF vars, table, run, history
<1> QED
  BY <1>2, <1>3, <1>4, <1>5, <1>7, <1>8, <1>9 DEF Next, Work

-----------------------------------------------------------------------------
(* One sender. *)

LEMMA HoldsWhatItIsAt ==
    ASSUME TypeOK, RunsInv, NEW w \in Runs, pc[w] \in {"send", "record", "retry"}
    PROVE  cur[w][1] \in Mails /\ cur[w] = <<cur[w][1], TRUE>> /\ Holds(w, cur[w][1])
BY CurTypes DEF Holds, Holding, RunsInv, AtItsRow

\* Nobody comes to hold a mail, none is taken, and what was recorded stays so.
LEMMA CleanStays ==
    ASSUME TypeOK, NEW m \in Mails, Clean(m), taken'[m] = taken[m],
           \A w \in Runs : Holds(w, m)' => Holds(w, m),
           row'[m] = "sent" <=> row[m] = "sent",
           \A w \in Runs : pc[w] = "record" /\ cur[w] = <<m, TRUE>>
                => pc'[w] = "record" /\ cur'[w] = cur[w]
    PROVE  Clean(m)'
BY DEF Clean

LEMMA ClaimClean ==
    ASSUME TypeOK, RunsInv, CleanInv, NEW w \in Runs, Claim(w)
    PROVE  CleanInv'
<1> SUFFICES ASSUME NEW m \in Mails, m \notin (late \cup lost)'
             PROVE  Clean(m)'
  BY DEF CleanInv
<1>1. PICK S \in Batches :
        /\ due' = due \ S
        /\ left' = [left EXCEPT ![w] = {<<x, x \in full>> : x \in S}]
        /\ late' = late \cup StillHeld(S)
  BY DEF Claim
<1>2. /\ pc[w] = "claim" /\ pc' = [pc EXCEPT ![w] = "next"]
      /\ UNCHANGED <<row, cur, taken, lost>>
  BY DEF Claim, Goto
<1>3. m \notin late \cup lost /\ Clean(m)
  BY <1>1, <1>2 DEF CleanInv
<1>4. \A v \in Runs : v # w => (Holds(v, m)' <=> Holds(v, m))
  BY <1>1, <1>2 DEF Holds, Holding, TypeOK
<1>5. CASE m \in S
  <2>1. \A v \in Runs : ~Holds(v, m)
    <3>1. m \notin StillHeld(S)
      BY <1>1
    <3>2. \A v \in Runs : <<m, TRUE>> \in left[v] => m \in Held(v)
      <4>1. <<m, TRUE>>[1] = m
        OBVIOUS
      <4> QED
        BY <4>1 DEF Held
    <3> QED
      BY <1>5, <3>1, <3>2 DEF StillHeld, Holds
  <2>2. row[m] # "sent"
    BY <1>1, <1>5 DEF Batches, TypeOK
  <2> QED
    BY <1>2, <1>3, <1>4, <2>1, <2>2 DEF Clean, TypeOK
<1>6. CASE m \notin S
  <2>1. ~Holds(w, m)'
    <3>1. ASSUME NEW x \in S, <<m, TRUE>> = <<x, x \in full>>
          PROVE  FALSE
      BY <1>6, <3>1
    <3>2. left'[w] = {<<x, x \in full>> : x \in S}
      BY <1>1 DEF TypeOK
    <3> QED
      BY <3>1, <3>2 DEF Holds
  <2> QED
    BY <1>2, <1>3, <1>4, <2>1, CleanStays DEF TypeOK
<1> QED
  BY <1>5, <1>6

LEMMA AcceptClean ==
    ASSUME TypeOK, RunsInv, CleanInv, NEW w \in Runs, Accept(w)
    PROVE  CleanInv'
<1> SUFFICES ASSUME NEW m \in Mails, m \notin (late \cup lost)'
             PROVE  Clean(m)'
  BY DEF CleanInv
<1>1. /\ pc[w] = "send" /\ pc' = [pc EXCEPT ![w] = "record"]
      /\ taken' = [taken EXCEPT ![cur[w][1]] = IF @ = 2 THEN 2 ELSE @ + 1]
      /\ UNCHANGED <<row, left, cur, late, lost>>
  BY DEF Accept, TakenBy, Goto, table
<1>2. Clean(m)
  BY <1>1 DEF CleanInv
<1>3. cur[w] = <<cur[w][1], TRUE>> /\ cur[w][1] \in Mails /\ Holds(w, cur[w][1])
  BY <1>1, HoldsWhatItIsAt
<1>4. \A v \in Runs : Holds(v, m)' <=> Holds(v, m)
  BY <1>1 DEF Holds, Holding, TypeOK
<1>5. CASE m = cur[w][1]
  <2>0. Holds(w, m) /\ cur[w] = <<m, TRUE>>
    BY <1>3, <1>5
  <2>1. taken[m] = 0
    <3>1. \A v \in Runs : pc[v] = "record" => cur[v] # <<m, TRUE>>
      <4> SUFFICES ASSUME NEW v \in Runs, pc[v] = "record", cur[v] = <<m, TRUE>> PROVE FALSE
        OBVIOUS
      <4>1. Holds(v, m)
        BY HoldsWhatItIsAt DEF Holds
      <4> QED
        BY <1>1, <1>2, <2>0, <4>1 DEF Clean
    <3>2. taken[m] \in 0..2
      BY DEF TypeOK
    <3> QED
      <4>1. row[m] # "sent"
        BY <1>2, <2>0 DEF Clean
      <4>2. ~(taken[m] > 0)
        BY <1>2, <3>1, <4>1 DEF Clean
      <4> QED
        BY <3>2, <4>2
  <2>2. taken'[m] = 1 /\ pc'[w] = "record" /\ cur'[w] = <<m, TRUE>>
    BY <1>1, <1>5, <2>0, <2>1 DEF TypeOK
  <2>3. row'[m] = row[m]
    BY <1>1
  <2>4. \A u, v \in Runs : Holds(u, m)' /\ Holds(v, m)' => u = v
    BY <1>2, <1>4 DEF Clean
  <2>5. row'[m] = "sent" => \A v \in Runs : ~Holds(v, m)'
    BY <1>2, <1>4, <2>3 DEF Clean
  <2> QED
    <3>1. \E v \in Runs : pc'[v] = "record" /\ cur'[v] = <<m, TRUE>>
      BY <2>2
    <3>2. taken'[m] <= 1
      BY <2>2
    <3> QED
      BY <2>4, <2>5, <3>1, <3>2 DEF Clean
<1>6. CASE m # cur[w][1]
  <2>1. taken'[m] = taken[m]
    BY <1>1, <1>6 DEF TypeOK
  <2> QED
    BY <1>1, <1>2, <1>4, <2>1, CleanStays DEF TypeOK
<1> QED
  BY <1>5, <1>6

LEMMA RecordSentClean ==
    ASSUME TypeOK, RunsInv, CleanInv, NEW w \in Runs, RecordSent(w)
    PROVE  CleanInv'
<1> SUFFICES ASSUME NEW m \in Mails, m \notin (late \cup lost)'
             PROVE  Clean(m)'
  BY DEF CleanInv
<1>1. /\ pc[w] = "record" /\ pc' = [pc EXCEPT ![w] = "next"]
      /\ row' = [row EXCEPT ![cur[w][1]] = "sent"]
      /\ left' = [left EXCEPT ![w] = @ \ {cur[w]}] /\ cur' = [cur EXCEPT ![w] = NoMail]
      /\ UNCHANGED <<taken, late, lost>>
  BY DEF RecordSent, Settled, Goto, history
<1>2. Clean(m)
  BY <1>1 DEF CleanInv
<1>3. cur[w] = <<cur[w][1], TRUE>> /\ cur[w][1] \in Mails /\ Holds(w, cur[w][1])
  BY <1>1, HoldsWhatItIsAt
<1>4. \A v \in Runs : Holds(v, m)' => Holds(v, m)
  BY <1>1 DEF Holds, Holding, TypeOK
<1>5. CASE m = cur[w][1]
  <2>1. ~Holds(w, m)'
    BY <1>1, <1>3, <1>5 DEF Holds, TypeOK
  <2>2. \A v \in Runs : ~Holds(v, m)'
    BY <1>2, <1>3, <1>4, <1>5, <2>1 DEF Clean
  <2>3. row'[m] = "sent" /\ taken'[m] <= 1
    BY <1>1, <1>2, <1>5 DEF Clean, TypeOK
  <2> QED
    BY <2>2, <2>3 DEF Clean
<1>6. CASE m # cur[w][1]
  <2>1. cur[w] # <<m, TRUE>>
    <3>1. <<m, TRUE>>[1] = m
      OBVIOUS
    <3> QED
      BY <1>6, <3>1
  <2> QED
    BY <1>1, <1>2, <1>4, <1>6, <2>1, CleanStays DEF TypeOK
<1> QED
  BY <1>5, <1>6

\* What a run does with a mail of its own that is no longer clean, or not yet held.
LEMMA OtherClean ==
    ASSUME TypeOK, RunsInv, CleanInv, NEW w \in Runs, NEW to, to # "record",
           pc' = [pc EXCEPT ![w] = to],
           Holding(w) \/ to \notin {"next", "send", "record", "retry"},
           \A v \in Runs : left'[v] \subseteq left[v],
           \A v \in Runs : v # w => cur'[v] = cur[v],
           late \subseteq late', lost \subseteq lost',
           \A m \in Mails : m \notin lost' => taken'[m] = taken[m],
           row' = row,
           pc[w] = "record" => cur[w][1] \in lost'
    PROVE  CleanInv'
<1> SUFFICES ASSUME NEW m \in Mails, m \notin (late \cup lost)'
             PROVE  Clean(m)'
  BY DEF CleanInv
<1>1. Clean(m) /\ taken'[m] = taken[m]
  BY DEF CleanInv
<1>2. \A v \in Runs : Holds(v, m)' => Holds(v, m)
  BY DEF Holds, Holding, TypeOK
<1>3. ASSUME NEW v \in Runs, pc[v] = "record", cur[v] = <<m, TRUE>>
      PROVE  pc'[v] = "record" /\ cur'[v] = cur[v]
  <2>1. cur[v][1] = m
    BY <1>3
  <2>2. v # w
    BY <1>3, <2>1
  <2> QED
    BY <1>3, <2>2 DEF TypeOK
<1> QED
  BY <1>1, <1>2, <1>3, CleanStays

LEMMA CleanStep == TypeOK /\ RunsInv /\ CleanInv /\ [Next]_vars => CleanInv'
<1> SUFFICES ASSUME TypeOK, RunsInv, CleanInv, [Next]_vars PROVE CleanInv'
  OBVIOUS
<1>1. ASSUME UNCHANGED <<run, history>>, \A m \in Mails : row'[m] = "sent" <=> row[m] = "sent"
      PROVE  CleanInv'
  <2>1. \A w \in Runs, m \in Mails : Holds(w, m)' <=> Holds(w, m)
    BY <1>1 DEF Holds, Holding, run
  <2> QED
    BY <1>1, <2>1, CleanStays DEF CleanInv, run, history
<1>2. ASSUME NEW m \in Mails, Enqueue(m) \/ BecomeDue(m)
      PROVE  CleanInv'
  BY <1>1, <1>2 DEF Enqueue, BecomeDue, TypeOK
<1>3. ASSUME NEW w \in Runs,
             Tick(w) \/ AllSettled(w) \/ LogSuccess(w) \/ Stamp(w) \/ LogFailure(w) \/ LogFails(w)
      PROVE  CleanInv'
  BY <1>3, OtherClean DEF Tick, AllSettled, LogSuccess, Stamp, LogFailure, LogFails,
                          Goto, table, history
<1>4. ASSUME NEW w \in Runs, LogStart(w)
      PROVE  CleanInv'
  <2>1. \A v \in Runs : left'[v] \subseteq left[v]
    BY <1>4 DEF LogStart, TypeOK
  <2> QED
    BY <1>4, <2>1, OtherClean DEF LogStart, Goto, table, history
<1>5. ASSUME NEW w \in Runs, NextMail(w)
      PROVE  CleanInv'
  <2>1. \A v \in Runs : v # w => cur'[v] = cur[v]
    BY <1>5 DEF NextMail, TypeOK
  <2> QED
    BY <1>5, <2>1, OtherClean DEF NextMail, Holding, Goto, table, history
<1>6. ASSUME NEW w \in Runs, AcceptUnheard(w)
      PROVE  CleanInv'
  <2>1. \A m \in Mails : m \notin lost' => taken'[m] = taken[m]
    BY <1>6 DEF AcceptUnheard, TakenBy, TypeOK
  <2>2. /\ pc[w] = "send" /\ pc' = [pc EXCEPT ![w] = "retry"]
        /\ late' = late /\ lost \subseteq lost' /\ UNCHANGED <<row, left, cur>>
    BY <1>6 DEF AcceptUnheard, TakenBy, Goto, table
  <2> QED
    BY <2>1, <2>2, OtherClean DEF Holding
<1>7. ASSUME NEW w \in Runs, Refuse(w)
      PROVE  CleanInv'
  BY <1>7, OtherClean DEF Refuse, Holding, Goto, table, history
<1>8. ASSUME NEW w \in Runs, RecordRetry(w)
      PROVE  CleanInv'
  <2>1. /\ \A v \in Runs : left'[v] \subseteq left[v]
        /\ \A v \in Runs : v # w => cur'[v] = cur[v]
    BY <1>8 DEF RecordRetry, Settled, TypeOK
  <2>2. pc[w] = "retry" /\ pc' = [pc EXCEPT ![w] = "next"] /\ UNCHANGED <<row, taken, late, lost>>
    BY <1>8 DEF RecordRetry, Settled, Goto, history
  <2> QED
    BY <2>1, <2>2, OtherClean DEF Holding
<1>9. ASSUME NEW w \in Runs, GoesWrong(w)
      PROVE  CleanInv'
  <2>1. /\ UNCHANGED <<row, left, taken, late>> /\ lost \subseteq lost'
        /\ pc[w] = "record" => cur[w][1] \in lost'
    BY <1>9 DEF GoesWrong, RecordSentFails, RecordRetryFails, RunThrows, LogFails, Crash, table, history
  <2>2. \A v \in Runs : v # w => cur'[v] = cur[v]
    BY <1>9 DEF GoesWrong, RecordSentFails, RecordRetryFails, RunThrows, LogFails, Crash, TypeOK
  <2>3. \/ pc' = [pc EXCEPT ![w] = "retry"] /\ pc[w] = "record"
        \/ pc' = [pc EXCEPT ![w] = "fail"]
        \/ pc' = [pc EXCEPT ![w] = "idle"]
    BY <1>9 DEF GoesWrong, RecordSentFails, RecordRetryFails, RunThrows, LogFails, Crash, Goto
  <2> QED
    BY <2>1, <2>2, <2>3, OtherClean DEF Holding
<1>10. CASE UNCHANGED vars
  BY <1>1, <1>10 DEF vars, table
<1> QED
  BY <1>2, <1>3, <1>4, <1>5, <1>6, <1>7, <1>8, <1>9, <1>10, ClaimClean, AcceptClean, RecordSentClean
     DEF Next, Work

-----------------------------------------------------------------------------
THEOREM Invariance == Spec => []IInv
<1>1. Init => IInv
  BY MailBounds DEF Init, IInv, TypeOK, Steps, Copies, RunsInv, CopiesWhole, AtItsRow, LogOpen,
        AllDone, SuccessLeavesNothing, TakenInv, RecordTaken, WholeAndTaken, CleanInv, Clean,
        Holds, Holding
<1>2. IInv /\ [Next]_vars => IInv'
  BY TypeStep, RunsStep, TakenStep, CleanStep DEF IInv
<1> QED
  BY <1>1, <1>2, PTL DEF Spec

(* Types; a mail that is due is unsent, and only a sent one has no variables. *)
THEOREM TypeCorrect == Spec => []TypeOK
BY Invariance, PTL DEF IInv

(* A mail goes out twice only if its acceptance was lost, or if a run claimed
   it while another still meant to send it: the one price of the lease.      *)
THEOREM OnceTheorem == Spec => []OnceUnlessLateOrLost
<1>1. IInv => OnceUnlessLateOrLost
  <2> SUFFICES ASSUME IInv, NEW m \in Mails, taken[m] > 1, m \notin late \cup lost PROVE FALSE
    BY DEF OnceUnlessLateOrLost
  <2>1. taken[m] <= 1 /\ taken[m] \in 0..2
    BY DEF IInv, CleanInv, Clean, TypeOK
  <2> QED
    BY <2>1
<1> QED
  BY <1>1, Invariance, PTL

(* What goes out is whole, what is recorded as sent was taken, and a success
   in the log left nothing unsettled.                                       *)
THEOREM RecordsTheorem == Spec => []RecordsAreTrue
<1>1. IInv => RecordsAreTrue
  BY DEF IInv, RunsInv, TakenInv, RecordsAreTrue
<1> QED
  BY <1>1, Invariance, PTL
=============================================================================
