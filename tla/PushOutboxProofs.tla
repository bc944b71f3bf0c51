-------------------------- MODULE PushOutboxProofs --------------------------
(***************************************************************************)
(* At most once per device, for any number of notifications, device rows   *)
(* and overlapping runs.                                                   *)
(*                                                                         *)
(* The argument: a run may hand a message to a provider only between the   *)
(* claim of its row and the record of its outcome.  Rows held in between   *)
(* are in no other run's hands and read 'sending', or 'failed' after the   *)
(* sweep; a row whose message was taken is never 'pending' again, because  *)
(* only a refusal brings it back.                                          *)
(***************************************************************************)
EXTENDS PushOutbox, TLAPS

\* A held row was taken out of 'pending', and at worst swept meanwhile.
HeldInFlight == \A r \in Runs : \A x \in Held(r) : status[x] \in {"sending", "failed"}

\* Nobody took the messages of a batch before they are sent.
NotYetTaken == \A r \in Runs : pc[r] = "send" => \A x \in batch[r] : accepted[x] = 0

\* An outcome other than sent or unknown proves that the message was not taken.
RefusedNotTaken == \A r \in Runs : pc[r] = "record" => \A x \in batch[r] :
    outcome[r][x] \in {"retry", "notAttempted", "dead"} => accepted[x] = 0

\* A message that was taken is never owed again.
TakenLeft == \A x \in Deliveries : 
    accepted[x] > 0 => status[x] \in {"sending", "sent", "delivered", "failed"}

\* A row that may yet be sent has an attempt left.
AttemptsLeft == \A x \in Deliveries :
    status[x] \in {"none", "pending", "sending"} => attempts[x] < MaxAttempts

Types == TypeOK /\ AttemptsLeft
Handing == AtMostOnce /\ ChosenOnce /\ HeldInFlight /\ NotYetTaken /\ RefusedNotTaken /\ TakenLeft
IInv == Types /\ Handing

USE DEF Steps, Unfinished, Final, Open, Outcomes

LEMMA InitInvariant == Init => IInv
<1> SUFFICES ASSUME Init PROVE IInv
  OBVIOUS
<1> USE PushAssumption DEF Init
<1>1. TypeOK
  BY DEF TypeOK, NoOutcomes, Deliveries, Horizon
<1>2. AttemptsLeft
  BY DEF AttemptsLeft
<1>3. Handing
  BY DEF Handing, AtMostOnce, ChosenOnce, HeldInFlight, NotYetTaken, RefusedNotTaken,
         TakenLeft, Held
<1> QED
  BY <1>1, <1>2, <1>3 DEF IInv, Types

-----------------------------------------------------------------------------
(* Types and the retry budget. *)

LEMMA TypesPreserved == Types /\ [Next]_vars => Types'
<1> SUFFICES ASSUME Types, [Next]_vars PROVE Types'
  OBVIOUS
<1> USE PushAssumption DEF Types, TypeOK, AttemptsLeft, vars, tables, notes, deliveries, world,
        phones, locals, claim, sends, bounds, Goto, Horizon
<1>1. CASE UNCHANGED vars
  BY <1>1
<1>2. ASSUME NEW n \in Notifications, BecomeDue(n) PROVE Types'
  BY <1>2 DEF BecomeDue
<1>3. ASSUME NEW p \in Phones, Register(p) PROVE Types'
  BY <1>3 DEF Register
<1>4. ASSUME NEW d \in Rows, RemoveDevice(d) PROVE Types'
  BY <1>4 DEF RemoveDevice
<1>5. ASSUME NEW d \in Rows, ChangeEligibility(d) PROVE Types'
  BY <1>5 DEF ChangeEligibility
<1>6. ASSUME NEW n \in Offers, ChangeVisibility(n) PROVE Types'
  BY <1>6 DEF ChangeVisibility
<1>27. ASSUME NEW x \in Deliveries, ReceiptConfirms(x) \/ ReceiptRefuses(x) PROVE Types'
  <2>1. /\ status[x] = "sent"
        /\ \E s \in {"delivered", "failed"} : status' = [status EXCEPT ![x] = s]
        /\ UNCHANGED <<notes, attempts, timer, world, locals, bounds, accepted>>
    BY <1>27 DEF ReceiptConfirms, ReceiptRefuses
  <2> QED
    BY <2>1
<1>28. ASSUME NEW d \in Rows, ReceiptDisables(d) PROVE Types'
  BY <1>28 DEF ReceiptDisables
<1>7. CASE Tick
  BY <1>7 DEF Tick, Less
<1>8. ASSUME NEW r \in Runs, StartRun(r) PROVE Types'
  BY <1>8 DEF StartRun
<1>9. ASSUME NEW r \in Runs, FailStaleSending(r) PROVE Types'
  BY <1>9 DEF FailStaleSending
<1>10. ASSUME NEW r \in Runs, ClaimNotification(r) PROVE Types'
  BY <1>10 DEF ClaimNotification, Claimable, Begin
<1>11. ASSUME NEW r \in Runs, NothingDue(r) PROVE Types'
  BY <1>11 DEF NothingDue
<1>12. ASSUME NEW r \in Runs, CheckOffer(r) PROVE Types'
  BY <1>12 DEF CheckOffer, Begin
<1>13. ASSUME NEW r \in Runs, Cancel(r) PROVE Types'
  <2>1. UNCHANGED <<world, sends, bounds, attempts, timer, accepted, seen>>
    BY <1>13 DEF Cancel
  <2>2. /\ note' \in [Notifications -> {"absent"} \cup Unfinished \cup Final]
        /\ lease' \in [Notifications -> 0..Lease]
    <3>1. CASE UNCHANGED notes
      BY <3>1
    <3>2. CASE \E n : /\ note' = [note EXCEPT ![n] = "cancelled"]
                      /\ lease' = [lease EXCEPT ![n] = 0]
      <4>1. /\ note \in [Notifications -> {"absent"} \cup Unfinished \cup Final]
            /\ lease \in [Notifications -> 0..Lease] /\ 0 \in 0..Lease
        OBVIOUS
      <4> QED
        BY ONLY <3>2, <4>1 DEF Final
    <3> QED
      BY <1>13, <3>1, <3>2 DEF Cancel
  <2>3. /\ status' \in [Deliveries -> {"none", "pending", "sending", "sent", "delivered", "failed",
                                  "skipped"}]
        /\ AttemptsLeft'
    BY <1>13 DEF Cancel
  <2>4. /\ pc' \in [Runs -> Steps]
        /\ cur' \in [Runs -> Notifications \cup {"none"}]
        /\ snap' \in [Runs -> Unfinished \cup {"none"}]
        /\ tried' \in [Runs -> SUBSET Deliveries]
    BY <1>13 DEF Cancel, Leave
  <2> QED
    BY <2>1, <2>2, <2>3, <2>4
<1>14. ASSUME NEW r \in Runs, Materialise(r) PROVE Types'
  BY <1>14 DEF Materialise
<1>15. ASSUME NEW r \in Runs, ClaimBatch(r) PROVE Types'
  BY <1>15 DEF ClaimBatch, DueDeliveries, Of
<1>16. ASSUME NEW r \in Runs, BatchesDone(r) PROVE Types'
  BY <1>16 DEF BatchesDone
<1>17. ASSUME NEW r \in Runs, Send(r) PROVE Types'
  BY <1>17 DEF Send
<1>18. ASSUME NEW r \in Runs, RecordOutcomes(r) PROVE Types'
  BY <1>18 DEF RecordOutcomes, Written, Recorded, Counted
<1>19. ASSUME NEW r \in Runs, SetBackoff(r) PROVE Types'
  BY <1>19 DEF SetBackoff
<1>20. ASSUME NEW r \in Runs, DisableDead(r) PROVE Types'
  BY <1>20 DEF DisableDead
<1>21. ASSUME NEW r \in Runs, RenewLease(r) PROVE Types'
  <2>1. UNCHANGED <<deliveries, world, claim, bounds, note, accepted, retrying>>
    BY <1>21 DEF RenewLease
  <2>2. lease' \in [Notifications -> 0..Lease]
    <3>1. /\ lease' = [lease EXCEPT ![cur[r]] = Lease]
          /\ lease \in [Notifications -> 0..Lease]
          /\ Lease \in 0..Lease
      BY <1>21 DEF RenewLease
    <3> QED
      BY ONLY <3>1
  <2>3. pc' \in [Runs -> Steps] /\ batch' \in [Runs -> SUBSET Deliveries]
    BY <1>21 DEF RenewLease
  <2>4. outcome' \in [Runs -> [Deliveries -> Outcomes \cup {"none"}]]
    BY <1>21 DEF RenewLease, NoOutcomes
  <2> QED
    BY <2>1, <2>2, <2>3, <2>4
<1>22. ASSUME NEW r \in Runs, FinishIfDone(r) PROVE Types'
  <2>1. UNCHANGED <<deliveries, world, claim, sends, bounds, accepted>>
    BY <1>22 DEF FinishIfDone
  <2>2. \A n : Verdict(n) \in Final
    BY DEF Verdict
  <2>3. /\ note' \in [Notifications -> {"absent"} \cup Unfinished \cup Final]
        /\ lease' \in [Notifications -> 0..Lease]
    <3>1. CASE UNCHANGED notes
      BY <3>1
    <3>2. CASE \E n : /\ note' = [note EXCEPT ![n] = Verdict(n)]
                      /\ lease' = [lease EXCEPT ![n] = 0]
      <4>1. /\ note \in [Notifications -> {"absent"} \cup Unfinished \cup Final]
            /\ lease \in [Notifications -> 0..Lease] /\ 0 \in 0..Lease
        OBVIOUS
      <4> QED
        BY ONLY <3>2, <2>2, <4>1
    <3> QED
      BY <1>22, <3>1, <3>2 DEF FinishIfDone
  <2>4. pc' \in [Runs -> Steps]
    BY <1>22 DEF FinishIfDone
  <2> QED
    BY <2>1, <2>3, <2>4
<1>23. ASSUME NEW r \in Runs, ReleaseLease(r) PROVE Types'
  <2>1. UNCHANGED <<deliveries, world, sends, bounds, note, accepted, seen>>
    BY <1>23 DEF ReleaseLease
  <2>2. lease' \in [Notifications -> 0..Lease]
    <3>1. lease' = [lease EXCEPT ![cur[r]] = IF note[cur[r]] \in Unfinished THEN 0 ELSE @]
      BY <1>23 DEF ReleaseLease
    <3>2. lease \in [Notifications -> 0..Lease] /\ 0 \in 0..Lease
      OBVIOUS
    <3> QED
      BY ONLY <3>1, <3>2
  <2>3. /\ pc' \in [Runs -> Steps]
        /\ cur' \in [Runs -> Notifications \cup {"none"}]
        /\ snap' \in [Runs -> Unfinished \cup {"none"}]
        /\ tried' \in [Runs -> SUBSET Deliveries]
    BY <1>23 DEF ReleaseLease, Leave
  <2> QED
    BY <2>1, <2>2, <2>3
<1>24. ASSUME NEW r \in Runs, Crash(r) PROVE Types'
  <2>1. UNCHANGED <<tables, world, accepted, outages>> /\ crashes' \in 0..MaxCrashes
    BY <1>24 DEF Crash
  <2>2. /\ pc' \in [Runs -> Steps]
        /\ cur' \in [Runs -> Notifications \cup {"none"}]
        /\ snap' \in [Runs -> Unfinished \cup {"none"}]
        /\ seen' \in [Runs -> SUBSET Notifications]
    BY <1>24 DEF Crash
  <2>3. /\ tried' \in [Runs -> SUBSET Deliveries]
        /\ batch' \in [Runs -> SUBSET Deliveries]
        /\ retrying' \in [Runs -> SUBSET Deliveries]
    BY <1>24 DEF Crash
  <2>4. outcome' \in [Runs -> [Deliveries -> Outcomes \cup {"none"}]]
    BY <1>24 DEF Crash, NoOutcomes
  <2> QED
    BY <2>1, <2>2, <2>3, <2>4
<1>25. CASE \E r \in Runs : RunStep(r) \/ Crash(r)
  BY <1>25, <1>8, <1>9, <1>10, <1>11, <1>12, <1>13, <1>14, <1>15, <1>16, <1>17, <1>18, <1>19,
     <1>20, <1>21, <1>22, <1>23, <1>24, Zenon DEF RunStep
<1>26. CASE Environment
  BY <1>26, <1>2, <1>3, <1>4, <1>5, <1>6, <1>27, <1>28, Zenon DEF Environment
<1> HIDE DEF Types
<1> QED
  BY <1>1, <1>7, <1>25, <1>26, Zenon DEF Next
-----------------------------------------------------------------------------
(* At most once.  Most steps are quiet: no run comes to hold a row, nothing   *)
(* is sent, and a status only moves on by itself.                             *)

StatusMovesOn == \A x \in Deliveries :
    \/ status'[x] = status[x]
    \/ status[x] = "none" /\ status'[x] = "pending"
    \/ status[x] = "pending" /\ status'[x] = "skipped"
    \/ status[x] = "sending" /\ status'[x] = "failed"
    \/ status[x] = "sent" /\ status'[x] \in {"delivered", "failed"}

KeepsHand(s) ==
    \/ pc'[s] \notin {"send", "record"}
    \/ pc'[s] = pc[s] /\ batch'[s] = batch[s] /\ outcome'[s] = outcome[s]

Quiet == accepted' = accepted /\ StatusMovesOn /\ \A s \in Runs : KeepsHand(s)

LEMMA QuietStep == Types /\ Handing /\ Quiet => Handing'
<1> SUFFICES ASSUME Types, Handing, Quiet PROVE Handing'
  OBVIOUS
<1> USE DEF Types, TypeOK, Handing, Quiet, KeepsHand
<1>1. \A s \in Runs : Held(s)' \subseteq Held(s) /\ Held(s) \subseteq Deliveries
  BY DEF Held
<1>2. AtMostOnce'
  BY DEF AtMostOnce
<1>3. ChosenOnce'
  BY <1>1 DEF ChosenOnce
<1>4. HeldInFlight'
  BY <1>1 DEF HeldInFlight, StatusMovesOn
<1>5. NotYetTaken'
  BY DEF NotYetTaken
<1>6. RefusedNotTaken'
  BY DEF RefusedNotTaken
<1>7. TakenLeft'
  BY DEF TakenLeft, StatusMovesOn
<1> QED
  BY <1>2, <1>3, <1>4, <1>5, <1>6, <1>7

\* claimBatch: the rows it takes were pending, so nobody held them and nobody took
\* their messages.
LEMMA ClaimBatchHands ==
    ASSUME Types, Handing, NEW r \in Runs, ClaimBatch(r)
    PROVE  Handing'
<1> USE DEF Types, TypeOK, Handing
<1>1. PICK B \in SUBSET DueDeliveries(r) :
         /\ status' = [x \in Deliveries |-> IF x \in B /\ Eligible(x[2]) THEN "sending"
                                            ELSE IF x \in B THEN "skipped" ELSE status[x]]
         /\ batch' = [batch EXCEPT ![r] = {x \in B : Eligible(x[2])}]
         /\ pc'[r] \in {"renew", "send"}
         /\ \A s \in Runs : s # r => pc'[s] = pc[s]
  <2>1. PICK B \in SUBSET DueDeliveries(r) \ {{}} :
           LET send == {x \in B : Eligible(x[2])} IN
               /\ status' = [x \in Deliveries |-> IF x \in send THEN "sending"
                                                  ELSE IF x \in B THEN "skipped" ELSE status[x]]
               /\ batch' = [batch EXCEPT ![r] = send]
               /\ pc' = [pc EXCEPT ![r] = IF send = {} THEN "renew" ELSE "send"]
    BY Zenon DEF ClaimBatch, Goto
  <2>2. status' = [x \in Deliveries |-> IF x \in B /\ Eligible(x[2]) THEN "sending"
                                        ELSE IF x \in B THEN "skipped" ELSE status[x]]
    BY <2>1
  <2>3. pc'[r] \in {"renew", "send"} /\ \A s \in Runs : s # r => pc'[s] = pc[s]
    BY <2>1
  <2> QED
    BY <2>1, <2>2, <2>3, Zenon
<1>2. /\ accepted' = accepted /\ outcome' = outcome
      /\ pc[r] = "batch"
      /\ \A x \in B : x \in Deliveries /\ status[x] = "pending"
  BY DEF ClaimBatch, DueDeliveries, Of
<1>3. \A x \in B : accepted[x] = 0 /\ \A s \in Runs : x \notin Held(s)
  <2> SUFFICES ASSUME NEW x \in B PROVE accepted[x] = 0 /\ \A s \in Runs : x \notin Held(s)
    OBVIOUS
  <2>1. x \in Deliveries /\ status[x] = "pending"
    BY <1>2
  <2>2. accepted[x] = 0
    <3>1. accepted[x] \in Nat /\ ~(accepted[x] > 0)
      BY <2>1 DEF TakenLeft
    <3> QED
      BY ONLY <3>1
  <2>3. \A s \in Runs : x \notin Held(s)
    BY <2>1 DEF HeldInFlight
  <2> QED
    BY <2>2, <2>3
<1>4. \A s \in Runs : s # r => Held(s)' = Held(s) /\ batch'[s] = batch[s]
  BY <1>1 DEF Held
<1>5. Held(r)' \subseteq {x \in B : Eligible(x[2])} /\ batch'[r] \subseteq B
  BY <1>1 DEF Held
<1>6. AtMostOnce'
  BY <1>2 DEF AtMostOnce
<1>7. ChosenOnce'
  <2> SUFFICES ASSUME NEW s \in Runs, NEW t \in Runs, s # t
               PROVE  Held(s)' \cap Held(t)' = {}
    BY DEF ChosenOnce
  <2>1. CASE s # r /\ t # r
    BY <2>1, <1>4 DEF ChosenOnce
  <2>2. CASE s = r
    BY <2>2, <1>3, <1>4, <1>5
  <2>3. CASE t = r
    BY <2>3, <1>3, <1>4, <1>5
  <2> QED
    BY <2>1, <2>2, <2>3
<1>8. HeldInFlight'
  <2> SUFFICES ASSUME NEW s \in Runs, NEW x \in Held(s)' PROVE status'[x] \in {"sending", "failed"}
    BY DEF HeldInFlight
  <2>1. CASE s = r
    BY <2>1, <1>1, <1>2, <1>5
  <2>2. CASE s # r
    <3>1. x \in Held(s) /\ x \in Deliveries /\ x \notin B
      BY <2>2, <1>3, <1>4 DEF Held
    <3> QED
      BY <3>1, <1>1 DEF HeldInFlight
  <2> QED
    BY <2>1, <2>2
<1>9. NotYetTaken'
  BY <1>1, <1>2, <1>3, <1>4, <1>5 DEF NotYetTaken
<1>10. RefusedNotTaken'
  BY <1>1, <1>2, <1>4 DEF RefusedNotTaken
<1>11. TakenLeft'
  BY <1>1, <1>2, <1>3 DEF TakenLeft
<1> QED
  BY <1>6, <1>7, <1>8, <1>9, <1>10, <1>11

\* Send: the run alone holds its rows, and nobody took them before.
LEMMA SendHands ==
    ASSUME Types, Handing, NEW r \in Runs, Send(r)
    PROVE  Handing'
<1> USE DEF Types, TypeOK, Handing
<1>1. PICK o \in [batch[r] -> Outcomes], took \in SUBSET batch[r] :
         /\ \A x \in batch[r] : o[x] \in {"retry", "notAttempted", "dead"} => x \notin took
         /\ outcome' = [outcome EXCEPT ![r] =
                           [x \in Deliveries |-> IF x \in batch[r] THEN o[x] ELSE "none"]]
         /\ accepted' = [x \in Deliveries |-> IF x \in took THEN accepted[x] + 1 ELSE accepted[x]]
  BY DEF Send
<1>2. /\ pc[r] = "send" /\ pc' = [pc EXCEPT ![r] = "record"]
      /\ status' = status /\ batch' = batch
      /\ batch[r] \subseteq Deliveries /\ Held(r) = batch[r]
  BY DEF Send, Goto, tables, deliveries, Held
<1>3. \A s \in Runs : Held(s)' = Held(s)
  BY <1>2 DEF Held
<1>4. \A x \in batch[r] : accepted[x] = 0 /\ status[x] \in {"sending", "failed"}
  BY <1>2 DEF NotYetTaken, HeldInFlight
<1>5. \A s \in Runs : s # r => \A x \in Held(s) : x \in Deliveries /\ accepted'[x] = accepted[x]
  BY <1>1, <1>2 DEF ChosenOnce, Held
<1>6. AtMostOnce'
  BY <1>1, <1>4 DEF AtMostOnce
<1>7. ChosenOnce' /\ HeldInFlight'
  BY <1>2, <1>3 DEF ChosenOnce, HeldInFlight
<1>8. NotYetTaken'
  BY <1>2, <1>5 DEF NotYetTaken, Held
<1>9. RefusedNotTaken'
  <2> SUFFICES ASSUME NEW s \in Runs, pc'[s] = "record", NEW x \in batch'[s],
                      outcome'[s][x] \in {"retry", "notAttempted", "dead"}
               PROVE  accepted'[x] = 0
    BY DEF RefusedNotTaken
  <2>1. CASE s = r
    BY <2>1, <1>1, <1>2, <1>4
  <2>2. CASE s # r
    BY <2>2, <1>1, <1>2, <1>5 DEF RefusedNotTaken, Held
  <2> QED
    BY <2>1, <2>2
<1>10. TakenLeft'
  BY <1>1, <1>2, <1>4 DEF TakenLeft
<1> QED
  BY <1>6, <1>7, <1>8, <1>9, <1>10

\* recordOutcomes: only a refused row becomes pending again, and it leaves the run.
LEMMA RecordHands ==
    ASSUME Types, Handing, NEW r \in Runs, RecordOutcomes(r)
    PROVE  Handing'
<1> USE DEF Types, TypeOK, Handing
<1>1. /\ status' = [x \in Deliveries |-> IF x \in Written(r) THEN Recorded(r, x) ELSE status[x]]
      /\ pc[r] = "record" /\ pc' = [pc EXCEPT ![r] = "backoff"]
      /\ accepted' = accepted /\ batch' = batch /\ outcome' = outcome
      /\ batch[r] \subseteq Deliveries /\ Held(r) = batch[r] /\ Written(r) \subseteq batch[r]
  BY DEF RecordOutcomes, Goto, Held, Written
<1>2. Held(r)' = {} /\ \A s \in Runs : s # r => Held(s)' = Held(s)
  BY <1>1 DEF Held
<1>3. \A x \in batch[r] :
         /\ Recorded(r, x) = "pending" => accepted[x] = 0
         /\ Recorded(r, x) \in {"sent", "pending", "failed"}
  BY <1>1 DEF Recorded, RefusedNotTaken
<1>4. AtMostOnce'
  BY <1>1 DEF AtMostOnce
<1>5. ChosenOnce'
  BY <1>2 DEF ChosenOnce
<1>6. HeldInFlight'
  <2> SUFFICES ASSUME NEW s \in Runs, s # r, NEW x \in Held(s)
               PROVE  status'[x] \in {"sending", "failed"}
    BY <1>2 DEF HeldInFlight
  <2>1. x \in Deliveries /\ x \notin Written(r)
    BY <1>1 DEF ChosenOnce, Held
  <2> QED
    BY <2>1, <1>1 DEF HeldInFlight
<1>7. NotYetTaken' /\ RefusedNotTaken'
  BY <1>1 DEF NotYetTaken, RefusedNotTaken
<1>8. TakenLeft'
  BY <1>1, <1>3 DEF TakenLeft
<1> QED
  BY <1>4, <1>5, <1>6, <1>7, <1>8
LEMMA QuietOrHands ==
    ASSUME Types, [Next]_vars
    PROVE  Quiet \/ \E r \in Runs : ClaimBatch(r) \/ Send(r) \/ RecordOutcomes(r)
<1> USE DEF Types, TypeOK, Goto, tables, notes, deliveries, world, phones, locals, claim, sends,
        Quiet, StatusMovesOn, KeepsHand
<1>1. CASE UNCHANGED vars
  <2> QED
    BY <1>1 DEF vars
<1>2. CASE Environment \/ Tick
  <2>1. UNCHANGED <<accepted, pc, batch, outcome>> /\ StatusMovesOn
    BY <1>2 DEF Environment, BecomeDue, Register, RemoveDevice, ChangeEligibility,
                ChangeVisibility, ReceiptConfirms, ReceiptRefuses, ReceiptDisables, Tick
  <2> QED
    BY <2>1
<1>3. ASSUME NEW r \in Runs,
             StartRun(r) \/ ClaimNotification(r) \/ NothingDue(r) \/ CheckOffer(r) \/ BatchesDone(r)
                \/ SetBackoff(r) \/ DisableDead(r) \/ FinishIfDone(r) \/ ReleaseLease(r)
      PROVE  Quiet
  <2>1. UNCHANGED <<status, accepted, batch, outcome>>
    BY <1>3 DEF StartRun, ClaimNotification, NothingDue, CheckOffer, BatchesDone, SetBackoff,
                DisableDead, FinishIfDone, ReleaseLease
  <2>2. \E step \in Steps \ {"send", "record"} : pc' = [pc EXCEPT ![r] = step]
    BY <1>3 DEF StartRun, ClaimNotification, NothingDue, CheckOffer, BatchesDone, SetBackoff,
                DisableDead, FinishIfDone, ReleaseLease, Leave, Begin
  <2> QED
    BY <2>1, <2>2
<1>4. ASSUME NEW r \in Runs, FailStaleSending(r) \/ Cancel(r) \/ Materialise(r)
      PROVE  Quiet
  <2>1. UNCHANGED <<accepted, batch, outcome>>
    BY <1>4 DEF FailStaleSending, Cancel, Materialise
  <2>2. \E step \in {"claim", "batch"} : pc' = [pc EXCEPT ![r] = step]
    BY <1>4 DEF FailStaleSending, Cancel, Materialise, Leave
  <2>3. StatusMovesOn
    BY <1>4 DEF FailStaleSending, Stale, Cancel, Materialise
  <2> QED
    BY <2>1, <2>2, <2>3
<1>5. ASSUME NEW r \in Runs, RenewLease(r) \/ Crash(r)
      PROVE  Quiet
  <2>1. UNCHANGED <<status, accepted>>
    BY <1>5 DEF RenewLease, Crash
  <2>2. /\ \E step \in {"finish", "batch", "idle"} : pc' = [pc EXCEPT ![r] = step]
        /\ batch' = [batch EXCEPT ![r] = {}] /\ outcome' = [outcome EXCEPT ![r] = NoOutcomes]
    BY <1>5 DEF RenewLease, Crash
  <2> QED
    BY <2>1, <2>2
<1> QED
  BY <1>1, <1>2, <1>3, <1>4, <1>5, Zenon DEF Next, RunStep

LEMMA HandingPreserved == Types /\ Handing /\ [Next]_vars => Handing'
  BY QuietOrHands, QuietStep, ClaimBatchHands, SendHands, RecordHands, Zenon

-----------------------------------------------------------------------------
(* Theorems of the specification. *)

THEOREM Invariance == Spec => []IInv
<1>1. Init => IInv
  BY InitInvariant
<1>2. IInv /\ [Next]_vars => IInv'
  BY TypesPreserved, HandingPreserved DEF IInv
<1> QED
  BY <1>1, <1>2, PTL DEF Spec

\* The variables keep the types of the tables' columns and CHECKs.
THEOREM TypeCorrect == Spec => []TypeOK
<1>1. IInv => TypeOK
  BY DEF IInv, Types
<1> QED
  BY <1>1, Invariance, PTL

\* At most once per device: no provider takes the message of a delivery twice.
THEOREM AtMostOnceTheorem == Spec => []AtMostOnce
<1>1. IInv => AtMostOnce
  BY DEF IInv, Handing
<1> QED
  BY <1>1, Invariance, PTL

\* claimBatch gives a row to one run at a time.
THEOREM ChosenOnceTheorem == Spec => []ChosenOnce
<1>1. IInv => ChosenOnce
  BY DEF IInv, Handing
<1> QED
  BY <1>1, Invariance, PTL

\* The attempts a CHECK bounds never run out while a delivery may be sent.
THEOREM RetryBudgetTheorem == Spec => []RetryBudget
<1>1. IInv => RetryBudget
  BY DEF IInv, Types, AttemptsLeft, RetryBudget
<1> QED
  BY <1>1, Invariance, PTL
-----------------------------------------------------------------------------
(* Finality, and the abstract promise. *)

\* The final guard of migration 028 never has to refuse: no statement of a run,
\* however late, changes the status of a finished notification.
THEOREM FinalStaysTheorem == Spec => FinalStays
<1>1. TypeOK /\ [Next]_vars =>
        \A n \in Notifications : note[n] \in Final => note'[n] = note[n]
  <2> SUFFICES ASSUME TypeOK, [Next]_vars, NEW n \in Notifications, note[n] \in Final
               PROVE  note'[n] = note[n]
    OBVIOUS
  <2> USE DEF TypeOK, tables, notes
  <2>1. ASSUME NEW m \in Notifications, BecomeDue(m) PROVE note'[n] = note[n]
    BY <2>1 DEF BecomeDue
  <2>2. ASSUME NEW r \in Runs, Cancel(r) PROVE note'[n] = note[n]
    BY <2>2 DEF Cancel
  <2>3. ASSUME NEW r \in Runs, Materialise(r) PROVE note'[n] = note[n]
    BY <2>3 DEF Materialise
  <2>4. ASSUME NEW r \in Runs, FinishIfDone(r) PROVE note'[n] = note[n]
    BY <2>4 DEF FinishIfDone
  <2>5. CASE UNCHANGED note
    BY <2>5
  <2>6. ASSUME Environment \/ Tick PROVE note'[n] = note[n]
    BY <2>6, <2>1 DEF Environment, Register, RemoveDevice, ChangeEligibility, ChangeVisibility,
                      ReceiptConfirms, ReceiptRefuses, ReceiptDisables, Tick
  <2>7. ASSUME NEW r \in Runs, RunStep(r) \/ Crash(r) PROVE note'[n] = note[n]
    <3>1. \/ Cancel(r) \/ Materialise(r) \/ FinishIfDone(r)
          \/ UNCHANGED note
      BY <2>7 DEF RunStep, StartRun, FailStaleSending, ClaimNotification, NothingDue, CheckOffer,
                  ClaimBatch, BatchesDone, Send, RecordOutcomes, SetBackoff, DisableDead,
                  RenewLease, ReleaseLease, Crash
    <3> QED
      BY <3>1, <2>2, <2>3, <2>4, <2>5, Zenon
  <2> QED
    BY <2>5, <2>6, <2>7, Zenon DEF Next, vars
<1> QED
  BY <1>1, TypeCorrect, PTL DEF Spec, FinalStays

LEMMA QuietRefines == Types /\ Handing /\ Quiet => Promise!Next
  BY DEF Types, Handing, Quiet, StatusMovesOn, Stage, Promise!Next, Promise!Move, Promise!Same,
         Promise!Owe, Promise!Drop, Promise!Settle, Promise!Stages

LEMMA ClaimBatchRefines ==
    ASSUME Types, NEW r \in Runs, ClaimBatch(r)
    PROVE  Promise!Next
<1>1. /\ accepted' = accepted
      /\ \A x \in Deliveries : \/ status'[x] = status[x]
                               \/ status[x] = "pending" /\ status'[x] \in {"sending", "skipped"}
  BY DEF Types, TypeOK, ClaimBatch, DueDeliveries, Of
<1> QED
  BY <1>1 DEF Stage, Promise!Next, Promise!Move, Promise!Same, Promise!Hand, Promise!Drop,
              Promise!Stages

LEMMA SendRefines ==
    ASSUME Types, Handing, NEW r \in Runs, Send(r)
    PROVE  Promise!Next
<1>1. /\ status' = status
      /\ \A x \in Deliveries :
            \/ accepted'[x] = accepted[x]
            \/ accepted'[x] = accepted[x] + 1 /\ x \in batch[r]
  BY DEF Types, TypeOK, Send, tables, deliveries
<1>2. \A x \in batch[r] : accepted[x] = 0 /\ status[x] \in {"sending", "failed"}
  BY DEF Send, Handing, NotYetTaken, HeldInFlight, Held
<1> QED
  BY <1>1, <1>2 DEF Stage, Promise!Next, Promise!Move, Promise!Same, Promise!Reach

LEMMA RecordRefines ==
    ASSUME Types, Handing, NEW r \in Runs, RecordOutcomes(r)
    PROVE  Promise!Next
<1>1. /\ accepted' = accepted
      /\ \A x \in Deliveries :
            \/ status'[x] = status[x]
            \/ /\ status[x] = "sending" /\ status'[x] = Recorded(r, x)
               /\ x \in batch[r]
  BY DEF Types, TypeOK, RecordOutcomes, Written
<1>2. \A x \in batch[r] : /\ Recorded(r, x) = "pending" => accepted[x] = 0
                          /\ Recorded(r, x) \in {"sent", "pending", "failed"}
  BY DEF RecordOutcomes, Recorded, Handing, RefusedNotTaken
<1> QED
  BY <1>1, <1>2 DEF Stage, Promise!Next, Promise!Move, Promise!Same, Promise!TakeBack,
                    Promise!Settle, Promise!Stages

\* Every delivery goes through the stages of PushDelivery: the outbox implements it.
THEOREM Refinement == Spec => KeepsPromise
<1>1. Init => Promise!Init
  BY DEF Init, Promise!Init, Stage
<1>2. IInv /\ [Next]_vars => Promise!Next
  BY QuietOrHands, QuietRefines, ClaimBatchRefines, SendRefines, RecordRefines, Zenon DEF IInv
<1> QED
  BY <1>1, <1>2, Invariance, PTL DEF Spec, KeepsPromise, Promise!Spec

\* A delivery has one attempt at a time, counted, and none once a provider took it
\* (claimBatch, recordOutcomes, failStaleSending).
THEOREM OneAttemptTheorem == Spec => []OneAttemptAtATime
BY AtMostOnceTheorem, ChosenOnceTheorem, RetryBudgetTheorem, PTL DEF OneAttemptAtATime

\* The outbox implements the abstract promise, and no step of it changes a final
\* status (finishIfDone, cancel, the guard of migration 028).
THEOREM PromiseTheorem == Spec => PromiseAndVerdictStand
BY Refinement, FinalStaysTheorem DEF PromiseAndVerdictStand
-----------------------------------------------------------------------------
(* While no run outlives its lease.  The lease then gives a notification to   *)
(* one run, which alone decides what becomes of it: its audience is written   *)
(* once, and its verdict finds nothing that may still be sent.                *)

\* A run is at a notification exactly between its claim and its release.
AtWork(r) == pc[r] \notin {"idle", "sweep", "claim"}
AtItsNotification == \A r \in Runs : AtWork(r) <=> cur[r] # "none"

\* What a run works on is unfinished and leased, until the run itself finishes it.
Owned == \A r \in Runs : cur[r] # "none" =>
    \/ note[cur[r]] \in Unfinished /\ lease[cur[r]] > 0
    \/ note[cur[r]] \in Final /\ pc[r] = "release"

Ownership == OneWorker /\ AtItsNotification /\ Owned

\* A notification claimed while queued stays queued until its audience is written.
StillQueued == \A r \in Runs :
    /\ pc[r] = "check" /\ snap[r] = "queued" => note[cur[r]] = "queued"
    /\ pc[r] = "materialise" => note[cur[r]] = "queued"

\* Its audience is written once, in the step that leaves 'queued'.
AudienceOnce == \A x \in Deliveries : note[x[1]] \in {"absent", "queued"} => status[x] = "none"

\* Register is an upsert on the token.
OneRowPerPhone == \A d, e \in Rows :
    PhoneOf[d] = PhoneOf[e] /\ device[d] \in {"on", "off"} /\ device[e] \in {"on", "off"} => d = e

\* So an audience has a phone once.
OneDeliveryPerPhone == \A x, y \in Deliveries :
    x[1] = y[1] /\ PhoneOf[x[2]] = PhoneOf[y[2]] /\ status[x] # "none" /\ status[y] # "none" => x = y

Audience == StillQueued /\ AudienceOnce /\ OneRowPerPhone /\ OneDeliveryPerPhone

\* What a run holds belongs to the notification it works on.
HoldsItsOwn == \A r \in Runs : \A x \in Held(r) : x[1] = cur[r]

Settling == HoldsItsOwn /\ FinalMeansSettled

PunctualInv == Ownership /\ Audience /\ Settling

LEMMA PunctualIsNext == PunctualNext => Next
BY Zenon DEF PunctualNext, PunctualTick, Next

LEMMA InitPunctual == Init => PunctualInv
<1> SUFFICES ASSUME Init PROVE PunctualInv
  OBVIOUS
<1> USE PushAssumption DEF Init
<1>1. Ownership
  BY DEF Ownership, OneWorker, AtItsNotification, Owned, AtWork
<1>2. Audience
  BY DEF Audience, StillQueued, AudienceOnce, OneRowPerPhone, OneDeliveryPerPhone, Deliveries
<1>3. Settling
  BY DEF Settling, HoldsItsOwn, FinalMeansSettled, Held, Deliveries
<1> QED
  BY <1>1, <1>2, <1>3 DEF PunctualInv

(* Who works on what.                                                         *)

\* Nothing that decides who owns a notification changes.
SameOwners(r) ==
    /\ UNCHANGED <<note, lease, cur>>
    /\ \E step \in Steps : /\ pc' = [pc EXCEPT ![r] = step]
                           /\ step \in {"idle", "sweep", "claim"} <=> ~AtWork(r)
                           /\ pc[r] # "release"

LEMMA SameOwnersKeep ==
    ASSUME TypeOK, Ownership, NEW r \in Runs, SameOwners(r)
    PROVE  Ownership'
<1> USE DEF TypeOK, Ownership, SameOwners
<1>1. OneWorker'
  BY DEF OneWorker
<1>2. AtItsNotification'
  BY DEF AtItsNotification, AtWork
<1>3. Owned'
  BY DEF Owned
<1> QED
  BY <1>1, <1>2, <1>3

LEMMA SameOwnersSteps ==
    ASSUME TypeOK, NEW r \in Runs,
           \/ StartRun(r) \/ FailStaleSending(r) \/ NothingDue(r) \/ CheckOffer(r)
           \/ ClaimBatch(r) \/ BatchesDone(r) \/ Send(r) \/ RecordOutcomes(r)
           \/ SetBackoff(r) \/ DisableDead(r)
    PROVE  SameOwners(r)
<1> USE DEF SameOwners, AtWork, TypeOK, Goto, tables, notes, claim, Begin
<1>1. CASE StartRun(r) \/ FailStaleSending(r) \/ NothingDue(r)
  BY <1>1 DEF StartRun, FailStaleSending, NothingDue
<1>2. CASE CheckOffer(r) \/ ClaimBatch(r) \/ BatchesDone(r)
  BY <1>2 DEF CheckOffer, ClaimBatch, BatchesDone
<1>3. CASE Send(r) \/ RecordOutcomes(r) \/ SetBackoff(r) \/ DisableDead(r)
  BY <1>3 DEF Send, RecordOutcomes, SetBackoff, DisableDead
<1> QED
  BY <1>1, <1>2, <1>3, Zenon

\* A run that leaves its notification, or never had one.
LEMMA LeavingKeeps ==
    ASSUME TypeOK, Ownership, NEW r \in Runs, cur' = [cur EXCEPT ![r] = "none"],
           \E step \in {"idle", "claim"} : pc' = [pc EXCEPT ![r] = step],
           \A n \in Notifications : n # cur[r] => note'[n] = note[n] /\ lease'[n] = lease[n]
    PROVE  Ownership'
<1> USE DEF TypeOK, Ownership
<1>1. OneWorker'
  BY DEF OneWorker
<1>2. AtItsNotification'
  BY DEF AtItsNotification, AtWork
<1>3. Owned'
  BY DEF Owned, OneWorker
<1> QED
  BY <1>1, <1>2, <1>3

LEMMA OwnershipPreserved == TypeOK /\ Ownership /\ [PunctualNext]_vars => Ownership'
<1> SUFFICES ASSUME TypeOK, Ownership, [PunctualNext]_vars PROVE Ownership'
  OBVIOUS
<1> USE PushAssumption DEF TypeOK, Ownership, Goto
<1>1. CASE UNCHANGED <<note, lease, cur, pc>>
  BY <1>1 DEF OneWorker, AtItsNotification, Owned, AtWork
<1>2. ASSUME NEW n \in Notifications, BecomeDue(n) PROVE Ownership'
  <2>1. /\ note[n] = "absent" /\ note' = [note EXCEPT ![n] = "queued"]
        /\ UNCHANGED <<lease, cur, pc>>
    BY <1>2 DEF BecomeDue, locals, claim
  <2> QED
    BY <2>1 DEF OneWorker, AtItsNotification, Owned, AtWork
<1>3. CASE PunctualTick
  <2>1. UNCHANGED <<note, cur, pc>> /\ OnTime
    BY <1>3 DEF PunctualTick, Tick, locals, claim
  <2> QED
    BY <2>1 DEF OneWorker, AtItsNotification, Owned, AtWork, OnTime
<1>4. ASSUME NEW r \in Runs, ClaimNotification(r) PROVE Ownership'
  <2>1. PICK n \in Notifications :
           /\ Claimable(r, n)
           /\ lease' = [lease EXCEPT ![n] = Lease]
           /\ cur' = [cur EXCEPT ![r] = n]
           /\ \E step \in {"check", "materialise", "batch"} : pc' = [pc EXCEPT ![r] = step]
    BY <1>4 DEF ClaimNotification, Begin
  <2>2. pc[r] = "claim" /\ note' = note
    BY <1>4 DEF ClaimNotification
  <2>3. ASSUME NEW s \in Runs, cur[s] = n PROVE FALSE
    <3>1. note[n] \in Unfinished /\ ~(lease[n] > 0) /\ n # "none"
      BY <2>1 DEF Claimable
    <3> QED
      BY <2>3, <3>1 DEF Owned
  <2>4. OneWorker'
    BY <2>1, <2>3 DEF OneWorker
  <2>5. AtItsNotification'
    BY <2>1, <2>2 DEF AtItsNotification, AtWork
  <2>6. Owned'
    BY <2>1, <2>2, <2>3 DEF Owned, Claimable
  <2> QED
    BY <2>4, <2>5, <2>6
<1>5. ASSUME NEW r \in Runs, Cancel(r) PROVE Ownership'
  BY <1>5, LeavingKeeps DEF Cancel, Leave, notes
<1>6. ASSUME NEW r \in Runs, ReleaseLease(r) PROVE Ownership'
  BY <1>6, LeavingKeeps DEF ReleaseLease, Leave
<1>7. ASSUME NEW r \in Runs, Crash(r) PROVE Ownership'
  BY <1>7, LeavingKeeps DEF Crash, tables, notes
<1>8. ASSUME NEW r \in Runs, Materialise(r) PROVE Ownership'
  <2>1. /\ pc[r] = "materialise" /\ pc' = [pc EXCEPT ![r] = "batch"]
        /\ note' = [note EXCEPT ![cur[r]] = IF @ = "queued" THEN "sending" ELSE @]
        /\ UNCHANGED <<lease, cur>>
    BY <1>8 DEF Materialise, claim
  <2>2. \A n \in Notifications : note[n] \in Unfinished => note'[n] \in Unfinished
    BY <2>1
  <2> QED
    BY <2>1, <2>2 DEF OneWorker, AtItsNotification, Owned, AtWork
<1>9. ASSUME NEW r \in Runs, RenewLease(r) PROVE Ownership'
  <2>1. /\ pc[r] = "renew" /\ \E step \in {"finish", "batch"} : pc' = [pc EXCEPT ![r] = step]
        /\ lease' = [lease EXCEPT ![cur[r]] = Lease]
        /\ UNCHANGED <<note, cur>>
    BY <1>9 DEF RenewLease, claim
  <2>2. \A n \in Notifications : lease[n] > 0 => lease'[n] > 0
    BY <2>1
  <2> QED
    BY <2>1, <2>2 DEF OneWorker, AtItsNotification, Owned, AtWork
<1>10. ASSUME NEW r \in Runs, FinishIfDone(r) PROVE Ownership'
  <2>1. pc[r] = "finish" /\ pc' = [pc EXCEPT ![r] = "release"] /\ cur' = cur
    BY <1>10 DEF FinishIfDone, claim
  <2>2. \A n \in Notifications :
           \/ note'[n] = note[n] /\ lease'[n] = lease[n]
           \/ n = cur[r] /\ note'[n] \in Final
    BY <1>10 DEF FinishIfDone, Verdict, notes
  <2>3. OneWorker' /\ AtItsNotification'
    BY <2>1 DEF OneWorker, AtItsNotification, AtWork
  <2>4. Owned'
    BY <2>1, <2>2 DEF Owned, OneWorker
  <2> QED
    BY <2>3, <2>4
<1>11. ASSUME NEW r \in Runs, RunStep(r) \/ Crash(r) PROVE Ownership'
  BY <1>11, <1>4, <1>5, <1>6, <1>7, <1>8, <1>9, <1>10, SameOwnersSteps, SameOwnersKeep, Zenon DEF RunStep
<1>12. CASE Environment
  <2>1. (\E n \in Notifications : BecomeDue(n)) \/ UNCHANGED <<note, lease, cur, pc>>
    BY <1>12 DEF Environment, Register, RemoveDevice, ChangeEligibility, ChangeVisibility,
                 ReceiptConfirms, ReceiptRefuses, ReceiptDisables, tables, notes, locals, claim
  <2> QED
    BY <2>1, <1>1, <1>2
<1>13. CASE UNCHANGED vars
  BY <1>13, <1>1 DEF vars, tables, notes, locals, claim
<1> QED
  BY <1>3, <1>11, <1>12, <1>13, Zenon DEF PunctualNext

(* What its audience is.                                                      *)

LEMMA AudienceFrame ==
    ASSUME TypeOK, Audience, StillQueued', device' = device,
           \A x \in Deliveries : status'[x] = "none" <=> status[x] = "none",
           \A n \in Notifications : note'[n] \in {"absent", "queued"} => note[n] \in {"absent", "queued"}
    PROVE  Audience'
<1>1. AudienceOnce'
  BY DEF Audience, AudienceOnce, Deliveries
<1>2. OneRowPerPhone' /\ OneDeliveryPerPhone'
  BY DEF Audience, OneRowPerPhone, OneDeliveryPerPhone
<1> QED
  BY <1>1, <1>2 DEF Audience

LEMMA StillQueuedFrame ==
    ASSUME TypeOK, Ownership, StillQueued, NEW r \in Runs,
           pc'[r] \notin {"check", "materialise"},
           \A s \in Runs : s # r => pc'[s] = pc[s] /\ cur'[s] = cur[s] /\ snap'[s] = snap[s],
           \A n \in Notifications : note'[n] = note[n] \/ n = cur[r]
    PROVE  StillQueued'
<1> SUFFICES ASSUME NEW s \in Runs, s # r, pc[s] \in {"check", "materialise"}
             PROVE  cur[s] \in Notifications /\ note'[cur[s]] = note[cur[s]]
  BY DEF StillQueued
<1>1. cur[s] # "none" /\ cur[s] \in Notifications
  BY DEF Ownership, AtItsNotification, AtWork, TypeOK
<1> QED
  BY <1>1 DEF Ownership, OneWorker

\* Steps of a run that bring it to neither check nor materialise, and write no audience.
LEMMA LaterStepsAudience ==
    ASSUME TypeOK, Ownership, Audience, NEW r \in Runs,
           \/ StartRun(r) \/ FailStaleSending(r) \/ NothingDue(r) \/ Cancel(r)
           \/ ClaimBatch(r) \/ BatchesDone(r) \/ Send(r) \/ RecordOutcomes(r) \/ SetBackoff(r)
           \/ DisableDead(r) \/ RenewLease(r) \/ FinishIfDone(r) \/ ReleaseLease(r) \/ Crash(r)
    PROVE  Audience'
<1> USE DEF TypeOK, Goto, tables, notes, deliveries, world, phones, claim
<1>1. device' = device
  BY DEF StartRun, FailStaleSending, NothingDue, Cancel, ClaimBatch, BatchesDone, Send,
         RecordOutcomes, SetBackoff, DisableDead, RenewLease, FinishIfDone, ReleaseLease, Crash
<1>2. /\ pc'[r] \notin {"check", "materialise"}
      /\ \A s \in Runs : s # r => pc'[s] = pc[s] /\ cur'[s] = cur[s] /\ snap'[s] = snap[s]
  <2>1. CASE StartRun(r) \/ FailStaleSending(r) \/ NothingDue(r) \/ Cancel(r) \/ Crash(r)
    BY <2>1 DEF StartRun, FailStaleSending, NothingDue, Cancel, Crash, Leave
  <2>2. CASE ClaimBatch(r) \/ BatchesDone(r) \/ Send(r) \/ RecordOutcomes(r) \/ SetBackoff(r)
    BY <2>2 DEF ClaimBatch, BatchesDone, Send, RecordOutcomes, SetBackoff
  <2>3. CASE DisableDead(r) \/ RenewLease(r) \/ FinishIfDone(r) \/ ReleaseLease(r)
    BY <2>3 DEF DisableDead, RenewLease, FinishIfDone, ReleaseLease, Leave
  <2> QED
    BY <2>1, <2>2, <2>3, Zenon
<1>3. \A n \in Notifications :
        \/ note'[n] = note[n]
        \/ n = cur[r] /\ note'[n] \in Final
  <2>1. CASE Cancel(r)
    BY <2>1 DEF Cancel
  <2>2. CASE FinishIfDone(r)
    BY <2>2 DEF FinishIfDone, Verdict
  <2>3. CASE UNCHANGED note
    BY <2>3
  <2> QED
    BY <2>1, <2>2, <2>3 DEF StartRun, FailStaleSending, NothingDue, ClaimBatch, BatchesDone, Send,
         RecordOutcomes, SetBackoff, DisableDead, RenewLease, ReleaseLease, Crash
<1>4. \A x \in Deliveries : status'[x] = "none" <=> status[x] = "none"
  <2>1. CASE UNCHANGED status
    BY <2>1
  <2>2. CASE FailStaleSending(r) \/ Cancel(r)
    BY <2>2 DEF FailStaleSending, Stale, Cancel
  <2>3. CASE ClaimBatch(r)
    BY <2>3 DEF ClaimBatch, DueDeliveries, Of
  <2>4. CASE RecordOutcomes(r)
    BY <2>4 DEF RecordOutcomes, Written, Recorded
  <2> QED
    BY <2>1, <2>2, <2>3, <2>4 DEF StartRun, NothingDue, BatchesDone, Send, SetBackoff, DisableDead,
         RenewLease, FinishIfDone, ReleaseLease, Crash
<1>5. StillQueued'
  BY <1>2, <1>3, StillQueuedFrame DEF Audience
<1> QED
  BY <1>1, <1>3, <1>4, <1>5, AudienceFrame

LEMMA MaterialiseAudience ==
    ASSUME TypeOK, Ownership, Audience, NEW r \in Runs, Materialise(r)
    PROVE  Audience'
<1> USE DEF TypeOK, Audience
<1> DEFINE n == cur[r]
<1>1. /\ pc[r] = "materialise" /\ pc' = [pc EXCEPT ![r] = "batch"]
      /\ status' = [x \in Deliveries |-> IF x[1] = n /\ status[x] = "none" /\ Eligible(x[2])
                                         THEN "pending" ELSE status[x]]
      /\ note' = [note EXCEPT ![n] = IF @ = "queued" THEN "sending" ELSE @]
      /\ UNCHANGED <<cur, snap, device>>
  BY DEF Materialise, Goto, claim, world, phones
<1>2. n \in Notifications /\ note[n] = "queued"
  BY <1>1 DEF StillQueued, Ownership, AtItsNotification, AtWork
<1>3. StillQueued'
  BY <1>1, StillQueuedFrame
<1>4. AudienceOnce'
  BY <1>1, <1>2 DEF AudienceOnce, Deliveries
<1>5. OneRowPerPhone'
  BY <1>1 DEF OneRowPerPhone
<1>6. OneDeliveryPerPhone'
  <2> SUFFICES ASSUME NEW x \in Deliveries, NEW y \in Deliveries,
                      x[1] = y[1], PhoneOf[x[2]] = PhoneOf[y[2]],
                      status'[x] # "none", status'[y] # "none"
               PROVE  x = y
    BY DEF OneDeliveryPerPhone
  <2>1. CASE x[1] = n
    <3>1. status[x] = "none" /\ status[y] = "none"
      BY <1>2, <2>1 DEF AudienceOnce
    <3>2. Eligible(x[2]) /\ Eligible(y[2]) /\ x[2] \in Rows /\ y[2] \in Rows
      BY <1>1, <3>1 DEF Deliveries
    <3>3. x[2] = y[2]
      BY <3>2 DEF Eligible, OneRowPerPhone
    <3>4. x = <<x[1], x[2]>> /\ y = <<y[1], y[2]>>
      BY DEF Deliveries
    <3> QED
      BY <3>3, <3>4, Zenon
  <2>2. CASE x[1] # n
    BY <1>1, <2>2 DEF OneDeliveryPerPhone
  <2> QED
    BY <2>1, <2>2
<1> QED
  BY <1>3, <1>4, <1>5, <1>6

LEMMA AudiencePreserved == TypeOK /\ Ownership /\ Audience /\ [PunctualNext]_vars => Audience'
<1> SUFFICES ASSUME TypeOK, Ownership, Audience, [PunctualNext]_vars PROVE Audience'
  OBVIOUS
<1> USE DEF TypeOK, Goto, tables, notes, deliveries, world, phones, claim, locals
<1>1. CASE UNCHANGED <<note, status, device, pc, cur, snap>>
  BY <1>1 DEF Audience, StillQueued, AudienceOnce, OneRowPerPhone, OneDeliveryPerPhone
<1>2. ASSUME NEW n \in Notifications, BecomeDue(n) PROVE Audience'
  <2>1. /\ note[n] = "absent" /\ note' = [note EXCEPT ![n] = "queued"]
        /\ UNCHANGED <<status, device, pc, cur, snap>>
    BY <1>2 DEF BecomeDue
  <2>2. StillQueued'
    BY <2>1 DEF Audience, StillQueued, Ownership, AtItsNotification, AtWork
  <2> QED
    BY <2>1, <2>2, AudienceFrame
<1>3. ASSUME NEW x \in Deliveries, ReceiptConfirms(x) \/ ReceiptRefuses(x) PROVE Audience'
  <2>1. /\ status[x] = "sent"
        /\ \E state \in {"delivered", "failed"} : status' = [status EXCEPT ![x] = state]
        /\ UNCHANGED <<note, device, pc, cur, snap>>
    BY <1>3 DEF ReceiptConfirms, ReceiptRefuses
  <2>2. StillQueued'
    BY <2>1 DEF Audience, StillQueued
  <2> QED
    BY <2>1, <2>2, AudienceFrame
<1>4. ASSUME UNCHANGED <<note, status, pc, cur, snap>>, OneRowPerPhone' PROVE Audience'
  BY <1>4 DEF Audience, StillQueued, AudienceOnce, OneDeliveryPerPhone
<1>5. ASSUME NEW p \in Phones, Register(p) PROVE Audience'
  <2>1. UNCHANGED <<note, status, pc, cur, snap>>
    BY <1>5 DEF Register
  <2>2. PICK d \in Rows :
           /\ PhoneOf[d] = p
           /\ device[d] \notin {"on", "off"} =>
                \A e \in Rows : PhoneOf[e] = p => device[e] \notin {"on", "off"}
           /\ \E state \in {"on", "off"} : device' = [device EXCEPT ![d] = state]
    BY <1>5 DEF Register
  <2>3. OneRowPerPhone'
    BY <2>2 DEF Audience, OneRowPerPhone
  <2> QED
    BY <1>4, <2>1, <2>3
<1>6. ASSUME NEW d \in Rows, RemoveDevice(d) \/ ChangeEligibility(d) PROVE Audience'
  <2>1. /\ UNCHANGED <<note, status, pc, cur, snap>>
        /\ device[d] \in {"on", "off"}
        /\ \E state \in {"on", "off", "deleted"} : device' = [device EXCEPT ![d] = state]
    BY <1>6 DEF RemoveDevice, ChangeEligibility
  <2>2. OneRowPerPhone'
    BY <2>1 DEF Audience, OneRowPerPhone
  <2> QED
    BY <1>4, <2>1, <2>2
<1>7. CASE Environment
  <2>1. ASSUME NEW n \in Offers, ChangeVisibility(n) PROVE Audience'
    BY <2>1, <1>1 DEF ChangeVisibility
  <2>2. ASSUME NEW d \in Rows, ReceiptDisables(d) PROVE Audience'
    BY <2>2, <1>1 DEF ReceiptDisables
  <2> QED
    BY <1>7, <1>2, <1>3, <1>5, <1>6, <2>1, <2>2, Zenon DEF Environment
<1>8. CASE PunctualTick
  BY <1>8, <1>1 DEF PunctualTick, Tick
<1>9. ASSUME NEW r \in Runs, ClaimNotification(r) PROVE Audience'
  <2>1. PICK n \in Notifications :
           /\ cur' = [cur EXCEPT ![r] = n]
           /\ snap' = [snap EXCEPT ![r] = note[n]]
           /\ \/ pc' = [pc EXCEPT ![r] = "check"]
              \/ pc' = [pc EXCEPT ![r] = Begin(note[n])]
    BY <1>9 DEF ClaimNotification
  <2>2. UNCHANGED <<note, status, device>>
    BY <1>9 DEF ClaimNotification
  <2>3. StillQueued'
    BY <2>1, <2>2 DEF Audience, StillQueued, Begin
  <2> QED
    BY <2>2, <2>3, AudienceFrame
<1>10. ASSUME NEW r \in Runs, CheckOffer(r) PROVE Audience'
  <2>1. /\ pc[r] = "check" /\ UNCHANGED <<note, status, device, cur, snap>>
        /\ pc' = [pc EXCEPT ![r] = IF cur[r] \in visible THEN Begin(snap[r]) ELSE "cancel"]
    BY <1>10 DEF CheckOffer
  <2>2. StillQueued'
    BY <2>1 DEF Audience, StillQueued, Begin
  <2> QED
    BY <2>1, <2>2, AudienceFrame
<1>11. ASSUME NEW r \in Runs, RunStep(r) \/ Crash(r) PROVE Audience'
  BY <1>9, <1>10, <1>11, LaterStepsAudience, MaterialiseAudience, Zenon DEF RunStep
<1>12. CASE UNCHANGED vars
  BY <1>12, <1>1 DEF vars
<1> QED
  BY <1>7, <1>8, <1>11, <1>12, Zenon DEF PunctualNext

(* What becomes of it.                                                        *)

\* Who holds which rows is quiet, or a batch is claimed.
LEMMA HoldsItsOwnPreserved ==
    ASSUME TypeOK, Ownership, HoldsItsOwn, [PunctualNext]_vars
    PROVE  HoldsItsOwn'
<1> USE DEF TypeOK, HoldsItsOwn, Held, Goto, locals, claim, sends
<1>1. ASSUME NEW r \in Runs, ClaimBatch(r) PROVE HoldsItsOwn'
  <2>1. \E B \in SUBSET DueDeliveries(r) :
           batch' = [batch EXCEPT ![r] = {x \in B : Eligible(x[2])}]
    BY <1>1 DEF ClaimBatch
  <2>2. cur' = cur /\ \A s \in Runs : s # r => pc'[s] = pc[s]
    BY <1>1 DEF ClaimBatch
  <2> QED
    BY <2>1, <2>2 DEF DueDeliveries, Of
<1>2. CASE \A s \in Runs : \/ pc'[s] \notin {"send", "record"}
                           \/ /\ pc[s] \in {"send", "record"}
                              /\ batch'[s] = batch[s] /\ cur'[s] = cur[s]
  BY <1>2
<1>3. ASSUME NEW r \in Runs, Send(r) PROVE HoldsItsOwn'
  BY <1>2, <1>3 DEF Send
<1>4. ASSUME NEW r \in Runs, RecordOutcomes(r) PROVE HoldsItsOwn'
  BY <1>2, <1>4 DEF RecordOutcomes
<1>5. ASSUME NEW r \in Runs,
             \/ StartRun(r) \/ FailStaleSending(r) \/ ClaimNotification(r) \/ NothingDue(r)
             \/ CheckOffer(r) \/ Cancel(r) \/ Materialise(r) \/ BatchesDone(r) \/ SetBackoff(r)
             \/ DisableDead(r) \/ FinishIfDone(r) \/ ReleaseLease(r)
      PROVE  HoldsItsOwn'
  <2>1. /\ batch' = batch /\ \A s \in Runs : s # r => cur'[s] = cur[s]
        /\ \E step \in Steps \ {"send", "record"} : pc' = [pc EXCEPT ![r] = step]
    BY <1>5 DEF StartRun, FailStaleSending, ClaimNotification, NothingDue, CheckOffer, Cancel,
                Materialise, BatchesDone, SetBackoff, DisableDead, FinishIfDone, ReleaseLease,
                Leave, Begin
  <2> QED
    BY <2>1, <1>2
<1>6. ASSUME NEW r \in Runs, RenewLease(r) \/ Crash(r) PROVE HoldsItsOwn'
  <2>1. /\ \A s \in Runs : s # r => cur'[s] = cur[s] /\ batch'[s] = batch[s]
        /\ \E step \in Steps \ {"send", "record"} : pc' = [pc EXCEPT ![r] = step]
    BY <1>6 DEF RenewLease, Crash
  <2> QED
    BY <2>1, <1>2
<1>7. ASSUME UNCHANGED locals PROVE HoldsItsOwn'
  BY <1>7
<1>8. Environment \/ PunctualTick \/ UNCHANGED vars => UNCHANGED locals
  BY DEF Environment, BecomeDue, Register, RemoveDevice, ChangeEligibility, ChangeVisibility,
         ReceiptConfirms, ReceiptRefuses, ReceiptDisables, PunctualTick, Tick, vars
<1> QED
  BY <1>1, <1>3, <1>4, <1>5, <1>6, <1>7, <1>8, Zenon DEF PunctualNext, RunStep

\* A step that decides nothing, and opens no row of what is decided.
LEMMA SettledFrame ==
    ASSUME TypeOK, FinalMeansSettled,
           \A x \in Deliveries : \/ status'[x] = status[x]
                                 \/ status'[x] \notin Open
                                 \/ note'[x[1]] \notin Final,
           \A n \in Notifications : note'[n] \in Final => note'[n] = note[n]
    PROVE  FinalMeansSettled'
BY DEF FinalMeansSettled, Deliveries

LEMMA SettledPreserved ==
    ASSUME TypeOK, Ownership, Audience, Settling, [PunctualNext]_vars
    PROVE  FinalMeansSettled'
<1> USE DEF TypeOK, Settling, tables, notes, deliveries
<1>1. ASSUME UNCHANGED <<note, status>> PROVE FinalMeansSettled'
  BY <1>1, SettledFrame
<1>2. CASE Environment \/ PunctualTick
  <2>1. \/ UNCHANGED note
        \/ \E n \in Notifications : note' = [note EXCEPT ![n] = "queued"]
    BY <1>2 DEF Environment, BecomeDue, Register, RemoveDevice, ChangeEligibility,
                ChangeVisibility, ReceiptConfirms, ReceiptRefuses, ReceiptDisables,
                PunctualTick, Tick
  <2>2. \A x \in Deliveries : status'[x] = status[x] \/ status'[x] \notin Open
    BY <1>2 DEF Environment, BecomeDue, Register, RemoveDevice, ChangeEligibility,
                ChangeVisibility, ReceiptConfirms, ReceiptRefuses, ReceiptDisables,
                PunctualTick, Tick
  <2> QED
    BY <2>1, <2>2, SettledFrame
\* A run that writes rows works on a notification that is not decided.
<1>3. ASSUME NEW r \in Runs, pc[r] \in {"materialise", "batch", "record", "cancel", "finish"}
      PROVE  cur[r] \in Notifications /\ note[cur[r]] \in Unfinished
  BY <1>3 DEF Ownership, AtItsNotification, AtWork, Owned
<1>4. ASSUME NEW r \in Runs, FailStaleSending(r) PROVE FinalMeansSettled'
  <2>1. note' = note /\ \A x \in Deliveries : status'[x] = status[x] \/ status'[x] \notin Open
    BY <1>4 DEF FailStaleSending
  <2> QED
    BY <2>1, SettledFrame
<1>5. ASSUME NEW r \in Runs, Cancel(r) PROVE FinalMeansSettled'
  <2>1. /\ pc[r] = "cancel"
        /\ status' = [x \in Deliveries |-> IF x[1] = cur[r] /\ status[x] = "pending"
                                           THEN "skipped" ELSE status[x]]
    BY <1>5 DEF Cancel
  <2>2. note' = [note EXCEPT ![cur[r]] = "cancelled"]
    BY <1>3, <1>5, <2>1 DEF Cancel
  <2> QED
    BY <1>3, <2>1, <2>2 DEF FinalMeansSettled, Deliveries
<1>6. ASSUME NEW r \in Runs, Materialise(r) PROVE FinalMeansSettled'
  <2>1. /\ pc[r] = "materialise"
        /\ note' = [note EXCEPT ![cur[r]] = IF @ = "queued" THEN "sending" ELSE @]
        /\ \A x \in Deliveries : status'[x] = status[x] \/ x[1] = cur[r]
    BY <1>6 DEF Materialise
  <2>2. note'[cur[r]] = "sending"
    BY <1>3, <2>1
  <2> QED
    BY <2>1, <2>2, SettledFrame
<1>7. ASSUME NEW r \in Runs, ClaimBatch(r) PROVE FinalMeansSettled'
  <2>1. /\ pc[r] = "batch" /\ note' = note
        /\ \A x \in Deliveries : status'[x] = status[x] \/ x[1] = cur[r]
    BY <1>7 DEF ClaimBatch, DueDeliveries, Of
  <2> QED
    BY <1>3, <2>1, SettledFrame
<1>8. ASSUME NEW r \in Runs, RecordOutcomes(r) PROVE FinalMeansSettled'
  <2>1. /\ pc[r] = "record" /\ note' = note
        /\ \A x \in Deliveries : status'[x] = status[x] \/ x \in batch[r]
    BY <1>8 DEF RecordOutcomes, Written
  <2>2. \A x \in batch[r] : x[1] = cur[r]
    BY <2>1 DEF HoldsItsOwn, Held
  <2> QED
    BY <1>3, <2>1, <2>2, SettledFrame
<1>9. ASSUME NEW r \in Runs, FinishIfDone(r) PROVE FinalMeansSettled'
  <2>1. status' = status
    BY <1>9 DEF FinishIfDone
  <2>2. CASE note' = note
    BY <1>1, <2>1, <2>2
  <2>3. CASE StillOpen(cur[r]) = {} /\ note' = [note EXCEPT ![cur[r]] = Verdict(cur[r])]
    <3>1. \A x \in Deliveries : x[1] = cur[r] => status[x] \notin Open
      BY <2>3 DEF StillOpen, Of
    <3> QED
      BY <2>1, <2>3, <3>1 DEF FinalMeansSettled, Deliveries
  <2> QED
    BY <1>9, <2>2, <2>3 DEF FinishIfDone
<1>10. ASSUME NEW r \in Runs, RunStep(r) \/ Crash(r) PROVE FinalMeansSettled'
  <2>1. \/ FailStaleSending(r) \/ Cancel(r) \/ Materialise(r) \/ ClaimBatch(r)
        \/ RecordOutcomes(r) \/ FinishIfDone(r)
        \/ UNCHANGED <<note, status>>
    BY <1>10 DEF RunStep, StartRun, ClaimNotification, NothingDue, CheckOffer, BatchesDone, Send,
                 SetBackoff, DisableDead, RenewLease, ReleaseLease, Crash
  <2> QED
    BY <1>1, <1>4, <1>5, <1>6, <1>7, <1>8, <1>9, <2>1, Zenon
<1>11. CASE UNCHANGED vars
  BY <1>1, <1>11 DEF vars
<1> QED
  BY <1>2, <1>10, <1>11, Zenon DEF PunctualNext

THEOREM PunctualInvariance == PunctualSpec => [](IInv /\ PunctualInv)
<1>1. Init => IInv /\ PunctualInv
  BY InitInvariant, InitPunctual
<1>2. IInv /\ PunctualInv /\ [PunctualNext]_vars => (IInv /\ PunctualInv)'
  <2> SUFFICES ASSUME IInv, PunctualInv, [PunctualNext]_vars PROVE (IInv /\ PunctualInv)'
    OBVIOUS
  <2>1. TypeOK /\ Ownership /\ Audience /\ Settling
    BY DEF IInv, Types, PunctualInv
  <2>2. IInv'
    BY PunctualIsNext, TypesPreserved, HandingPreserved, Zenon DEF IInv
  <2>3. Ownership' /\ Audience' /\ Settling'
    BY <2>1, OwnershipPreserved, AudiencePreserved, HoldsItsOwnPreserved, SettledPreserved, Zenon
       DEF Settling
  <2> QED
    BY <2>2, <2>3 DEF PunctualInv
<1> QED
  BY <1>1, <1>2, PTL DEF PunctualSpec

\* As long as no run outlives its lease (LEASE_MS), a kick and a tick never work on
\* the same notification (claimNotification).
THEOREM OneWorkerTheorem == PunctualSpec => []OneWorker
<1>1. PunctualInv => OneWorker
  BY DEF PunctualInv, Ownership
<1> QED
  BY <1>1, PunctualInvariance, PTL

\* Nor does a phone that signed out and in again, under a new device row, get a
\* notification twice (materialise, the upsert of registerDevice).
THEOREM OncePerPhoneTheorem == PunctualSpec => []OncePerPhone
<1>1. IInv /\ PunctualInv => OncePerPhone
  BY DEF IInv, Types, TypeOK, Handing, TakenLeft, PunctualInv, Audience, OneDeliveryPerPhone,
         OncePerPhone
<1> QED
  BY <1>1, PunctualInvariance, PTL

\* And a notification with a verdict owes nothing more (finishIfDone, cancel).
THEOREM SettledTheorem == PunctualSpec => []FinalMeansSettled
<1>1. PunctualInv => FinalMeansSettled
  BY DEF PunctualInv, Settling
<1> QED
  BY <1>1, PunctualInvariance, PTL
=============================================================================
