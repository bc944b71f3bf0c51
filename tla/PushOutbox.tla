----------------------------- MODULE PushOutbox -----------------------------
(***************************************************************************)
(* The push outbox and its dispatcher                                      *)
(* (server/src/modules/push/application/dispatch.ts, with the tables of    *)
(* migrations 011 and 028).                                                *)
(*                                                                         *)
(* A request, or the offer trigger, only inserts a notification.  Runs of  *)
(* the push.deliver job, which may overlap (the cron tick, the pg-boss     *)
(* kick, a second instance of the server), claim a due notification under  *)
(* a lease, write its audience as one delivery per device row, claim       *)
(* pending deliveries in batches, hand each batch to a provider outside    *)
(* any transaction and record the outcomes.  Every await in that code is a *)
(* point where another run, the phone, the clock or a crash may intervene, *)
(* so every SQL statement (or transaction) is one action here.             *)
(*                                                                         *)
(* Time is counted in ticks of a fraction of the lease: lease[n] and       *)
(* timer[x] hold the ticks left, and 0 stands for a NULL or past instant.  *)
(***************************************************************************)
EXTENDS Integers, FiniteSets

CONSTANTS
    Notifications,  \* rows of push_notifications
    Offers,         \* those of kind 'offer'
    Rows,           \* ids of push_devices rows; an id is used once
    Phones,         \* push tokens: each addresses one physical phone
    PhoneOf,        \* the token a device row carries
    Runs,           \* runs of push.deliver that may be under way together
    MaxAttempts,    \* MAX_ATTEMPTS, 5 in the code
    BatchSize,      \* BATCH_SIZE, 100 in the code
    Lease,          \* LEASE_MS in ticks
    Backoff,        \* the retry spacing in ticks
    MaxCrashes,     \* bound: crashes or thrown errors of a run
    MaxOutages      \* bound: batches refused by an open breaker

ASSUME PushAssumption ==
    /\ Offers \subseteq Notifications
    /\ "none" \notin Notifications    \* a run without a notification
    /\ PhoneOf \in [Rows -> Phones]
    /\ MaxAttempts \in Nat \ {0}
    /\ BatchSize \in Nat \ {0}
    /\ Lease \in Nat \ {0}
    /\ Backoff \in Nat
    /\ MaxCrashes \in Nat /\ MaxOutages \in Nat

VARIABLES
    note,      \* push_notifications.status, or "absent" before it is due
    lease,     \* push_notifications.lease_until
    visible,   \* the offers VISIBLE_OFFER holds of
    device,    \* each device row: "unused", "on" or "off" (ELIGIBLE_DEVICE), "deleted"
    dead,      \* device rows with disabled_reason 'unregistered'
    status,    \* push_deliveries.status, or "none" where there is no row
    attempts,  \* push_deliveries.attempts
    timer,     \* ticks to next_attempt_at (pending) or to a stale updated_at (sending)
    accepted,  \* how many times a provider took the message of a delivery
    pc, cur, snap, seen, tried, batch, outcome, retrying,  \* locals of a run
    crashes, outages

notes == <<note, lease>>
deliveries == <<status, attempts, timer>>
tables == <<notes, deliveries>>
phones == <<device, dead>>
world == <<phones, visible>>
claim == <<cur, snap, seen, tried>>
sends == <<batch, outcome, retrying>>
locals == <<pc, claim, sends>>
bounds == <<crashes, outages>>
vars == <<tables, world, accepted, locals, bounds>>

Deliveries == Notifications \X Rows   \* UNIQUE (notification_id, device_id)

Final == {"done", "partial", "failed", "cancelled"}
Unfinished == {"queued", "sending"}
Open == {"pending", "sending"}
Outcomes == {"sent", "retry", "notAttempted", "dead", "unknown"}
Steps == {"idle", "sweep", "claim", "check", "cancel", "materialise", "batch",
          "send", "record", "backoff", "disable", "renew", "finish", "release"}

NoOutcomes == [x \in Deliveries |-> "none"]
Of(n) == {x \in Deliveries : x[1] = n}
Eligible(d) == device[d] = "on" /\ d \notin dead
Horizon == IF Lease > Backoff THEN Lease ELSE Backoff
Goto(r, step) == pc' = [pc EXCEPT ![r] = step]

Init ==
    /\ note = [n \in Notifications |-> "absent"]
    /\ lease = [n \in Notifications |-> 0]
    /\ visible = Offers
    /\ device = [d \in Rows |-> "unused"]
    /\ dead = {}
    /\ status = [x \in Deliveries |-> "none"]
    /\ attempts = [x \in Deliveries |-> 0]
    /\ timer = [x \in Deliveries |-> 0]
    /\ accepted = [x \in Deliveries |-> 0]
    /\ pc = [r \in Runs |-> "idle"]
    /\ cur = [r \in Runs |-> "none"]
    /\ snap = [r \in Runs |-> "none"]
    /\ seen = [r \in Runs |-> {}]
    /\ tried = [r \in Runs |-> {}]
    /\ batch = [r \in Runs |-> {}]
    /\ outcome = [r \in Runs |-> NoOutcomes]
    /\ retrying = [r \in Runs |-> {}]
    /\ crashes = 0
    /\ outages = 0

-----------------------------------------------------------------------------
(* The world around the dispatcher. *)

\* A staff send or the offer trigger inserted the row, and not_before is past.
BecomeDue(n) ==
    /\ note[n] = "absent"
    /\ note' = [note EXCEPT ![n] = "queued"]
    /\ UNCHANGED <<deliveries, world, locals, bounds, lease, accepted>>

\* The app presents its token: an upsert on the token, so the phone's row is
\* refreshed if there is one and a new row is inserted otherwise.
Register(p) ==
    LET live == {d \in Rows : PhoneOf[d] = p /\ device[d] \in {"on", "off"}}
        free == {d \in Rows : PhoneOf[d] = p /\ device[d] = "unused"}
    IN  /\ \E d \in IF live # {} THEN live ELSE free :
              /\ \E state \in {"on", "off"} : device' = [device EXCEPT ![d] = state]
              /\ dead' = dead \ {d}
        /\ UNCHANGED <<tables, locals, bounds, visible, accepted>>

\* Sign-out, DELETE /push/devices/:id and the 180-day prune delete the row; its
\* deliveries stay, with a NULL device_id.
RemoveDevice(d) ==
    /\ device[d] \in {"on", "off"}
    /\ device' = [device EXCEPT ![d] = "deleted"]
    /\ dead' = dead \ {d}
    /\ UNCHANGED <<tables, locals, bounds, visible, accepted>>

\* The member's standing, application, preference, test-list entry or switch.
ChangeEligibility(d) ==
    /\ device[d] \in {"on", "off"}
    /\ device' = [device EXCEPT ![d] = IF device[d] = "on" THEN "off" ELSE "on"]
    /\ UNCHANGED <<tables, locals, bounds, dead, visible, accepted>>

\* Withdrawn, expired, its merchant suspended, or published again.
ChangeVisibility(n) ==
    /\ visible' = IF n \in visible THEN visible \ {n} ELSE visible \cup {n}
    /\ UNCHANGED <<tables, phones, locals, bounds, accepted>>

(* The push.receipts job: each of its three statements looks at the row as it *)
(* is by then, at least 15 minutes after the ticket and in any order.         *)

ReceiptConfirms(x) ==
    /\ status[x] = "sent"
    /\ status' = [status EXCEPT ![x] = "delivered"]
    /\ UNCHANGED <<notes, attempts, timer, world, locals, bounds, accepted>>

ReceiptRefuses(x) ==
    /\ status[x] = "sent"
    /\ status' = [status EXCEPT ![x] = "failed"]
    /\ UNCHANGED <<notes, attempts, timer, world, locals, bounds, accepted>>

\* The device may have registered again since the ticket: nothing looks.
ReceiptDisables(d) ==
    /\ device[d] \in {"on", "off"}
    /\ \E x \in Deliveries : x[2] = d /\ accepted[x] > 0 /\ status[x] # "sending"
    /\ dead' = dead \cup {d}
    /\ UNCHANGED <<tables, locals, bounds, device, visible, accepted>>

Less(k) == IF k > 0 THEN k - 1 ELSE 0

Tick ==
    /\ \/ \E n \in Notifications : lease[n] > 0
       \/ \E x \in Deliveries : timer[x] > 0
    /\ lease' = [n \in Notifications |-> Less(lease[n])]
    /\ timer' = [x \in Deliveries |-> Less(timer[x])]
    /\ UNCHANGED <<world, locals, bounds, note, status, attempts, accepted>>

-----------------------------------------------------------------------------
(* dispatchDue: one run of push.deliver. *)

StartRun(r) ==
    /\ pc[r] = "idle"
    /\ Goto(r, "sweep")
    /\ UNCHANGED <<tables, world, claim, sends, bounds, accepted>>

Stale(x) == status[x] = "sending" /\ timer[x] = 0

RetryStaleSending(r) ==  \* mutant: a stale row is sent again
    /\ pc[r] = "sweep"
    /\ status' = [x \in Deliveries |-> IF Stale(x) THEN "pending" ELSE status[x]]
    /\ Goto(r, "claim")
    /\ UNCHANGED <<notes, world, claim, sends, bounds, attempts, timer, accepted>>

SkipSweep(r) ==  \* mutant: no sweep
    /\ pc[r] = "sweep"
    /\ Goto(r, "claim")
    /\ UNCHANGED <<tables, world, claim, sends, bounds, accepted>>

FailStaleSending(r) ==
    /\ pc[r] = "sweep"
    /\ status' = [x \in Deliveries |-> IF Stale(x) THEN "failed" ELSE status[x]]
    /\ Goto(r, "claim")
    /\ UNCHANGED <<notes, world, claim, sends, bounds, attempts, timer, accepted>>

ClaimableUnleased(r, n) == note[n] \in Unfinished /\ n \notin seen[r]  \* mutant

Claimable(r, n) == note[n] \in Unfinished /\ lease[n] = 0 /\ n \notin seen[r]

BeginAgain(was) == "materialise"  \* mutant: the audience is written on every claim

\* Only a notification claimed while queued has its audience written.
Begin(was) == IF was = "queued" THEN "materialise" ELSE "batch"

ClaimNotification(r) ==
    /\ pc[r] = "claim"
    /\ \E n \in Notifications :
          /\ Claimable(r, n)
          /\ lease' = [lease EXCEPT ![n] = Lease]
          /\ cur' = [cur EXCEPT ![r] = n]
          /\ snap' = [snap EXCEPT ![r] = note[n]]
          /\ seen' = [seen EXCEPT ![r] = @ \cup {n}]
          /\ tried' = [tried EXCEPT ![r] = {}]
          /\ Goto(r, IF n \in Offers THEN "check" ELSE Begin(note[n]))
    /\ UNCHANGED <<deliveries, world, sends, bounds, note, accepted>>

NothingDue(r) ==
    /\ pc[r] = "claim"
    /\ \A n \in Notifications : ~Claimable(r, n)
    /\ Goto(r, "idle")
    /\ seen' = [seen EXCEPT ![r] = {}]
    /\ UNCHANGED <<tables, world, sends, bounds, accepted, cur, snap, tried>>

CheckOffer(r) ==
    /\ pc[r] = "check"
    /\ Goto(r, IF cur[r] \in visible THEN Begin(snap[r]) ELSE "cancel")
    /\ UNCHANGED <<tables, world, claim, sends, bounds, accepted>>

\* What every way out of dispatchOne forgets.
Leave(r) ==
    /\ Goto(r, "claim")
    /\ cur' = [cur EXCEPT ![r] = "none"]
    /\ snap' = [snap EXCEPT ![r] = "none"]
    /\ tried' = [tried EXCEPT ![r] = {}]

Cancel(r) ==
    /\ pc[r] = "cancel"
    /\ LET n == cur[r] IN
        /\ status' = [x \in Deliveries |->
                         IF x[1] = n /\ status[x] = "pending" THEN "skipped" ELSE status[x]]
        /\ IF note[n] \in Unfinished
           THEN /\ note' = [note EXCEPT ![n] = "cancelled"]
                /\ lease' = [lease EXCEPT ![n] = 0]
           ELSE UNCHANGED <<notes>>
    /\ Leave(r)
    /\ UNCHANGED <<world, sends, bounds, attempts, timer, accepted, seen>>

\* The INSERT does not look at the notification's status; the UPDATE does.
Materialise(r) ==
    /\ pc[r] = "materialise"
    /\ LET n == cur[r] IN
        /\ status' = [x \in Deliveries |->
                         IF x[1] = n /\ status[x] = "none" /\ Eligible(x[2])
                         THEN "pending" ELSE status[x]]
        /\ note' = [note EXCEPT ![n] = IF @ = "queued" THEN "sending" ELSE @]
    /\ Goto(r, "batch")
    /\ UNCHANGED <<world, claim, sends, bounds, lease, attempts, timer, accepted>>

DueDeliveries(r) ==
    {x \in Of(cur[r]) : status[x] = "pending" /\ timer[x] = 0 /\ x \notin tried[r]}

ClaimBatch(r) ==
    /\ pc[r] = "batch"
    /\ \E B \in SUBSET DueDeliveries(r) \ {{}} :
          /\ \/ Cardinality(B) = BatchSize
             \/ Cardinality(B) < BatchSize /\ B = DueDeliveries(r)
          /\ LET send == {x \in B : Eligible(x[2])} IN
                /\ status' = [x \in Deliveries |-> IF x \in send THEN "sending"
                                                   ELSE IF x \in B THEN "skipped"
                                                   ELSE status[x]]
                /\ timer' = [x \in Deliveries |-> IF x \in send THEN Lease ELSE timer[x]]
                /\ batch' = [batch EXCEPT ![r] = send]
                /\ Goto(r, IF send = {} THEN "renew" ELSE "send")
          /\ tried' = [tried EXCEPT ![r] = @ \cup B]
    /\ UNCHANGED <<notes, world, bounds, attempts, accepted, cur, snap, seen, outcome, retrying>>

BatchesDone(r) ==
    /\ pc[r] = "batch"
    /\ DueDeliveries(r) = {}
    /\ Goto(r, "finish")
    /\ UNCHANGED <<tables, world, claim, sends, bounds, accepted>>

\* The provider: it takes some of the messages, and the transport reports an
\* outcome for each.  Only "unknown" leaves open whether the message was taken; a
\* failure that is not permanent is recorded like it.
Send(r) ==
    /\ pc[r] = "send"
    /\ \E o \in [batch[r] -> Outcomes], took \in SUBSET batch[r] :
          /\ \A x \in batch[r] : /\ o[x] = "sent" => x \in took
                                 /\ o[x] \in {"retry", "notAttempted", "dead"} => x \notin took
          /\ LET refused == \E x \in batch[r] : o[x] = "notAttempted" IN
                /\ refused => outages < MaxOutages
                /\ outages' = IF refused THEN outages + 1 ELSE outages
          /\ outcome' = [outcome EXCEPT ![r] =
                            [x \in Deliveries |-> IF x \in batch[r] THEN o[x] ELSE "none"]]
          /\ accepted' = [x \in Deliveries |-> IF x \in took THEN accepted[x] + 1
                                                              ELSE accepted[x]]
    /\ Goto(r, "record")
    /\ UNCHANGED <<tables, world, claim, batch, retrying, crashes>>

Counted(r, x) == attempts[x] + (IF outcome[r][x] = "notAttempted" THEN 0 ELSE 1)
RetriedAlways(r, x) ==  \* mutant: no retry budget
    CASE outcome[r][x] = "sent" -> "sent"
      [] outcome[r][x] \in {"retry", "notAttempted"} -> "pending"
      [] OTHER -> "failed"

UnknownRetried(r, x) ==  \* mutant: an unknown outcome is retried
    CASE outcome[r][x] = "sent" -> "sent"
      [] outcome[r][x] \in {"retry", "notAttempted", "unknown"} /\ Counted(r, x) < MaxAttempts
           -> "pending"
      [] OTHER -> "failed"

Recorded(r, x) ==
    CASE outcome[r][x] = "sent" -> "sent"
      [] outcome[r][x] \in {"retry", "notAttempted"} /\ Counted(r, x) < MaxAttempts -> "pending"
      [] OTHER -> "failed"

\* The UPDATE of recordOutcomes matches rows still in 'sending' only.
Written(r) == {x \in batch[r] : status[x] = "sending"}

RecordOutcomes(r) ==
    /\ pc[r] = "record"
    /\ LET rows == Written(r) IN
        /\ status' = [x \in Deliveries |-> IF x \in rows THEN Recorded(r, x) ELSE status[x]]
        /\ attempts' = [x \in Deliveries |-> IF x \in rows THEN Counted(r, x) ELSE attempts[x]]
        /\ timer' = [x \in Deliveries |-> IF x \in rows THEN 0 ELSE timer[x]]
        /\ retrying' = [retrying EXCEPT ![r] = {x \in rows : Recorded(r, x) = "pending"}]
    /\ Goto(r, "backoff")
    /\ UNCHANGED <<notes, world, claim, bounds, accepted, batch, outcome>>

SetBackoff(r) ==
    /\ pc[r] = "backoff"
    /\ timer' = [x \in Deliveries |-> IF x \in retrying[r] /\ status[x] = "pending"
                                      THEN Backoff ELSE timer[x]]
    /\ retrying' = [retrying EXCEPT ![r] = {}]
    /\ Goto(r, "disable")
    /\ UNCHANGED <<notes, world, claim, bounds, status, attempts, accepted, batch, outcome>>

\* A dead token is disabled through device_id, which is NULL once the row is gone.
DisableDead(r) ==
    /\ pc[r] = "disable"
    /\ dead' = dead \cup {d \in Rows : /\ device[d] \in {"on", "off"}
                                       /\ \E x \in batch[r] : x[2] = d /\ outcome[r][x] = "dead"}
    /\ Goto(r, "renew")
    /\ UNCHANGED <<tables, claim, sends, bounds, device, visible, accepted>>

RenewLease(r) ==
    /\ pc[r] = "renew"
    /\ lease' = [lease EXCEPT ![cur[r]] = Lease]
    /\ Goto(r, IF \E x \in batch[r] : outcome[r][x] = "notAttempted" THEN "finish" ELSE "batch")
    /\ batch' = [batch EXCEPT ![r] = {}]
    /\ outcome' = [outcome EXCEPT ![r] = NoOutcomes]
    /\ UNCHANGED <<deliveries, world, claim, bounds, note, accepted, retrying>>

Verdict(n) ==
    LET failed == \E x \in Of(n) : status[x] = "failed"
        ok == \E x \in Of(n) : status[x] \in {"sent", "delivered"}
    IN  IF ~failed THEN "done" ELSE IF ~ok THEN "failed" ELSE "partial"

StillSending(n) == {x \in Of(n) : status[x] = "sending"}  \* mutant: forgets 'pending'

StillOpen(n) == {x \in Of(n) : status[x] \in Open}

FinishIfDone(r) ==
    /\ pc[r] = "finish"
    /\ LET n == cur[r] IN
        IF note[n] = "sending" /\ StillOpen(n) = {}
        THEN /\ note' = [note EXCEPT ![n] = Verdict(n)]
             /\ lease' = [lease EXCEPT ![n] = 0]
        ELSE UNCHANGED <<notes>>
    /\ Goto(r, "release")
    /\ UNCHANGED <<deliveries, world, claim, sends, bounds, accepted>>

\* finishIfDone's second statement: whoever holds the lease by now.
ReleaseLease(r) ==
    /\ pc[r] = "release"
    /\ lease' = [lease EXCEPT ![cur[r]] = IF note[cur[r]] \in Unfinished THEN 0 ELSE @]
    /\ Leave(r)
    /\ UNCHANGED <<deliveries, world, sends, bounds, note, accepted, seen>>

\* The process dies, or a statement throws and the run is recorded as failed:
\* the tables keep what was committed and the run's locals are gone.
Crash(r) ==
    /\ pc[r] # "idle"
    /\ crashes < MaxCrashes
    /\ crashes' = crashes + 1
    /\ Goto(r, "idle")
    /\ cur' = [cur EXCEPT ![r] = "none"]
    /\ snap' = [snap EXCEPT ![r] = "none"]
    /\ seen' = [seen EXCEPT ![r] = {}]
    /\ tried' = [tried EXCEPT ![r] = {}]
    /\ batch' = [batch EXCEPT ![r] = {}]
    /\ outcome' = [outcome EXCEPT ![r] = NoOutcomes]
    /\ retrying' = [retrying EXCEPT ![r] = {}]
    /\ UNCHANGED <<tables, world, accepted, outages>>

-----------------------------------------------------------------------------
RunStep(r) ==
    \/ StartRun(r) \/ FailStaleSending(r) \/ ClaimNotification(r) \/ NothingDue(r)
    \/ CheckOffer(r) \/ Cancel(r) \/ Materialise(r) \/ ClaimBatch(r) \/ BatchesDone(r)
    \/ Send(r) \/ RecordOutcomes(r) \/ SetBackoff(r) \/ DisableDead(r) \/ RenewLease(r)
    \/ FinishIfDone(r) \/ ReleaseLease(r)

Environment ==
    \/ \E n \in Notifications : BecomeDue(n)
    \/ \E p \in Phones : Register(p)
    \/ \E d \in Rows : RemoveDevice(d) \/ ChangeEligibility(d)
    \/ \E n \in Offers : ChangeVisibility(n)
    \/ \E x \in Deliveries : ReceiptConfirms(x) \/ ReceiptRefuses(x)
    \/ \E d \in Rows : ReceiptDisables(d)

Next ==
    \/ \E r \in Runs : RunStep(r) \/ Crash(r)
    \/ Environment
    \/ Tick

Spec == Init /\ [][Next]_vars

-----------------------------------------------------------------------------
(* Scheduling.  croner starts the enabled job every minute, an await returns  *)
(* or throws, and time passes; nothing else is assumed.                       *)

Fairness == WF_vars(Tick) /\ \A r \in Runs : WF_vars(RunStep(r))

FairSpec == Spec /\ Fairness

\* The assumption behind LEASE_MS: time does not take away the lease of a
\* notification a live run is working on, as long as there is one to take (a run
\* that has finished its notification gave the lease back).
OnTime == \A r \in Runs :
    cur[r] # "none" /\ lease[cur[r]] > 0 => lease'[cur[r]] > 0

PunctualTick == Tick /\ OnTime

PunctualNext ==
    \/ \E r \in Runs : RunStep(r) \/ Crash(r)
    \/ Environment
    \/ PunctualTick

PunctualSpec ==
    /\ Init /\ [][PunctualNext]_vars
    /\ WF_vars(PunctualTick) /\ \A r \in Runs : WF_vars(RunStep(r))

-----------------------------------------------------------------------------
(* Properties. *)

TypeOK ==
    /\ note \in [Notifications -> {"absent"} \cup Unfinished \cup Final]
    /\ lease \in [Notifications -> 0..Lease]
    /\ visible \subseteq Offers
    /\ device \in [Rows -> {"unused", "on", "off", "deleted"}]
    /\ dead \subseteq Rows
    /\ status \in [Deliveries -> {"none", "pending", "sending", "sent", "delivered",
                               "failed", "skipped"}]
    /\ attempts \in [Deliveries -> 0..MaxAttempts]
    /\ timer \in [Deliveries -> 0..Horizon]
    /\ accepted \in [Deliveries -> Nat]
    /\ pc \in [Runs -> Steps]
    /\ cur \in [Runs -> Notifications \cup {"none"}]
    /\ snap \in [Runs -> Unfinished \cup {"none"}]
    /\ seen \in [Runs -> SUBSET Notifications]
    /\ tried \in [Runs -> SUBSET Deliveries]
    /\ batch \in [Runs -> SUBSET Deliveries]
    /\ outcome \in [Runs -> [Deliveries -> Outcomes \cup {"none"}]]
    /\ retrying \in [Runs -> SUBSET Deliveries]
    /\ crashes \in 0..MaxCrashes /\ outages \in 0..MaxOutages

\* At most once per device (dispatch.ts, failStaleSending and claimBatch): however
\* runs overlap, overrun their lease or crash between the provider's answer and
\* the record of it, no provider takes the message of one delivery twice.
AtMostOnce == \A x \in Deliveries : accepted[x] <= 1

\* The deliveries a run holds between their claim and the record of their outcome.
Held(r) == IF pc[r] \in {"send", "record"} THEN batch[r] ELSE {}

\* claimBatch: there is no moment at which two dispatchers have both chosen a row,
\* even after a row came back from 'sending' for a retry while its first run lives.
ChosenOnce == \A r, s \in Runs : r # s => Held(r) \cap Held(s) = {}

\* The retry budget (MAX_ATTEMPTS, and CHECK (attempts BETWEEN 0 AND 5) of migration
\* 028, which would abort the whole batch's record): a delivery that may still be
\* sent has an attempt left, whoever recorded the earlier ones.
RetryBudget == \A x \in Deliveries : status[x] \in Open => attempts[x] < MaxAttempts

\* One attempt at a time, by one run, counted, and none after the provider may have
\* taken the message: the three together are what makes an overlapping run harmless.
OneAttemptAtATime == AtMostOnce /\ ChosenOnce /\ RetryBudget

\* The final guard of migration 028: a slow dispatcher whose lease ran out never
\* reopens a notification that another run finished or cancelled.
FinalStays ==
    [][\A n \in Notifications : note[n] \in Final => note'[n] = note[n]]_vars

\* Whatever crashes, refuses or overlaps, a due notification gets a final status.
EveryNotificationFinishes ==
    \A n \in Notifications : note[n] # "absent" ~> note[n] \in Final

(* What holds only as long as no run outlives its lease. *)

\* "So a kick and a tick never work on the same one."
OneWorker == \A r, s \in Runs : r # s /\ cur[r] # "none" => cur[r] # cur[s]

\* A phone that signed out and back in (a new device row, the same token) does not
\* get a notification that has already started.
OncePerPhone == \A x, y \in Deliveries :
    x[1] = y[1] /\ PhoneOf[x[2]] = PhoneOf[y[2]] /\ accepted[x] > 0 /\ accepted[y] > 0 => x = y

\* A final notification owes nothing more: the verdict of a finished one counts
\* deliveries that are all over, and cancelling leaves no row nobody will ever send.
FinalMeansSettled == \A x \in Deliveries :
    /\ note[x[1]] \in Final => status[x] # "pending"
    /\ note[x[1]] \in {"done", "partial", "failed"} => status[x] # "sending"

-----------------------------------------------------------------------------
(* Each delivery goes through the stages of PushDelivery. *)

Stage ==
    [x \in Deliveries |-> CASE status[x] = "none" -> "none"
                            [] status[x] = "pending" -> "owed"
                            [] status[x] = "sending" -> "handed"
                            [] status[x] = "skipped" -> "dropped"
                            [] OTHER -> "settled"]

Promise == INSTANCE PushDelivery WITH
    Messages <- Deliveries, stage <- Stage, reached <- accepted

\* However runs overlap or crash, every delivery is owed, handed over, taken by a
\* provider and settled in the order PushDelivery allows: no message that was or
\* may have been taken is handed over again, and none is sent after being skipped.
KeepsPromise == Promise!Spec

\* The deliveries keep the abstract promise, and the notification over them never
\* leaves a final status, whichever run comes late.
PromiseAndVerdictStand == KeepsPromise /\ FinalStays
=============================================================================
