---------------------------- MODULE MailOutbox ----------------------------
(***************************************************************************)
(* The mail outbox and the job that drains it                              *)
(* (src/server/src/decorators/mail.ts, src/server/src/ops/jobs.ts).        *)
(*                                                                         *)
(* A run claims due rows by pushing their next attempt out by a lease, and *)
(* sends them one after another outside any transaction: nothing ends the  *)
(* run when the lease does, so a row may be claimed while an earlier run   *)
(* still holds it.  Runs of one job overlap: each server instance has its  *)
(* own schedule.                                                           *)
(*                                                                         *)
(* Times are the order of events: a wait (the lease, the backoff of        *)
(* retryDelaySeconds, whose exponent is all that `attempts` is for) is     *)
(* over at any moment, and a claim takes its batch in any order.           *)
(***************************************************************************)
EXTENDS Naturals, FiniteSets

CONSTANTS
    Mails,          \* rows of mail_outbox that can be enqueued
    Runs,           \* runs of mail.deliver that can be under way at once
    BatchSize,      \* rows a run claims
    MaxMishaps      \* processes that die and statements that fail (bound)

ASSUME MailBounds ==
    /\ BatchSize \in Nat \ {0}
    /\ MaxMishaps \in Nat

VARIABLES
    row,        \* of each mail: absent, unsent, sent
    full,       \* mails whose variables are in the table
    due,        \* unsent mails whose next attempt has come
    log,        \* job_runs.outcome of the latest run of each slot
    pc,         \* what each run is doing
    left,       \* rows its claim returned and it has not settled: <<mail, full>>
                \* (of a run that died: as it left them)
    cur,        \* the row a run is at
    mishaps,
    taken,      \* history: how often the provider took a mail: 0, 1, 2 (or more)
    blank,      \* history: mails the provider took without their variables
    late,       \* history: mails claimed while another run still held them
    lost        \* history: mails taken by the provider and not recorded

table == <<row, full, due>>
run == <<pc, left, cur>>
history == <<taken, blank, late, lost>>
vars == <<table, log, run, mishaps, history>>

-----------------------------------------------------------------------------
NoMail == <<"none", FALSE>>

Copies == Mails \X BOOLEAN

Steps == {"idle", "log", "claim", "next", "send", "record", "retry",
          "finish", "stamp", "fail"}

Held(w) == {c[1] : c \in left[w]}

Alive(w) == pc[w] # "idle"

(* Between its claim and its end a run still means to send what it holds. *)
Holding(w) == pc[w] \in {"next", "send", "record", "retry"}

Goto(w, step) == pc' = [pc EXCEPT ![w] = step]

(* Types, and what the table says of a row: due rows are unsent, and the
   variables are cleared with the delivery and not before.                  *)
TypeOK ==
    /\ row \in [Mails -> {"absent", "unsent", "sent"}]
    /\ full = {m \in Mails : row[m] = "unsent"}
    /\ due \in SUBSET full
    /\ log \in [Runs -> {"none", "open", "success", "failure"}]
    /\ pc \in [Runs -> Steps]
    /\ left \in [Runs -> SUBSET Copies]
    /\ cur \in [Runs -> Copies \cup {NoMail}]
    /\ mishaps \in 0..MaxMishaps
    /\ taken \in [Mails -> 0..2]
    /\ blank \in SUBSET Mails
    /\ late \in SUBSET Mails
    /\ lost \in SUBSET Mails

Init ==
    /\ row = [m \in Mails |-> "absent"]
    /\ full = {}
    /\ due = {}
    /\ log = [w \in Runs |-> "none"]
    /\ pc = [w \in Runs |-> "idle"]
    /\ left = [w \in Runs |-> {}]
    /\ cur = [w \in Runs |-> NoMail]
    /\ mishaps = 0
    /\ taken = [m \in Mails |-> 0]
    /\ blank = {}
    /\ late = {}
    /\ lost = {}

Mishap == mishaps < MaxMishaps /\ mishaps' = mishaps + 1

-----------------------------------------------------------------------------
(* The callers and the clock. *)

(* ON CONFLICT (message_id) DO NOTHING: the same message again, sent or not,
   changes nothing. In a caller's transaction, when that commits.            *)
Enqueue(m) ==
    /\ row[m] = "absent"
    /\ row' = [row EXCEPT ![m] = "unsent"]
    /\ full' = full \cup {m}
    /\ due' = due \cup {m}
    /\ UNCHANGED <<log, run, mishaps, history>>

(* next_attempt_at passes: a lease or a backoff is over. *)
BecomeDue(m) ==
    /\ row[m] = "unsent"
    /\ m \notin due
    /\ due' = due \cup {m}
    /\ UNCHANGED <<row, full, log, run, mishaps, history>>

-----------------------------------------------------------------------------
(* runJob, and job_definitions.enabled is set: it is read at every tick, so a
   job that staff stopped for a while is one that ticks later.              *)
Tick(w) ==
    /\ pc[w] = "idle"
    /\ Goto(w, "log")
    /\ UNCHANGED <<table, log, left, cur, mishaps, history>>

LogStart(w) ==
    /\ pc[w] = "log"
    /\ log' = [log EXCEPT ![w] = "open"]
    /\ left' = [left EXCEPT ![w] = {}]
    /\ Goto(w, "claim")
    /\ UNCHANGED <<table, cur, mishaps, history>>

(* What a claim may take: as many rows as there are, or as the batch holds. *)
Batches ==
    {S \in SUBSET due :
        Cardinality(S) = IF Cardinality(due) < BatchSize THEN Cardinality(due) ELSE BatchSize}

StillHeld(S) == {m \in S : \E v \in Runs : Holding(v) /\ m \in Held(v)}

\* Mutant: a row is marked as sent when it is claimed.
ClaimAsSent(w) ==
    /\ pc[w] = "claim"
    /\ \E S \in Batches :
        /\ row' = [m \in Mails |-> IF m \in S THEN "sent" ELSE row[m]]
        /\ full' = full \ S
        /\ due' = due \ S
        /\ left' = [left EXCEPT ![w] = {<<m, m \in full>> : m \in S}]
        /\ late' = late \cup StillHeld(S)
    /\ Goto(w, "next")
    /\ UNCHANGED <<log, cur, mishaps, taken, blank, lost>>

(* One UPDATE ... RETURNING: statements that race for a row skip it or wait
   for the other to commit, so claims come one after another.              *)
Claim(w) ==
    /\ pc[w] = "claim"
    /\ \E S \in Batches :
        /\ due' = due \ S
        /\ left' = [left EXCEPT ![w] = {<<m, m \in full>> : m \in S}]
        /\ late' = late \cup StillHeld(S)
    /\ Goto(w, "next")
    /\ UNCHANGED <<row, full, log, cur, mishaps, taken, blank, lost>>

NextMail(w) ==
    /\ pc[w] = "next"
    /\ \E c \in left[w] : cur' = [cur EXCEPT ![w] = c]
    /\ Goto(w, "send")
    /\ UNCHANGED <<table, log, left, mishaps, history>>

(* The provider takes what the run read, whatever the row says by now. *)
TakenBy(w) ==
    /\ taken' = [taken EXCEPT ![cur[w][1]] = IF @ = 2 THEN 2 ELSE @ + 1]
    /\ blank' = IF cur[w][2] THEN blank ELSE blank \cup {cur[w][1]}
    /\ UNCHANGED late

Accept(w) ==
    /\ pc[w] = "send"
    /\ TakenBy(w)
    /\ Goto(w, "record")
    /\ UNCHANGED <<table, log, left, cur, mishaps, lost>>

(* Taken, but the answer never came: the breaker's time limit. *)
AcceptUnheard(w) ==
    /\ pc[w] = "send"
    /\ TakenBy(w)
    /\ lost' = lost \cup {cur[w][1]}
    /\ Goto(w, "retry")
    /\ UNCHANGED <<table, log, left, cur, mishaps>>

(* No connection, a refusal, an open breaker. *)
Refuse(w) ==
    /\ pc[w] = "send"
    /\ Goto(w, "retry")
    /\ UNCHANGED <<table, log, left, cur, mishaps, history>>

Settled(w) ==
    /\ left' = [left EXCEPT ![w] = @ \ {cur[w]}]
    /\ cur' = [cur EXCEPT ![w] = NoMail]
    /\ Goto(w, "next")

\* Mutant: the variables stay.
RecordSentKept(w) ==
    LET m == cur[w][1] IN
    /\ pc[w] = "record"
    /\ row' = [row EXCEPT ![m] = "sent"]
    /\ due' = due \ {m}
    /\ Settled(w)
    /\ UNCHANGED <<full, log, mishaps, history>>

\* Mutant: a claim does not look at sent_at.
RecordSentStillDue(w) ==
    LET m == cur[w][1] IN
    /\ pc[w] = "record"
    /\ row' = [row EXCEPT ![m] = "sent"]
    /\ full' = full \ {m}
    /\ Settled(w)
    /\ UNCHANGED <<due, log, mishaps, history>>

(* UPDATE ... SET sent_at, variables = '{}' WHERE id. *)
RecordSent(w) ==
    LET m == cur[w][1] IN
    /\ pc[w] = "record"
    /\ row' = [row EXCEPT ![m] = "sent"]
    /\ full' = full \ {m}
    /\ due' = due \ {m}
    /\ Settled(w)
    /\ UNCHANGED <<log, mishaps, history>>

(* The statement fails inside the try: the mail counts as a failed attempt. *)
RecordSentFails(w) ==
    /\ pc[w] = "record"
    /\ Mishap
    /\ lost' = lost \cup {cur[w][1]}
    /\ Goto(w, "retry")
    /\ UNCHANGED <<table, log, left, cur, taken, blank, late>>

\* Mutant: one failed attempt is the last.
RecordRetryAbandons(w) ==
    LET m == cur[w][1] IN
    /\ pc[w] = "retry"
    /\ row' = IF row[m] = "unsent" THEN [row EXCEPT ![m] = "absent"] ELSE row
    /\ full' = full \ {m}
    /\ due' = due \ {m}
    /\ Settled(w)
    /\ UNCHANGED <<log, mishaps, history>>

(* The catch: next_attempt_at moves on, WHERE id alone. A row another run has
   sent meanwhile stays sent; one another run has claimed gets a new wait.  *)
RecordRetry(w) ==
    /\ pc[w] = "retry"
    /\ due' = due \ {cur[w][1]}
    /\ Settled(w)
    /\ UNCHANGED <<row, full, log, mishaps, history>>

(* The catch itself fails: the error ends the run, and what it has not sent
   waits for the lease.                                                     *)
RecordRetryFails(w) ==
    /\ pc[w] = "retry"
    /\ Mishap
    /\ cur' = [cur EXCEPT ![w] = NoMail]
    /\ Goto(w, "fail")
    /\ UNCHANGED <<table, log, left, history>>

AllSettled(w) ==
    /\ pc[w] = "next"
    /\ left[w] = {}
    /\ Goto(w, "finish")
    /\ UNCHANGED <<table, log, left, cur, mishaps, history>>

LogSuccess(w) ==
    /\ pc[w] = "finish"
    /\ log' = [log EXCEPT ![w] = "success"]
    /\ Goto(w, "stamp")
    /\ UNCHANGED <<table, left, cur, mishaps, history>>

(* last_run_at. *)
Stamp(w) ==
    /\ pc[w] = "stamp"
    /\ Goto(w, "idle")
    /\ UNCHANGED <<table, log, left, cur, mishaps, history>>

(* A statement of runJob, or the claim, fails: the catch records a failure,
   over a success too.                                                     *)
RunThrows(w) ==
    /\ pc[w] \in {"claim", "finish", "stamp"}
    /\ Mishap
    /\ Goto(w, "fail")
    /\ UNCHANGED <<table, log, left, cur, history>>

LogFailure(w) ==
    /\ pc[w] = "fail"
    /\ log' = [log EXCEPT ![w] = "failure"]
    /\ Goto(w, "idle")
    /\ UNCHANGED <<table, left, cur, mishaps, history>>

(* Not even the start, or the failure, can be written: the row stays as it is. *)
LogFails(w) ==
    /\ pc[w] \in {"log", "fail"}
    /\ Mishap
    /\ Goto(w, "idle")
    /\ UNCHANGED <<table, log, left, cur, history>>

(* The process dies: its memory is gone, the table is what it wrote. *)
Crash(w) ==
    /\ Alive(w)
    /\ Mishap
    /\ lost' = IF pc[w] = "record" THEN lost \cup {cur[w][1]} ELSE lost
    /\ cur' = [cur EXCEPT ![w] = NoMail]
    /\ Goto(w, "idle")
    /\ UNCHANGED <<table, log, left, taken, blank, late>>

-----------------------------------------------------------------------------
Work(w) ==
    \/ LogStart(w) \/ Claim(w) \/ NextMail(w)
    \/ Accept(w) \/ AcceptUnheard(w) \/ Refuse(w)
    \/ RecordSent(w) \/ RecordRetry(w)
    \/ AllSettled(w) \/ LogSuccess(w) \/ Stamp(w) \/ LogFailure(w)

GoesWrong(w) ==
    \/ RecordSentFails(w) \/ RecordRetryFails(w)
    \/ RunThrows(w) \/ LogFails(w) \/ Crash(w)

Next ==
    \/ \E m \in Mails : Enqueue(m) \/ BecomeDue(m)
    \/ \E w \in Runs : Tick(w) \/ Work(w) \/ GoesWrong(w)

Spec == Init /\ [][Next]_vars

(* Waits end, the schedule ticks, a run that lives goes on, and a provider
   that is asked for ever takes a mail some time: the retries have no limit. *)
FairSpec ==
    /\ Spec
    /\ \A m \in Mails : WF_vars(BecomeDue(m))
    /\ \A w \in Runs : WF_vars(Tick(w)) /\ WF_vars(Work(w)) /\ SF_vars(Accept(w))

-----------------------------------------------------------------------------
(* A mail reaches its recipient twice only if its acceptance could not be
   recorded, or a second run claimed it while the first still held it.     *)
OnceUnlessLateOrLost ==
    \A m \in Mails : taken[m] > 1 => m \in late \cup lost

(* However runs overlap, what the tables say is true: no mail goes out without
   its variables, which the first delivery clears, none counts as sent that
   nobody took, and a run logged as a success settled all it claimed.        *)
WholeAndTaken ==
    /\ blank = {}
    /\ \A m \in Mails : row[m] = "sent" => taken[m] > 0

SuccessLeavesNothing == \A w \in Runs : log[w] = "success" => left[w] = {}

RecordsAreTrue == WholeAndTaken /\ SuccessLeavesNothing

(* "Mail is patient, not abandoned": unless staff stop the job for good, what
   is enqueued is sent, and known to be.                                    *)
EveryMailSent ==
    \A m \in Mails : row[m] = "unsent" ~> row[m] = "sent"
=============================================================================
