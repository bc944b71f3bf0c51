---------------------------- MODULE MediaAssets ----------------------------
(***************************************************************************)
(* Media: upload, the video worker, delivery and deletion                  *)
(* (src/server/src/modules/media).                                         *)
(*                                                                         *)
(* Three stores are written one after another, never in one transaction:   *)
(* the object store, the rows assets / asset_variants / counters, and the  *)
(* queue of video jobs.  The queue is the one the server really builds     *)
(* (decorators/media.ts): in memory, in the process, without the           *)
(* singletonKey that pg-boss would apply.  So two uploads of one video run *)
(* two jobs at once, and a crash takes the queue with it.                  *)
(*                                                                         *)
(* Content is addressed by its checksum: a content stands for its bytes,   *)
(* and assets.checksum is UNIQUE, so a content has at most one row.  The   *)
(* derivatives of a content are one object here.                           *)
(***************************************************************************)
EXTENDS Handlers, Naturals, FiniteSets

CONSTANTS
    Images,         \* contents that are photographs: derived while the client waits
    Videos,         \* contents that are videos: derived by a job
    Jobs,           \* jobs the process can run at once (bound)
    OrigBytes,      \* size of an original
    DerivedBytes,   \* size of all derivatives of one content
    Quota,          \* MEDIA_ACCOUNT_QUOTA_BYTES
    MaxAssets       \* rows ever inserted (bound)

Contents == Images \cup Videos

ASSUME MediaSizes ==
    /\ OrigBytes \in Nat \ {0}
    /\ DerivedBytes \in Nat \ {0}
    /\ Quota \in Nat
    /\ MaxAssets \in Nat

ASSUME MediaKinds == Images \cap Videos = {}

VARIABLES
    assets,     \* the row of each content, or None
    store,      \* objects in storage: <<content, "original" or "derived">>
    used,       \* counters: stored bytes charged to each member
    req,        \* what each request handler is doing
    job,        \* what each video job is doing
    lastId,     \* ids handed out so far
    deleted,    \* history: contents that had a row deleted
    lost        \* history: videos whose upload or job was cut short when they were
                \* in 'processing', and that no job has taken up since

vars == <<assets, store, used, req, job, lastId, deleted, lost>>

-----------------------------------------------------------------------------
None == [id |-> 0]

Asset ==
    [id: 1..MaxAssets, state: {"processing", "ready", "failed"},
     owner: Members, bytes: Nat, variants: BOOLEAN]

Exists(c) == assets[c] # None
IsRow(c, id) == assets[c].id = id

Original(c) == <<c, "original">>
Derived(c) == <<c, "derived">>
Objects == Contents \X {"original", "derived"}

Handling ==
    {Idle}
    \cup [pc: {"lookup", "insert"}, c: Contents, m: Members]
    \cup [pc: {"enqueue"}, c: Contents, id: 1..MaxAssets]
    \cup [pc: {"remove"}, todo: SUBSET Objects]

Working ==
    {Idle} \cup [pc: {"queued", "derive", "commit", "failing"}, c: Contents, id: 1..MaxAssets]

(* What an upload reserves: the job reserves the derivatives of a video. *)
UploadBytes(c) == IF c \in Images THEN OrigBytes + DerivedBytes ELSE OrigBytes

\* Mutant: the ceiling is compared with what is used already.
FitsBefore(m, amount) == used[m] <= Quota

(* reserve(): refuses what would cross the ceiling. *)
Fits(m, amount) == used[m] + amount <= Quota

(* release(): clamped at zero. *)
Released(n, amount) == IF n >= amount THEN n - amount ELSE 0

(* What GET /media/<checksum>/<variant> can answer with bytes. *)
Served(c) == Exists(c) /\ assets[c].variants /\ Derived(c) \in store

(* Types, and the ceiling: stored bytes stay within the member's quota. *)
TypeOK ==
    /\ assets \in [Contents -> Asset \cup {None}]
    /\ store \in SUBSET Objects
    /\ used \in [Members -> 0..Quota]
    /\ req \in [Requests -> Handling]
    /\ job \in [Jobs -> Working]
    /\ lastId \in 0..MaxAssets
    /\ deleted \in SUBSET Contents
    /\ lost \in SUBSET Videos

Init ==
    /\ assets = [c \in Contents |-> None]
    /\ store = {}
    /\ used = [m \in Members |-> 0]
    /\ req = [r \in Requests |-> Idle]
    /\ job = [j \in Jobs |-> Idle]
    /\ lastId = 0
    /\ deleted = {}
    /\ lost = {}

-----------------------------------------------------------------------------
\* Mutant: the derivatives are left to the worker, but the row says ready.
WrittenOriginal(c) == {Original(c)}

(* POST /media. An image is stripped and derived, a video is probed, before
   anything is written: a failure there leaves nothing behind. Then the
   objects, before the row.                                                  *)
Written(c) == IF c \in Images THEN {Original(c), Derived(c)} ELSE {Original(c)}

Upload(r, m, c) ==
    /\ req[r] = Idle
    /\ store' = store \cup Written(c)
    /\ req' = [req EXCEPT ![r] = [pc |-> "lookup", c |-> c, m |-> m]]
    /\ UNCHANGED <<assets, used, job, lastId, deleted, lost>>

(* The row a handler goes on with: a video is queued, an image is answered. *)
Continue(r, c, id) ==
    req' = [req EXCEPT ![r] = IF c \in Videos
                              THEN [pc |-> "enqueue", c |-> c, id |-> id]
                              ELSE Idle]

(* SELECT ... WHERE checksum: an existing row is the answer, whatever its
   state and whoever uploaded it.                                           *)
Lookup(r) ==
    /\ req[r].pc = "lookup"
    /\ LET c == req[r].c IN
        IF Exists(c) THEN Continue(r, c, assets[c].id)
                     ELSE req' = [req EXCEPT ![r].pc = "insert"]
    /\ UNCHANGED <<assets, store, used, job, lastId, deleted, lost>>

(* The rest of the transaction. The lookup locked nothing: a row inserted
   since is a unique violation, which rolls the reservation back. If the
   answer to the COMMIT is lost the row stands, but the handler gives up.   *)
Insert(r) ==
    LET c == req[r].c
        m == req[r].m
    IN  /\ req[r].pc = "insert"
        /\ ~Exists(c)
        /\ Fits(m, UploadBytes(c))
        /\ lastId < MaxAssets
        /\ lastId' = lastId + 1
        /\ assets' = [assets EXCEPT ![c] =
                [id |-> lastId + 1,
                 state |-> IF c \in Images THEN "ready" ELSE "processing",
                 owner |-> m, bytes |-> UploadBytes(c), variants |-> c \in Images]]
        /\ used' = [used EXCEPT ![m] = @ + UploadBytes(c)]
        /\ \/ Continue(r, c, lastId + 1) /\ UNCHANGED lost
           \/ /\ req' = [req EXCEPT ![r] = Idle]
              /\ lost' = lost \cup ({c} \cap Videos)
        /\ UNCHANGED <<store, job, deleted>>

(* A unique violation, a full account, a lost connection. *)
InsertRefused(r) ==
    /\ req[r].pc \in {"lookup", "insert"}
    /\ req' = [req EXCEPT ![r] = Idle]
    /\ UNCHANGED <<assets, store, used, job, lastId, deleted, lost>>

(* After the commit, and outside it. A job starts on the next microtask, and
   any number of them may be running.                                       *)
Enqueue(r, j) ==
    /\ req[r].pc = "enqueue"
    /\ job[j] = Idle
    /\ job' = [job EXCEPT ![j] = [pc |-> "queued", c |-> req[r].c, id |-> req[r].id]]
    /\ req' = [req EXCEPT ![r] = Idle]
    /\ lost' = IF IsRow(req[r].c, req[r].id) THEN lost \ {req[r].c} ELSE lost
    /\ UNCHANGED <<assets, store, used, lastId, deleted>>

-----------------------------------------------------------------------------
(* The row a job is about: it names the asset by its id. The job keeps the
   row it read, of which it uses nothing that changes later: the owner of a
   row is fixed.                                                            *)
Row(j) == assets[job[j].c]
Gone(j) == ~IsRow(job[j].c, job[j].id)

Processing(c, id) == IsRow(c, id) /\ assets[c].state = "processing"

(* The videos in 'processing' that these jobs are about. *)
Worked(some) == {c \in Videos : \E j \in some : job[j] # Idle /\ job[j].c = c
                                               /\ Processing(c, job[j].id)}

(* A job ends and leaves its row as it was: the queue only notes the error. *)
DropJob(j) ==
    /\ job' = [job EXCEPT ![j] = Idle]
    /\ lost' = lost \cup Worked({j})
    /\ UNCHANGED <<assets, store, used, req, lastId, deleted>>

(* The SELECT is before the try. *)
JobReadFails(j) == job[j].pc = "queued" /\ DropJob(j)

JobRead(j) ==
    /\ job[j].pc = "queued"
    /\ job' = [job EXCEPT ![j] =
            IF Gone(j) \/ Row(j).state = "ready" THEN Idle ELSE [@ EXCEPT !.pc = "derive"]]
    /\ UNCHANGED <<assets, store, used, req, lastId, deleted, lost>>

(* Read the original, transcode, write the derivatives: all before the
   transaction.                                                          *)
JobDerive(j) ==
    /\ job[j].pc = "derive"
    /\ Original(job[j].c) \in store
    /\ store' = store \cup {Derived(job[j].c)}
    /\ job' = [job EXCEPT ![j].pc = "commit"]
    /\ UNCHANGED <<assets, used, req, lastId, deleted, lost>>

JobFailing(j) == job' = [job EXCEPT ![j].pc = "failing"]

(* The original is gone, ffmpeg or the store failed, the breaker is open. *)
JobThrows(j) ==
    /\ job[j].pc = "derive"
    /\ JobFailing(j)
    /\ UNCHANGED <<assets, store, used, req, lastId, deleted, lost>>

\* Mutant: the reservation counts, the row's bytes do not.
JobCommitUncounted(j) ==
    /\ job[j].pc = "commit"
    /\ ~Gone(j)
    /\ Fits(Row(j).owner, DerivedBytes)
    /\ assets' = [assets EXCEPT ![job[j].c].variants = TRUE, ![job[j].c].state = "ready"]
    /\ used' = [used EXCEPT ![Row(j).owner] = @ + DerivedBytes]
    /\ job' = [job EXCEPT ![j] = Idle]
    /\ UNCHANGED <<store, req, lastId, deleted, lost>>

(* Variants, reservation and row in one transaction. The state is not read
   again: a job that lost a race charges what it derived once more. If the
   answer to the COMMIT is lost, the catch runs all the same.               *)
JobCommit(j) ==
    LET c == job[j].c
        m == Row(j).owner
    IN  /\ job[j].pc = "commit"
        /\ ~Gone(j)
        /\ Fits(m, DerivedBytes)
        /\ assets' = [assets EXCEPT ![c].variants = TRUE,
                                    ![c].state = "ready",
                                    ![c].bytes = @ + DerivedBytes]
        /\ used' = [used EXCEPT ![m] = @ + DerivedBytes]
        /\ job' = [job EXCEPT ![j] = Idle] \/ JobFailing(j)
        /\ UNCHANGED <<store, req, lastId, deleted, lost>>

(* A deleted asset fails the variants' foreign key, a full account the
   reservation, a lost connection anything: the transaction rolls back.    *)
JobCommitFails(j) ==
    /\ job[j].pc = "commit"
    /\ JobFailing(j)
    /\ UNCHANGED <<assets, store, used, req, lastId, deleted, lost>>

\* Mutant: the catch only logs.
JobForgets(j) ==
    /\ job[j].pc = "failing"
    /\ job' = [job EXCEPT ![j] = Idle]
    /\ UNCHANGED <<assets, store, used, req, lastId, deleted, lost>>

(* UPDATE assets SET state = 'failed' WHERE id: whatever the state is now. *)
JobRecordFailure(j) ==
    /\ job[j].pc = "failing"
    /\ assets' = IF Gone(j) THEN assets
                 ELSE [assets EXCEPT ![job[j].c].state = "failed"]
    /\ job' = [job EXCEPT ![j] = Idle]
    /\ UNCHANGED <<store, used, req, lastId, deleted, lost>>

(* That UPDATE is in the catch, and nothing catches its own failure. *)
JobRecordFails(j) == job[j].pc = "failing" /\ DropJob(j)

-----------------------------------------------------------------------------
(* DELETE /media/:id. The row and the counter in one transaction; the bytes
   go afterwards, since no other row has the checksum. An asset that a post, a
   listing or a profile shows is not deleted (ON DELETE RESTRICT): the request
   fails and nothing changes.                                                *)
Delete(r, c) ==
    /\ req[r] = Idle
    /\ Exists(c)
    /\ assets' = [assets EXCEPT ![c] = None]
    /\ used' = [used EXCEPT ![assets[c].owner] = Released(@, assets[c].bytes)]
    /\ req' = [req EXCEPT ![r] =
            [pc |-> "remove",
             todo |-> {Original(c)} \cup (IF assets[c].variants THEN {Derived(c)} ELSE {})]]
    /\ deleted' = deleted \cup {c}
    /\ lost' = lost \ {c}
    /\ UNCHANGED <<store, job, lastId>>

(* Promise.allSettled: all at once, and a removal that fails leaves its
   object behind.                                                        *)
Remove(r) ==
    /\ req[r].pc = "remove"
    /\ \E removed \in SUBSET req[r].todo : store' = store \ removed
    /\ req' = [req EXCEPT ![r] = Idle]
    /\ UNCHANGED <<assets, used, job, lastId, deleted, lost>>

(* The videos in 'processing' that wait to be enqueued. *)
Waiting == {c \in Videos : \E r \in Requests : req[r].pc = "enqueue" /\ req[r].c = c
                                             /\ Processing(c, req[r].id)}

(* The process ends: handlers and the queue in memory are gone. *)
Crash ==
    /\ req' = [r \in Requests |-> Idle]
    /\ job' = [j \in Jobs |-> Idle]
    /\ lost' = lost \cup Waiting \cup Worked(Jobs)
    /\ UNCHANGED <<assets, store, used, lastId, deleted>>

-----------------------------------------------------------------------------
HandlerStep(r) ==
    \/ Lookup(r)
    \/ Insert(r)
    \/ InsertRefused(r)
    \/ \E j \in Jobs : Enqueue(r, j)
    \/ Remove(r)

JobStep(j) ==
    \/ JobRead(j)
    \/ JobReadFails(j)
    \/ JobDerive(j)
    \/ JobThrows(j)
    \/ JobCommit(j)
    \/ JobCommitFails(j)
    \/ JobRecordFailure(j)
    \/ JobRecordFails(j)

Next ==
    \/ \E r \in Requests, m \in Members, c \in Contents : Upload(r, m, c)
    \/ \E r \in Requests, c \in Contents : Delete(r, c)
    \/ \E r \in Requests : HandlerStep(r)
    \/ \E j \in Jobs : JobStep(j)
    \/ Crash

Spec == Init /\ [][Next]_vars

(* A handler and a job run to their end unless the process dies: every await
   in them has a time limit (the request deadline, the video breaker).      *)
FairSpec ==
    /\ Spec
    /\ \A r \in Requests : WF_vars(HandlerStep(r))
    /\ \A j \in Jobs : WF_vars(JobStep(j))

-----------------------------------------------------------------------------
(* One element for every byte that the rows of a member stand for: as many as
   the sum of their bytes.                                                   *)
StoredBytes(m) ==
    UNION {{c} \X (1..assets[c].bytes) :
              c \in {d \in Contents : Exists(d) /\ assets[d].owner = m}}

(* The counter of a member is the sum of the bytes of their rows, whatever
   jobs and deletions overlap: worker.ts charges in the transaction that
   records the rows "so the counter can never disagree with the rows".     *)
LedgerMatches == \A m \in Members : used[m] = Cardinality(StoredBytes(m))

(* Storage first, database second: a row never points at bytes that were not
   written. It holds for every content that has had no row deleted.         *)
WrittenBeforeRecorded ==
    \A c \in Contents : Exists(c) /\ c \notin deleted =>
        /\ Original(c) \in store
        /\ assets[c].variants => Derived(c) \in store

(* In no run, and refuted by Remove after a new upload of the same bytes: what
   the immutable URL of a ready asset names can be served, whatever was deleted
   ("a ready asset with no derivatives is worse than a refused upload").    *)
ReadyIsServed ==
    \A c \in Contents : Exists(c) /\ assets[c].state = "ready" => Served(c)

(* In no run, proved: a video in 'processing' waits for its job, has one, or
   was lost.                                                                *)
NobodyForgets ==
    \A c \in Videos : Exists(c) /\ assets[c].state = "processing" =>
        c \in Waiting \cup Worked(Jobs) \cup lost

(* What is left of "An asset never stays processing ... the catch around
   everything" (worker.ts:17-24): a video does not stay in 'processing', unless
   it was lost: the process died, the handler was not told of its COMMIT, the
   job could not read the row (before its try) or could not record the failure
   (in its catch). The queue in memory does not run a job again; the next
   upload of the same bytes does.                                             *)
ProcessingEnds ==
    \A c \in Videos, i \in 1..MaxAssets :
        Processing(c, i) ~> (~Processing(c, i) \/ c \in lost)
=============================================================================
