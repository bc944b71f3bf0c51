--------------------------- MODULE CapacityProofs ---------------------------
(***************************************************************************)
(* Proofs about the two components that count against a ceiling.           *)
(*                                                                         *)
(* MediaAssets, for any number of members, contents, requests and jobs,    *)
(* any sizes and any quota.  Objects are only ever removed by a deletion,  *)
(* so whoever still has to write a row finds what it wrote to storage, as  *)
(* long as nobody has deleted that content; and whoever writes a row also  *)
(* writes its member's counter, in one transaction.                        *)
(*                                                                         *)
(* EventRsvp (the second half), for any number of members and requests,    *)
(* any capacity and any prices.  What makes a seat safe is that one        *)
(* registration at a time is between its count and its commit.             *)
(*                                                                         *)
(* The bytes of a member and the seats of an event are counted alike: one  *)
(* element for each unit, and CountByOne takes the units of one content or *)
(* of one member apart from the rest.                                      *)
(***************************************************************************)
EXTENDS MediaAssets, EventRsvp, FiniteSetTheorems, TLAPS

\* What a deletion is about to remove belongs to a content that was deleted.
RemovesDeleted ==
    \A r \in Requests : req[r].pc = "remove" => \A o \in req[r].todo : o[1] \in deleted

\* A request that will insert a row has written its objects.
UploadWritten ==
    \A r \in Requests :
        req[r].pc \in {"lookup", "insert"} /\ req[r].c \notin deleted =>
            Written(req[r].c) \subseteq store

\* A job that will record derivatives has written them.
DerivedWritten ==
    \A j \in Jobs :
        job[j].pc = "commit" /\ job[j].c \notin deleted => Derived(job[j].c) \in store

IInv == TypeOK /\ RemovesDeleted /\ UploadWritten /\ DerivedWritten /\ WrittenBeforeRecorded

-----------------------------------------------------------------------------
(* What a handler and a job know, by the step they are at. *)

LEMMA RequestKnows ==
    ASSUME TypeOK, NEW r \in Requests
    PROVE  /\ req[r].pc \in {"lookup", "insert"} => req[r].c \in Contents /\ req[r].m \in Members
           /\ req[r].pc = "enqueue" => req[r].c \in Contents /\ req[r].id \in 1..MaxAssets
           /\ req[r].pc = "remove" => req[r].todo \in SUBSET Objects
<1>1. req[r] \in Handling
  BY DEF TypeOK
<1> QED
  BY <1>1 DEF Handling, Idle

LEMMA JobKnows ==
    ASSUME TypeOK, NEW j \in Jobs, job[j].pc # "idle"
    PROVE  /\ job[j] \in [pc: {"queued", "derive", "commit", "failing"}, c: Contents, id: 1..MaxAssets]
           /\ job[j].c \in Contents
           /\ job[j].id \in 1..MaxAssets
<1>1. job[j] \in Working
  BY DEF TypeOK
<1> QED
  BY <1>1 DEF Working, Idle

LEMMA RowKnows ==
    ASSUME TypeOK, NEW c \in Contents, Exists(c)
    PROVE  assets[c] \in Asset
BY DEF TypeOK, Exists

\* A job's row is there unless it is gone.
LEMMA RowOfJob ==
    ASSUME TypeOK, NEW j \in Jobs, job[j].pc # "idle", ~Gone(j)
    PROVE  Exists(job[j].c) /\ Row(j) \in Asset
<1>1. job[j].c \in Contents /\ job[j].id \in 1..MaxAssets
  BY JobKnows
<1>2. Row(j).id # 0
  BY <1>1 DEF Gone, IsRow, Row
<1>3. Exists(job[j].c)
  BY <1>2 DEF Exists, Row, None
<1> QED
  BY <1>1, <1>3, RowKnows DEF Row

-----------------------------------------------------------------------------
(* Types and the quota. *)

LEMMA UploadTypes ==
    ASSUME TypeOK, NEW r \in Requests, NEW m \in Members, NEW c \in Contents, Upload(r, m, c)
    PROVE  TypeOK'
<1>1. [pc |-> "lookup", c |-> c, m |-> m] \in Handling
  BY DEF Handling
<1>2. Written(c) \subseteq Objects
  BY DEF Written, Objects, Original, Derived
<1> QED
  BY <1>1, <1>2 DEF TypeOK, Upload

LEMMA ContinueTypes ==
    ASSUME TypeOK, NEW r \in Requests, NEW c \in Contents, NEW id \in 1..MaxAssets,
           Continue(r, c, id)
    PROVE  req' \in [Requests -> Handling]
<1>1. [pc |-> "enqueue", c |-> c, id |-> id] \in Handling /\ Idle \in Handling
  BY DEF Handling
<1> QED
  BY <1>1 DEF TypeOK, Continue

LEMMA LookupTypes ==
    ASSUME TypeOK, NEW r \in Requests, Lookup(r)
    PROVE  TypeOK'
<1> DEFINE c == req[r].c
<1>1. req[r].pc = "lookup" /\ UNCHANGED <<assets, store, used, job, lastId, deleted, lost>>
  BY DEF Lookup
<1>2. c \in Contents /\ req[r].m \in Members
  BY <1>1, RequestKnows
<1>3. CASE Exists(c)
  <2>1. assets[c].id \in 1..MaxAssets
    BY <1>2, <1>3, RowKnows DEF Asset
  <2>2. Continue(r, c, assets[c].id)
    BY <1>3 DEF Lookup
  <2> QED
    BY <1>1, <1>2, <2>1, <2>2, ContinueTypes DEF TypeOK
<1>4. CASE ~Exists(c)
  <2>1. req' = [req EXCEPT ![r].pc = "insert"]
    BY <1>4 DEF Lookup
  <2>2. req[r] \in Handling
    BY DEF TypeOK
  <2>3. [req[r] EXCEPT !.pc = "insert"] \in Handling
    BY <1>1, <2>2 DEF Handling, Idle
  <2> QED
    BY <1>1, <2>1, <2>3 DEF TypeOK
<1> QED
  BY <1>3, <1>4

LEMMA InsertTypes ==
    ASSUME TypeOK, NEW r \in Requests, Insert(r)
    PROVE  TypeOK'
<1> DEFINE c == req[r].c
           m == req[r].m
<1>1. /\ req[r].pc = "insert"
      /\ Fits(m, UploadBytes(c))
      /\ lastId < MaxAssets /\ lastId' = lastId + 1
      /\ used' = [used EXCEPT ![m] = @ + UploadBytes(c)]
      /\ Continue(r, c, lastId + 1) \/ req' = [req EXCEPT ![r] = Idle]
      /\ lost' \subseteq lost \cup Videos
      /\ UNCHANGED <<store, job, deleted>>
  BY DEF Insert
<1>2. c \in Contents /\ m \in Members
  BY <1>1, RequestKnows
<1>3. UploadBytes(c) \in Nat
  BY MediaSizes DEF UploadBytes
<1>4. lastId + 1 \in 1..MaxAssets
  BY <1>1, MediaSizes DEF TypeOK
<1>5. assets' \in [Contents -> Asset \cup {None}]
  <2> DEFINE new == [id |-> lastId + 1,
                     state |-> IF c \in Images THEN "ready" ELSE "processing",
                     owner |-> m, bytes |-> UploadBytes(c), variants |-> c \in Images]
  <2>1. new \in Asset
    BY <1>2, <1>3, <1>4 DEF Asset
  <2>2. assets' = [assets EXCEPT ![c] = new]
    BY DEF Insert
  <2> QED
    BY <2>1, <2>2 DEF TypeOK
<1>6. used' \in [Members -> 0..Quota]
  BY <1>1, <1>2, <1>3, MediaSizes DEF TypeOK, Fits
<1>7. req' \in [Requests -> Handling]
  <2>1. Idle \in Handling
    BY DEF Handling
  <2> QED
    BY <1>1, <1>2, <1>4, <2>1, ContinueTypes DEF TypeOK
<1> QED
  BY <1>1, <1>4, <1>5, <1>6, <1>7 DEF TypeOK

LEMMA EnqueueTypes ==
    ASSUME TypeOK, NEW r \in Requests, NEW j \in Jobs, Enqueue(r, j)
    PROVE  TypeOK'
<1>1. req[r].c \in Contents /\ req[r].id \in 1..MaxAssets
  BY RequestKnows DEF Enqueue
<1>2. [pc |-> "queued", c |-> req[r].c, id |-> req[r].id] \in Working /\ Idle \in Handling
  BY <1>1 DEF Working, Handling
<1> QED
  BY <1>2 DEF TypeOK, Enqueue

\* A job that only moves to another step keeps its type.
LEMMA JobMoves ==
    ASSUME TypeOK, NEW j \in Jobs, job[j].pc # "idle",
           NEW to \in {"queued", "derive", "commit", "failing"},
           job' = [job EXCEPT ![j].pc = to]
    PROVE  job' \in [Jobs -> Working]
<1>1. job[j] \in [pc: {"queued", "derive", "commit", "failing"}, c: Contents, id: 1..MaxAssets]
  BY JobKnows
<1>2. [job[j] EXCEPT !.pc = to] \in Working
  BY <1>1 DEF Working
<1>3. job \in [Jobs -> Working]
  BY DEF TypeOK
<1> QED
  BY <1>2, <1>3

LEMMA JobReadTypes ==
    ASSUME TypeOK, NEW j \in Jobs, JobRead(j)
    PROVE  TypeOK'
<1>1. job[j].pc = "queued" /\ UNCHANGED <<assets, store, used, req, lastId, deleted, lost>>
  BY DEF JobRead
<1>2. job' \in [Jobs -> Working]
  <2>1. CASE Gone(j) \/ Row(j).state = "ready"
    <3>1. Idle \in Working
      BY DEF Working
    <3>2. job' = [job EXCEPT ![j] = Idle]
      BY <2>1 DEF JobRead
    <3> QED
      BY <3>1, <3>2 DEF TypeOK
  <2>2. CASE ~(Gone(j) \/ Row(j).state = "ready")
    <3>1. job' = [job EXCEPT ![j] = [@ EXCEPT !.pc = "derive"]]
      BY <2>2 DEF JobRead
    <3>2. job' = [job EXCEPT ![j].pc = "derive"]
      BY <3>1
    <3> QED
      BY <1>1, <3>2, JobMoves
  <2> QED
    BY <2>1, <2>2
<1> QED
  BY <1>1, <1>2 DEF TypeOK

LEMMA JobDeriveTypes ==
    ASSUME TypeOK, NEW j \in Jobs, JobDerive(j)
    PROVE  TypeOK'
<1>1. job[j].pc = "derive" /\ job' = [job EXCEPT ![j].pc = "commit"]
  BY DEF JobDerive
<1>2. job[j].c \in Contents
  BY <1>1, JobKnows
<1>3. store' \in SUBSET Objects
  BY <1>2 DEF TypeOK, JobDerive, Derived, Objects
<1>4. job' \in [Jobs -> Working]
  BY <1>1, JobMoves
<1> QED
  BY <1>3, <1>4 DEF TypeOK, JobDerive

LEMMA JobFailsTypes ==
    ASSUME TypeOK, NEW j \in Jobs, JobThrows(j) \/ JobCommitFails(j)
    PROVE  TypeOK'
<1>1. job[j].pc # "idle" /\ job' = [job EXCEPT ![j].pc = "failing"]
  BY DEF JobThrows, JobCommitFails, JobFailing
<1>2. job' \in [Jobs -> Working]
  BY <1>1, JobMoves
<1> QED
  BY <1>2 DEF TypeOK, JobThrows, JobCommitFails

LEMMA JobCommitTypes ==
    ASSUME TypeOK, NEW j \in Jobs, JobCommit(j)
    PROVE  TypeOK'
<1> DEFINE c == job[j].c
           m == Row(j).owner
           row == [assets[c] EXCEPT !.variants = TRUE, !.state = "ready", !.bytes = @ + DerivedBytes]
<1>1. job[j].pc = "commit" /\ ~Gone(j) /\ Fits(m, DerivedBytes)
  BY DEF JobCommit
<1>2. c \in Contents /\ assets[c] \in Asset
  BY <1>1, JobKnows, RowOfJob DEF Row
<1>3. m \in Members
  BY <1>2 DEF Asset, Row
<1>4. row \in Asset
  <2>1. ASSUME NEW a \in Asset
        PROVE  [a EXCEPT !.variants = TRUE, !.state = "ready", !.bytes = @ + DerivedBytes] \in Asset
    <3>1. a.bytes + DerivedBytes \in Nat
      BY MediaSizes DEF Asset
    <3> QED
      BY <3>1 DEF Asset
  <2> QED
    BY <1>2, <2>1
<1>5. assets' = [assets EXCEPT ![c] = row]
  BY <1>2 DEF JobCommit, TypeOK
<1>6. assets' \in [Contents -> Asset \cup {None}]
  BY <1>4, <1>5 DEF TypeOK
<1>7. used' \in [Members -> 0..Quota]
  BY <1>1, <1>3, MediaSizes DEF TypeOK, JobCommit, Fits
<1>8. job' \in [Jobs -> Working]
  <2>1. CASE job' = [job EXCEPT ![j] = Idle]
    BY <2>1 DEF TypeOK, Working
  <2>2. CASE JobFailing(j)
    BY <1>1, <2>2, JobMoves DEF JobFailing
  <2> QED
    BY <2>1, <2>2 DEF JobCommit
<1> QED
  BY <1>6, <1>7, <1>8 DEF TypeOK, JobCommit

LEMMA JobRecordFailureTypes ==
    ASSUME TypeOK, NEW j \in Jobs, JobRecordFailure(j)
    PROVE  TypeOK'
<1>1. job' \in [Jobs -> Working]
  BY DEF TypeOK, JobRecordFailure, Working
<1>2. assets' \in [Contents -> Asset \cup {None}]
  <2>1. CASE Gone(j)
    BY <2>1 DEF TypeOK, JobRecordFailure
  <2>2. CASE ~Gone(j)
    <3>1. assets[job[j].c] \in Asset
      BY <2>2, RowOfJob DEF JobRecordFailure, Row
    <3>2. [assets[job[j].c] EXCEPT !.state = "failed"] \in Asset
      BY <3>1 DEF Asset
    <3>3. assets' = [assets EXCEPT ![job[j].c].state = "failed"]
      BY <2>2 DEF JobRecordFailure
    <3> QED
      BY <3>2, <3>3 DEF TypeOK
  <2> QED
    BY <2>1, <2>2
<1> QED
  BY <1>1, <1>2 DEF TypeOK, JobRecordFailure

LEMMA DropJobTypes ==
    ASSUME TypeOK, NEW j \in Jobs, JobReadFails(j) \/ JobRecordFails(j)
    PROVE  TypeOK'
<1>1. DropJob(j)
  BY DEF JobReadFails, JobRecordFails
<1>2. job' \in [Jobs -> Working]
  BY <1>1 DEF TypeOK, DropJob, Working
<1>3. lost' \in SUBSET Videos
  BY <1>1 DEF TypeOK, DropJob, Worked
<1> QED
  BY <1>1, <1>2, <1>3 DEF TypeOK, DropJob

LEMMA DeleteTypes ==
    ASSUME TypeOK, NEW r \in Requests, NEW c \in Contents, Delete(r, c)
    PROVE  TypeOK'
<1> DEFINE todo == {Original(c)} \cup (IF assets[c].variants THEN {Derived(c)} ELSE {})
<1>1. assets[c] \in Asset
  BY RowKnows DEF Delete
<1>2. todo \in SUBSET Objects
  BY DEF Objects, Original, Derived
<1>3. [pc |-> "remove", todo |-> todo] \in Handling
  BY <1>2 DEF Handling
<1>4. req' \in [Requests -> Handling]
  BY <1>3 DEF TypeOK, Delete
<1>5. assets[c].owner \in Members /\ assets[c].bytes \in Nat
  BY <1>1 DEF Asset
<1>6. used' \in [Members -> 0..Quota]
  BY <1>5, MediaSizes DEF TypeOK, Delete, Released
<1> QED
  BY <1>4, <1>6 DEF TypeOK, Delete

THEOREM TypeStep == TypeOK /\ [Next]_vars => TypeOK'
<1> SUFFICES ASSUME TypeOK, [Next]_vars PROVE TypeOK'
  OBVIOUS
<1>1. ASSUME NEW r \in Requests, NEW m \in Members, NEW c \in Contents, Upload(r, m, c)
      PROVE  TypeOK'
  BY <1>1, UploadTypes
<1>2. ASSUME NEW r \in Requests, NEW c \in Contents, Delete(r, c)
      PROVE  TypeOK'
  BY <1>2, DeleteTypes
<1>3. ASSUME NEW r \in Requests, HandlerStep(r)
      PROVE  TypeOK'
  <2>1. CASE Lookup(r)
    BY <2>1, LookupTypes
  <2>2. CASE Insert(r)
    BY <2>2, InsertTypes
  <2>3. CASE InsertRefused(r)
    BY <2>3 DEF TypeOK, InsertRefused, Handling
  <2>4. CASE \E j \in Jobs : Enqueue(r, j)
    BY <2>4, EnqueueTypes
  <2>5. CASE Remove(r)
    BY <2>5 DEF TypeOK, Remove, Handling
  <2> QED
    BY <1>3, <2>1, <2>2, <2>3, <2>4, <2>5 DEF HandlerStep
<1>4. ASSUME NEW j \in Jobs, JobStep(j)
      PROVE  TypeOK'
  BY <1>4, JobReadTypes, JobDeriveTypes, JobFailsTypes, JobCommitTypes, JobRecordFailureTypes,
     DropJobTypes DEF JobStep
<1>5. CASE Crash
  BY <1>5, MediaSizes DEF TypeOK, Crash, Handling, Working, Waiting, Worked
<1>6. CASE UNCHANGED vars
  BY <1>6 DEF TypeOK, vars
<1> QED
  BY <1>1, <1>2, <1>3, <1>4, <1>5, <1>6 DEF Next

(* Whatever overlaps, a stored row is well formed and no member is charged
   more than the quota: both reservations are checked where they are made.  *)
THEOREM TypeCorrect == Spec => []TypeOK
<1>1. Init => TypeOK
  BY MediaSizes DEF Init, TypeOK, Handling, Working
<1> QED
  BY <1>1, TypeStep, PTL DEF Spec

-----------------------------------------------------------------------------
(* Storage first, database second. *)

\* Only a content that was deleted loses objects.
LEMMA StoreKeeps ==
    ASSUME TypeOK, RemovesDeleted, [Next]_vars,
           NEW c \in Contents, c \notin deleted', NEW k \in {"original", "derived"},
           <<c, k>> \in store
    PROVE  <<c, k>> \in store'
<1>1. CASE store \subseteq store'
  BY <1>1
<1>2. ASSUME NEW r \in Requests, Remove(r)
      PROVE  <<c, k>> \in store'
  <2>1. PICK removed \in SUBSET req[r].todo : store' = store \ removed
    BY <1>2 DEF Remove
  <2>2. \A o \in req[r].todo : o[1] \in deleted
    BY <1>2 DEF Remove, RemovesDeleted
  <2>3. <<c, k>> \notin req[r].todo
    <3>1. <<c, k>>[1] = c
      OBVIOUS
    <3>2. deleted' = deleted
      BY <1>2 DEF Remove
    <3> QED
      BY <2>2, <3>1, <3>2
  <2> QED
    BY <2>1, <2>3
<1> QED
  BY <1>1, <1>2 DEF Next, vars, HandlerStep, JobStep, Upload, Delete, Lookup, Insert, InsertRefused,
        Enqueue, JobRead, JobReadFails, JobDerive, JobThrows, JobCommit, JobCommitFails,
        JobRecordFailure, JobRecordFails, DropJob, Crash

LEMMA DeletedGrows == [Next]_vars => deleted \subseteq deleted'
BY DEF Next, vars, HandlerStep, JobStep, Upload, Delete, Lookup, Insert, InsertRefused, Enqueue,
       Remove, JobRead, JobReadFails, JobDerive, JobThrows, JobCommit, JobCommitFails,
       JobRecordFailure, JobRecordFails, DropJob, Crash

LEMMA RemovesDeletedStep == TypeOK /\ RemovesDeleted /\ [Next]_vars => RemovesDeleted'
<1> SUFFICES ASSUME TypeOK, RemovesDeleted, [Next]_vars,
                    NEW q \in Requests, req'[q].pc = "remove", NEW o \in req'[q].todo
             PROVE  o[1] \in deleted'
  BY DEF RemovesDeleted
<1>1. CASE req'[q] = req[q]
  BY <1>1, DeletedGrows DEF RemovesDeleted
<1>2. ASSUME NEW r \in Requests, NEW c \in Contents, Delete(r, c)
      PROVE  o[1] \in deleted'
  <2>1. CASE q = r
    <3>1. req'[q].todo = {Original(c)} \cup (IF assets[c].variants THEN {Derived(c)} ELSE {})
      BY <1>2, <2>1 DEF Delete, TypeOK
    <3>2. o = Original(c) \/ o = Derived(c)
      BY <3>1
    <3> QED
      BY <1>2, <3>2 DEF Delete, Original, Derived
  <2>2. CASE q # r
    BY <1>1, <1>2, <2>2 DEF Delete, TypeOK
  <2> QED
    BY <2>1, <2>2
<1>3. CASE UNCHANGED req
  BY <1>1, <1>3
<1>4. ASSUME NEW r \in Requests, NEW to, req' = [req EXCEPT ![r] = to], to.pc # "remove"
      PROVE  o[1] \in deleted'
  BY <1>1, <1>4 DEF TypeOK
<1>5. ASSUME NEW r \in Requests, HandlerStep(r)
      PROVE  o[1] \in deleted'
  <2>1. Idle.pc # "remove"
    BY DEF Idle
  <2>2. ASSUME NEW c, NEW id, Continue(r, c, id)
        PROVE  o[1] \in deleted'
    <3>1. CASE c \in Videos
      <4> DEFINE to == [pc |-> "enqueue", c |-> c, id |-> id]
      <4>1. req' = [req EXCEPT ![r] = to]
        BY <2>2, <3>1 DEF Continue
      <4>2. to.pc # "remove"
        OBVIOUS
      <4> HIDE DEF to
      <4> QED
        BY <1>4, <4>1, <4>2
    <3>2. CASE c \notin Videos
      BY <1>4, <2>1, <2>2, <3>2 DEF Continue
    <3> QED
      BY <3>1, <3>2
  <2>3. CASE Lookup(r)
    <3>1. CASE Exists(req[r].c)
      BY <2>2, <2>3, <3>1 DEF Lookup
    <3>2. CASE ~Exists(req[r].c)
      <4>1. req' = [req EXCEPT ![r].pc = "insert"] /\ req[r].pc = "lookup"
        BY <2>3, <3>2 DEF Lookup
      <4>2. req[r] \in Handling
        BY DEF TypeOK
      <4>3. [req[r] EXCEPT !.pc = "insert"].pc = "insert"
        BY <4>1, <4>2 DEF Handling, Idle
      <4> QED
        BY <1>4, <4>1, <4>3
    <3> QED
      BY <3>1, <3>2
  <2>4. CASE Insert(r)
    BY <1>4, <2>1, <2>2, <2>4 DEF Insert
  <2>5. CASE InsertRefused(r)
    BY <1>4, <2>1, <2>5 DEF InsertRefused
  <2>6. CASE \E j \in Jobs : Enqueue(r, j)
    BY <1>4, <2>1, <2>6 DEF Enqueue
  <2>7. CASE Remove(r)
    BY <1>4, <2>1, <2>7 DEF Remove
  <2> QED
    BY <1>5, <2>3, <2>4, <2>5, <2>6, <2>7 DEF HandlerStep
<1>6. ASSUME NEW r \in Requests, NEW m \in Members, NEW c \in Contents, Upload(r, m, c)
      PROVE  o[1] \in deleted'
  <2> DEFINE to == [pc |-> "lookup", c |-> c, m |-> m]
  <2>1. req' = [req EXCEPT ![r] = to]
    BY <1>6 DEF Upload
  <2>2. to.pc # "remove"
    OBVIOUS
  <2> HIDE DEF to
  <2> QED
    BY <1>4, <2>1, <2>2
<1>7. CASE Crash
  BY <1>7 DEF Crash, Idle
<1>8. ASSUME NEW j \in Jobs, JobStep(j)
      PROVE  UNCHANGED req
  BY <1>8 DEF JobStep, JobRead, JobReadFails, JobDerive, JobThrows, JobCommit, JobCommitFails,
     JobRecordFailure, JobRecordFails, DropJob
<1> QED
  BY <1>2, <1>3, <1>5, <1>6, <1>7, <1>8 DEF Next, vars

LEMMA UploadWrittenStep ==
    TypeOK /\ RemovesDeleted /\ UploadWritten /\ [Next]_vars => UploadWritten'
<1> SUFFICES ASSUME TypeOK, RemovesDeleted, UploadWritten, [Next]_vars,
                    NEW q \in Requests, req'[q].pc \in {"lookup", "insert"},
                    req'[q].c \notin deleted', NEW o \in Written(req'[q].c)
             PROVE  o \in store'
  BY DEF UploadWritten
\* The objects of a request that was already there stay.
<1>1. ASSUME req[q].pc \in {"lookup", "insert"}, req'[q].c = req[q].c
      PROVE  o \in store'
  <2>1. req[q].c \in Contents /\ req[q].c \notin deleted
    BY <1>1, RequestKnows, DeletedGrows
  <2>2. o \in store
    BY <1>1, <2>1 DEF UploadWritten
  <2>3. o = Original(req[q].c) \/ o = Derived(req[q].c)
    BY <1>1 DEF Written
  <2> QED
    BY <1>1, <2>1, <2>2, <2>3, StoreKeeps DEF Original, Derived
<1>2. CASE req'[q] = req[q]
  BY <1>1, <1>2
<1>3. ASSUME NEW r \in Requests, NEW to, req' = [req EXCEPT ![r] = to],
             to.pc \notin {"lookup", "insert"}
      PROVE  o \in store'
  BY <1>2, <1>3 DEF TypeOK
<1>4. ASSUME NEW r \in Requests, NEW m \in Members, NEW c \in Contents, Upload(r, m, c)
      PROVE  o \in store'
  <2>1. CASE q = r
    <3>1. req'[q].c = c /\ store' = store \cup Written(c)
      BY <1>4, <2>1 DEF Upload, TypeOK
    <3> QED
      BY <3>1
  <2>2. CASE q # r
    BY <1>2, <1>4, <2>2 DEF Upload, TypeOK
  <2> QED
    BY <2>1, <2>2
<1>5. ASSUME NEW r \in Requests, NEW c \in Contents, Delete(r, c)
      PROVE  o \in store'
  <2> DEFINE to == [pc |-> "remove",
                    todo |-> {Original(c)} \cup (IF assets[c].variants THEN {Derived(c)} ELSE {})]
  <2>1. req' = [req EXCEPT ![r] = to]
    BY <1>5 DEF Delete
  <2>2. to.pc \notin {"lookup", "insert"}
    OBVIOUS
  <2> HIDE DEF to
  <2> QED
    BY <1>3, <2>1, <2>2
<1>6. ASSUME NEW r \in Requests, HandlerStep(r)
      PROVE  o \in store'
  <2>1. Idle.pc \notin {"lookup", "insert"}
    BY DEF Idle
  <2>2. ASSUME NEW c, NEW id, Continue(r, c, id)
        PROVE  o \in store'
    <3>1. CASE c \in Videos
      <4> DEFINE to == [pc |-> "enqueue", c |-> c, id |-> id]
      <4>1. req' = [req EXCEPT ![r] = to]
        BY <2>2, <3>1 DEF Continue
      <4>2. to.pc \notin {"lookup", "insert"}
        OBVIOUS
      <4> HIDE DEF to
      <4> QED
        BY <1>3, <4>1, <4>2
    <3>2. CASE c \notin Videos
      BY <1>3, <2>1, <2>2, <3>2 DEF Continue
    <3> QED
      BY <3>1, <3>2
  <2>3. CASE Lookup(r)
    <3>1. CASE Exists(req[r].c)
      BY <2>2, <2>3, <3>1 DEF Lookup
    <3>2. CASE ~Exists(req[r].c)
      <4>1. req' = [req EXCEPT ![r].pc = "insert"] /\ req[r].pc = "lookup"
        BY <2>3, <3>2 DEF Lookup
      <4>2. CASE q = r
        BY <1>1, <4>1, <4>2 DEF TypeOK
      <4>3. CASE q # r
        BY <1>2, <4>1, <4>3 DEF TypeOK
      <4> QED
        BY <4>2, <4>3
    <3> QED
      BY <3>1, <3>2
  <2>4. CASE Insert(r)
    BY <1>3, <2>1, <2>2, <2>4 DEF Insert
  <2>5. CASE InsertRefused(r)
    BY <1>3, <2>1, <2>5 DEF InsertRefused
  <2>6. CASE \E j \in Jobs : Enqueue(r, j)
    BY <1>3, <2>1, <2>6 DEF Enqueue
  <2>7. CASE Remove(r)
    BY <1>3, <2>1, <2>7 DEF Remove
  <2> QED
    BY <1>6, <2>3, <2>4, <2>5, <2>6, <2>7 DEF HandlerStep
<1>7. CASE Crash
  BY <1>7 DEF Crash, Idle
<1>8. CASE UNCHANGED req
  BY <1>2, <1>8
<1>9. ASSUME NEW j \in Jobs, JobStep(j)
      PROVE  UNCHANGED req
  BY <1>9 DEF JobStep, JobRead, JobReadFails, JobDerive, JobThrows, JobCommit, JobCommitFails,
     JobRecordFailure, JobRecordFails, DropJob
<1> QED
  BY <1>4, <1>5, <1>6, <1>7, <1>8, <1>9 DEF Next, vars

LEMMA DerivedWrittenStep ==
    TypeOK /\ RemovesDeleted /\ DerivedWritten /\ [Next]_vars => DerivedWritten'
<1> SUFFICES ASSUME TypeOK, RemovesDeleted, DerivedWritten, [Next]_vars,
                    NEW k \in Jobs, job'[k].pc = "commit", job'[k].c \notin deleted'
             PROVE  Derived(job'[k].c) \in store'
  BY DEF DerivedWritten
<1>1. ASSUME job'[k] = job[k]
      PROVE  Derived(job'[k].c) \in store'
  <2>1. job[k].c \in Contents /\ job[k].c \notin deleted /\ Derived(job[k].c) \in store
    BY <1>1, JobKnows, DeletedGrows DEF DerivedWritten
  <2> QED
    BY <1>1, <2>1, StoreKeeps DEF Derived
<1>2. ASSUME NEW j \in Jobs, JobDerive(j)
      PROVE  Derived(job'[k].c) \in store'
  BY <1>1, <1>2 DEF JobDerive, TypeOK
<1>3. ASSUME NEW j \in Jobs, NEW to \in {"derive", "failing"}, job[j].pc # "idle",
             job' = [job EXCEPT ![j].pc = to]
      PROVE  Derived(job'[k].c) \in store'
  <2>1. job[j] \in [pc: {"queued", "derive", "commit", "failing"}, c: Contents, id: 1..MaxAssets]
    BY <1>3, JobKnows
  <2>2. [job[j] EXCEPT !.pc = to].pc = to
    BY <2>1
  <2>3. k # j
    BY <1>3, <2>2 DEF TypeOK
  <2> QED
    BY <1>1, <1>3, <2>3 DEF TypeOK
<1>4. ASSUME NEW j \in Jobs, job' = [job EXCEPT ![j] = Idle]
      PROVE  Derived(job'[k].c) \in store'
  BY <1>1, <1>4 DEF TypeOK, Idle
<1>5. ASSUME NEW j \in Jobs, JobStep(j)
      PROVE  Derived(job'[k].c) \in store'
  <2>1. CASE JobRead(j)
    <3>1. CASE Gone(j) \/ Row(j).state = "ready"
      BY <1>4, <2>1, <3>1 DEF JobRead
    <3>2. CASE ~(Gone(j) \/ Row(j).state = "ready")
      <4>1. job' = [job EXCEPT ![j] = [@ EXCEPT !.pc = "derive"]] /\ job[j].pc # "idle"
        BY <2>1, <3>2 DEF JobRead
      <4>2. job' = [job EXCEPT ![j].pc = "derive"]
        BY <4>1
      <4> QED
        BY <1>3, <4>1, <4>2
    <3> QED
      BY <3>1, <3>2
  <2>2. CASE JobThrows(j) \/ JobCommitFails(j)
    BY <1>3, <2>2 DEF JobThrows, JobCommitFails, JobFailing
  <2>3. CASE JobCommit(j)
    BY <1>3, <1>4, <2>3 DEF JobCommit, JobFailing
  <2>4. CASE JobRecordFailure(j) \/ JobReadFails(j) \/ JobRecordFails(j)
    BY <1>4, <2>4 DEF JobRecordFailure, JobReadFails, JobRecordFails, DropJob
  <2> QED
    BY <1>2, <1>5, <2>1, <2>2, <2>3, <2>4 DEF JobStep
<1>6. ASSUME NEW r \in Requests, NEW j \in Jobs, Enqueue(r, j)
      PROVE  Derived(job'[k].c) \in store'
  BY <1>1, <1>6 DEF Enqueue, TypeOK
<1>7. CASE Crash
  BY <1>7 DEF Crash, Idle
<1>8. CASE UNCHANGED job
  BY <1>1, <1>8
<1> QED
  BY <1>5, <1>6, <1>7, <1>8
     DEF Next, vars, HandlerStep, Upload, Delete, Lookup, Insert, InsertRefused, Remove

LEMMA RowsStep == IInv /\ [Next]_vars => WrittenBeforeRecorded'
<1> SUFFICES ASSUME IInv, [Next]_vars, NEW x \in Contents, Exists(x)', x \notin deleted'
             PROVE  /\ Original(x) \in store'
                    /\ assets'[x].variants => Derived(x) \in store'
  BY DEF WrittenBeforeRecorded, Exists, Original, Derived
<1>0. TypeOK /\ RemovesDeleted /\ x \notin deleted
  BY DeletedGrows DEF IInv
\* A row that points at no more than it did.
<1>1. ASSUME Exists(x), assets'[x].variants => assets[x].variants
      PROVE  /\ Original(x) \in store'
             /\ assets'[x].variants => Derived(x) \in store'
  <2>1. Original(x) \in store /\ (assets[x].variants => Derived(x) \in store)
    BY <1>0, <1>1 DEF IInv, WrittenBeforeRecorded
  <2> QED
    BY <1>0, <1>1, <2>1, StoreKeeps DEF Original, Derived
<1>2. CASE assets'[x] = assets[x]
  BY <1>1, <1>2 DEF Exists
<1>3. ASSUME NEW r \in Requests, Insert(r)
      PROVE  /\ Original(x) \in store'
             /\ assets'[x].variants => Derived(x) \in store'
  <2>1. CASE x = req[r].c
    <3>1. Written(x) \subseteq store
      BY <1>0, <1>3, <2>1 DEF IInv, UploadWritten, Insert
    <3>2. assets'[x].variants = (x \in Images) /\ store' = store
      BY <1>0, <1>3, <2>1 DEF Insert, TypeOK
    <3> QED
      BY <3>1, <3>2 DEF Written
  <2>2. CASE x # req[r].c
    BY <1>0, <1>2, <1>3, <2>2 DEF Insert, TypeOK
  <2> QED
    BY <2>1, <2>2
<1>4. ASSUME NEW j \in Jobs, JobCommit(j)
      PROVE  /\ Original(x) \in store'
             /\ assets'[x].variants => Derived(x) \in store'
  <2>1. CASE x = job[j].c
    <3>1. Derived(x) \in store /\ store' = store
      BY <1>0, <1>4, <2>1 DEF IInv, DerivedWritten, JobCommit
    <3>2. Exists(x)
      BY <1>0, <1>4, <2>1, RowOfJob DEF JobCommit
    <3>3. Original(x) \in store
      BY <1>0, <3>2 DEF IInv, WrittenBeforeRecorded
    <3> QED
      BY <3>1, <3>3
  <2>2. CASE x # job[j].c
    BY <1>0, <1>2, <1>4, <2>2 DEF JobCommit, TypeOK
  <2> QED
    BY <2>1, <2>2
<1>5. ASSUME NEW j \in Jobs, JobRecordFailure(j)
      PROVE  /\ Original(x) \in store'
             /\ assets'[x].variants => Derived(x) \in store'
  <2>1. CASE Gone(j) \/ x # job[j].c
    BY <1>0, <1>2, <1>5, <2>1 DEF JobRecordFailure, TypeOK
  <2>2. CASE ~Gone(j) /\ x = job[j].c
    <3>1. Exists(x) /\ assets[x] \in Asset
      BY <1>0, <1>5, <2>2, RowOfJob DEF JobRecordFailure, Row
    <3>2. assets'[x] = [assets[x] EXCEPT !.state = "failed"]
      BY <1>0, <1>5, <2>2 DEF JobRecordFailure, TypeOK
    <3>3. assets'[x].variants = assets[x].variants
      BY <3>1, <3>2 DEF Asset
    <3> QED
      BY <1>1, <3>1, <3>3
  <2> QED
    BY <2>1, <2>2
<1>6. ASSUME NEW r \in Requests, NEW c \in Contents, Delete(r, c)
      PROVE  /\ Original(x) \in store'
             /\ assets'[x].variants => Derived(x) \in store'
  <2>1. x # c
    BY <1>6 DEF Delete
  <2> QED
    BY <1>0, <1>2, <1>6, <2>1 DEF Delete, TypeOK
<1>7. CASE UNCHANGED assets
  BY <1>2, <1>7
<1> QED
  BY <1>3, <1>4, <1>5, <1>6, <1>7
     DEF Next, vars, HandlerStep, JobStep, Upload, Lookup, InsertRefused, Enqueue, Remove,
         JobRead, JobReadFails, JobDerive, JobThrows, JobCommitFails,
         JobRecordFails, DropJob, Crash

THEOREM Invariance == Spec => []IInv
<1>1. Init => IInv
  BY MediaSizes DEF Init, IInv, TypeOK, Handling, Working, RemovesDeleted, UploadWritten,
        DerivedWritten, WrittenBeforeRecorded, Exists, Idle
<1>2. IInv /\ [Next]_vars => IInv'
  BY TypeStep, RemovesDeletedStep, UploadWrittenStep, DerivedWrittenStep, RowsStep DEF IInv
<1> QED
  BY <1>1, <1>2, PTL DEF Spec

(* A row never points at bytes that were not written, for every content that
   has had no row deleted: the objects are written before the row that names
   them, and only a deletion removes an object.                              *)
THEOREM StorageFirst == Spec => []WrittenBeforeRecorded
<1>1. IInv => WrittenBeforeRecorded
  BY DEF IInv
<1> QED
  BY <1>1, Invariance, PTL
-----------------------------------------------------------------------------
(* Counting. *)

\* A set of units, n of them those of c, which the rest does not have.
LEMMA CountByOne ==
    ASSUME NEW rest, NEW c, NEW n \in Nat, rest \cap ({c} \X (1..n)) = {}
    PROVE  /\ IsFiniteSet(rest \cup ({c} \X (1..n))) <=> IsFiniteSet(rest)
           /\ IsFiniteSet(rest) =>
                /\ Cardinality(rest) \in Nat
                /\ Cardinality(rest \cup ({c} \X (1..n))) = Cardinality(rest) + n
<1> DEFINE own == {c} \X (1..n)
<1>1. IsFiniteSet(rest \cup own) => IsFiniteSet(rest)
  BY FS_Subset
<1>2. IsFiniteSet(own) /\ Cardinality(own) = n
  <2>1. IsFiniteSet(1..n) /\ Cardinality(1..n) = n
    BY FS_Interval
  <2>2. IsFiniteSet({c}) /\ Cardinality({c}) = 1
    BY FS_Singleton
  <2> QED
    BY <2>1, <2>2, FS_Product
<1>3. rest \cap own = {}
  OBVIOUS
<1> HIDE DEF own
<1>4. ASSUME IsFiniteSet(rest)
      PROVE  /\ IsFiniteSet(rest \cup own)
             /\ Cardinality(rest) \in Nat
             /\ Cardinality(rest \cup own) = Cardinality(rest) + n
  <2>1. Cardinality(rest) \in Nat
    BY <1>4, FS_CardinalityType
  <2>2. Cardinality(rest \cap own) = 0
    BY <1>3, FS_EmptySet
  <2>3. /\ IsFiniteSet(rest \cup own)
        /\ Cardinality(rest \cup own) = Cardinality(rest) + Cardinality(own) - Cardinality(rest \cap own)
    BY <1>2, <1>4, FS_Union
  <2> QED
    BY <1>2, <2>1, <2>2, <2>3
<1>5. /\ IsFiniteSet(rest \cup own) <=> IsFiniteSet(rest)
      /\ IsFiniteSet(rest) =>
            Cardinality(rest) \in Nat /\ Cardinality(rest \cup own) = Cardinality(rest) + n
  BY <1>1, <1>4
<1> QED
  BY <1>5 DEF own

-----------------------------------------------------------------------------
(* The ledger.  The bytes of a member are those of one content and the rest,  *)
(* and a step that writes the row of a content leaves the rest alone.  The    *)
(* lemmas are about any two contents of the table, before and after a step.   *)

Tables == [Contents -> Asset \cup {None}]

\* StoredBytes, of the table t; what the row of c adds to it; and all the rest of it.
Bytes(t, m) ==
    UNION {{c} \X (1..t[c].bytes) : c \in {d \in Contents : t[d] # None /\ t[d].owner = m}}
Charge(t, c, m) == IF t[c] # None /\ t[c].owner = m THEN t[c].bytes ELSE 0
Rest(t, c, m) == {b \in Bytes(t, m) : b[1] # c}

Ledger == \A m \in Members :
    IsFiniteSet(StoredBytes(m)) /\ used[m] = Cardinality(StoredBytes(m))

LEMMA BytesSplit ==
    ASSUME NEW t \in Tables, NEW c \in Contents, NEW m \in Members
    PROVE  /\ Charge(t, c, m) \in Nat
           /\ Bytes(t, m) = Rest(t, c, m) \cup ({c} \X (1..Charge(t, c, m)))
           /\ Rest(t, c, m) \cap ({c} \X (1..Charge(t, c, m))) = {}
<1>1. Charge(t, c, m) \in Nat
  BY DEF Charge, Tables, Asset
<1>2. ASSUME NEW b \in Bytes(t, m), b[1] = c PROVE b \in {c} \X (1..Charge(t, c, m))
  <2>1. PICK d \in Contents : t[d] # None /\ t[d].owner = m /\ b \in {d} \X (1..t[d].bytes)
    BY DEF Bytes
  <2> QED
    BY <1>2, <2>1 DEF Charge
<1>3. {c} \X (1..Charge(t, c, m)) \subseteq Bytes(t, m)
  BY DEF Charge, Bytes
<1>4. Rest(t, c, m) \cap ({c} \X (1..Charge(t, c, m))) = {}
  BY DEF Rest
<1> QED
  BY <1>1, <1>2, <1>3, <1>4 DEF Rest

LEMMA CountRow ==
    ASSUME NEW t \in Tables, NEW c \in Contents, NEW m \in Members
    PROVE  /\ IsFiniteSet(Bytes(t, m)) <=> IsFiniteSet(Rest(t, c, m))
           /\ IsFiniteSet(Bytes(t, m)) =>
                /\ Cardinality(Rest(t, c, m)) \in Nat
                /\ Cardinality(Bytes(t, m)) = Cardinality(Rest(t, c, m)) + Charge(t, c, m)
<1> DEFINE n == Charge(t, c, m)
           rest == Rest(t, c, m)
<1>1. n \in Nat /\ Bytes(t, m) = rest \cup ({c} \X (1..n)) /\ rest \cap ({c} \X (1..n)) = {}
  BY BytesSplit
<1> HIDE DEF n, rest
<1>2. /\ IsFiniteSet(rest \cup ({c} \X (1..n))) <=> IsFiniteSet(rest)
      /\ IsFiniteSet(rest) =>
           /\ Cardinality(rest) \in Nat
           /\ Cardinality(rest \cup ({c} \X (1..n))) = Cardinality(rest) + n
  BY <1>1, CountByOne
<1> QED
  BY <1>1, <1>2 DEF n, rest

\* A step that writes the row of c changes the count by what that row gains or loses.
LEMMA OneRowChanges ==
    ASSUME NEW t \in Tables, NEW u \in Tables, NEW c \in Contents, NEW m \in Members,
           \A d \in Contents : d # c => u[d] = t[d],
           IsFiniteSet(Bytes(t, m))
    PROVE  /\ IsFiniteSet(Bytes(u, m))
           /\ Cardinality(Bytes(t, m)) >= Charge(t, c, m)
           /\ Cardinality(Bytes(u, m)) = Cardinality(Bytes(t, m)) + Charge(u, c, m) - Charge(t, c, m)
<1>1. Rest(u, c, m) = Rest(t, c, m)
  <2>1. \A b : b \in Rest(u, c, m) <=>
          \E d \in Contents : d # c /\ u[d] # None /\ u[d].owner = m
                              /\ b \in {d} \X (1..u[d].bytes)
    BY DEF Rest, Bytes
  <2>2. \A b : b \in Rest(t, c, m) <=>
          \E d \in Contents : d # c /\ t[d] # None /\ t[d].owner = m
                              /\ b \in {d} \X (1..t[d].bytes)
    BY DEF Rest, Bytes
  <2> QED
    BY <2>1, <2>2
<1>2. Charge(t, c, m) \in Nat /\ Charge(u, c, m) \in Nat
  BY BytesSplit
<1>3. /\ IsFiniteSet(Rest(t, c, m)) /\ Cardinality(Rest(t, c, m)) \in Nat
      /\ Cardinality(Bytes(t, m)) = Cardinality(Rest(t, c, m)) + Charge(t, c, m)
  BY CountRow
<1>4. /\ IsFiniteSet(Bytes(u, m))
      /\ Cardinality(Bytes(u, m)) = Cardinality(Rest(u, c, m)) + Charge(u, c, m)
  BY <1>1, <1>3, CountRow
<1> QED
  BY <1>1, <1>2, <1>3, <1>4

\* So the ledger is kept by a step that charges the owner of a row what the row gains.
LEMMA LedgerStep ==
    ASSUME TypeOK, TypeOK', Ledger, NEW c \in Contents,
           \A d \in Contents : d # c => assets'[d] = assets[d],
           \A m \in Members : used[m] >= Charge(assets, c, m) =>
               used'[m] = used[m] + Charge(assets', c, m) - Charge(assets, c, m)
    PROVE  Ledger'
<1> SUFFICES ASSUME NEW m \in Members
             PROVE  IsFiniteSet(StoredBytes(m)') /\ used'[m] = Cardinality(StoredBytes(m)')
  BY DEF Ledger
<1>1. assets \in Tables /\ assets' \in Tables
  BY DEF TypeOK, Tables
<1>2. StoredBytes(m) = Bytes(assets, m) /\ StoredBytes(m)' = Bytes(assets', m)
  BY DEF StoredBytes, Bytes, Exists
<1>3. IsFiniteSet(Bytes(assets, m)) /\ used[m] = Cardinality(Bytes(assets, m))
  BY <1>2 DEF Ledger
<1> QED
  BY <1>1, <1>2, <1>3, OneRowChanges

LEMMA LedgerPreserved == TypeOK /\ Ledger /\ [Next]_vars => Ledger'
<1> SUFFICES ASSUME TypeOK, Ledger, [Next]_vars PROVE Ledger'
  OBVIOUS
<1>1. TypeOK'
  BY TypeStep
<1>2. ASSUME UNCHANGED <<assets, used>> PROVE Ledger'
  BY <1>2 DEF Ledger, StoredBytes, Exists
<1>3. ASSUME NEW r \in Requests, Insert(r) PROVE Ledger'
  <2> DEFINE c == req[r].c
             m == req[r].m
  <2>1. c \in Contents /\ m \in Members /\ UploadBytes(c) \in Nat
    BY <1>3, RequestKnows, MediaSizes DEF Insert, UploadBytes
  <2>2. /\ assets[c] = None /\ assets'[c] # None
        /\ assets'[c].owner = m /\ assets'[c].bytes = UploadBytes(c)
        /\ \A d \in Contents : d # c => assets'[d] = assets[d]
        /\ used' = [used EXCEPT ![m] = @ + UploadBytes(c)]
    <3>1. lastId + 1 # 0
      BY DEF TypeOK
    <3> QED
      BY <1>3, <2>1, <3>1 DEF Insert, TypeOK, Exists, None
  <2>3. \A k \in Members : used'[k] = used[k] + Charge(assets', c, k) - Charge(assets, c, k)
    BY <2>1, <2>2 DEF TypeOK, Charge
  <2> QED
    BY <1>1, <2>1, <2>2, <2>3, LedgerStep
<1>4. ASSUME NEW j \in Jobs, JobCommit(j) PROVE Ledger'
  <2> DEFINE c == job[j].c
             m == Row(j).owner
  <2>1. c \in Contents /\ assets[c] # None /\ assets[c] \in Asset
    BY <1>4, JobKnows, RowOfJob DEF JobCommit, Row, Exists
  <2>2. m = assets[c].owner /\ m \in Members /\ assets[c].bytes \in Nat
    BY <2>1 DEF Row, Asset
  <2>3. /\ assets'[c] # None
        /\ assets'[c].owner = m /\ assets'[c].bytes = assets[c].bytes + DerivedBytes
    BY <1>4, <2>1, <2>2 DEF JobCommit, TypeOK, Asset, None
  <2>4. /\ \A d \in Contents : d # c => assets'[d] = assets[d]
        /\ used' = [used EXCEPT ![m] = @ + DerivedBytes]
    BY <1>4, <2>1 DEF JobCommit, TypeOK
  <2>5. \A k \in Members : used'[k] = used[k] + Charge(assets', c, k) - Charge(assets, c, k)
    BY <2>1, <2>2, <2>3, <2>4, MediaSizes DEF TypeOK, Charge
  <2> QED
    BY <1>1, <2>1, <2>4, <2>5, LedgerStep
<1>5. ASSUME NEW j \in Jobs, JobRecordFailure(j) PROVE Ledger'
  <2>1. CASE Gone(j)
    BY <1>2, <1>5, <2>1 DEF JobRecordFailure
  <2>2. CASE ~Gone(j)
    <3> DEFINE c == job[j].c
    <3>1. c \in Contents /\ assets[c] # None /\ assets[c] \in Asset
      BY <1>5, <2>2, JobKnows, RowOfJob DEF JobRecordFailure, Row, Exists
    <3>2. /\ assets'[c] # None
          /\ assets'[c].owner = assets[c].owner /\ assets'[c].bytes = assets[c].bytes
          /\ \A d \in Contents : d # c => assets'[d] = assets[d]
          /\ used' = used
      BY <1>5, <2>2, <3>1 DEF JobRecordFailure, TypeOK, Asset, None
    <3>3. \A k \in Members : used'[k] = used[k] + Charge(assets', c, k) - Charge(assets, c, k)
      BY <3>1, <3>2 DEF TypeOK, Charge, Asset
    <3> QED
      BY <1>1, <3>1, <3>2, <3>3, LedgerStep
  <2> QED
    BY <2>1, <2>2
<1>6. ASSUME NEW r \in Requests, NEW c \in Contents, Delete(r, c) PROVE Ledger'
  <2>1. assets[c] # None /\ assets[c] \in Asset
    BY <1>6, RowKnows DEF Delete, Exists
  <2>2. /\ assets'[c] = None /\ \A d \in Contents : d # c => assets'[d] = assets[d]
        /\ used' = [used EXCEPT ![assets[c].owner] = Released(@, assets[c].bytes)]
    BY <1>6 DEF Delete, TypeOK
  <2>3. \A k \in Members : used[k] >= Charge(assets, c, k) =>
            used'[k] = used[k] + Charge(assets', c, k) - Charge(assets, c, k)
    BY <2>1, <2>2 DEF TypeOK, Charge, Asset, Released
  <2> QED
    BY <1>1, <2>2, <2>3, LedgerStep
<1> QED
  BY <1>2, <1>3, <1>4, <1>5, <1>6
     DEF Next, vars, HandlerStep, JobStep, Upload, Lookup, InsertRefused, Enqueue, Remove,
         JobRead, JobReadFails, JobDerive, JobThrows, JobCommitFails,
         JobRecordFails, DropJob, Crash

(* "So the counter can never disagree with the rows" (worker.ts, and the
   transactions of upload.ts and deliver.ts): the counter of a member is the sum
   of the bytes of their rows, so a release never takes more than was charged and
   its clamp at zero never hides anything.                                       *)
THEOREM LedgerTheorem == Spec => []LedgerMatches
<1>1. Init => Ledger
  BY FS_EmptySet DEF Init, Ledger, StoredBytes, Exists
<1>2. TypeOK /\ Ledger /\ [Next]_vars => Ledger'
  BY LedgerPreserved
<1>3. Ledger => LedgerMatches
  BY DEF Ledger, LedgerMatches
<1> QED
  BY <1>1, <1>2, <1>3, TypeCorrect, PTL DEF Spec

\* The bytes a member has stored, by the rows, are within the quota.
StoredWithinQuota == \A m \in Members : Cardinality(StoredBytes(m)) <= Quota

(* The quota the server promises is on what is stored, and what it checks is the counter
   (reserve, db/counters.ts): uploads and jobs that race cannot store more.          *)
THEOREM QuotaOnBytes == Spec => []StoredWithinQuota
<1>1. TypeOK /\ LedgerMatches => StoredWithinQuota
  <2> SUFFICES ASSUME TypeOK, LedgerMatches, NEW m \in Members
               PROVE  Cardinality(StoredBytes(m)) <= Quota
    BY DEF StoredWithinQuota
  <2>1. used[m] \in 0..Quota
    BY DEF TypeOK
  <2> QED
    BY <2>1, MediaSizes DEF LedgerMatches
<1> QED
  BY <1>1, TypeCorrect, LedgerTheorem, PTL

-----------------------------------------------------------------------------
(* No video is forgotten. *)

\* A row in 'processing' was there before, in that state, unless it is new.
LEMMA ProcessingBefore ==
    ASSUME TypeOK, [Next]_vars, NEW c \in Contents, Exists(c)', assets'[c].state = "processing",
           ~\E r \in Requests : Insert(r) /\ req[r].c = c
    PROVE  Exists(c) /\ assets[c].state = "processing" /\ assets[c].id = assets'[c].id
<1>1. CASE assets'[c] = assets[c]
  BY <1>1 DEF Exists
<1>2. ASSUME NEW r \in Requests, Insert(r)
      PROVE  assets'[c] = assets[c]
  BY <1>2 DEF Insert, TypeOK
<1>3. ASSUME NEW j \in Jobs, JobCommit(j)
      PROVE  assets'[c] = assets[c]
  <2>1. CASE c = job[j].c
    <3>1. assets[c] \in Asset
      BY <1>3, <2>1, RowOfJob DEF JobCommit, Row
    <3>2. assets'[c].state = "ready"
      BY <1>3, <2>1, <3>1 DEF JobCommit, TypeOK, Asset
    <3> QED
      BY <3>2
  <2> QED
    BY <1>3, <2>1 DEF JobCommit, TypeOK
<1>4. ASSUME NEW j \in Jobs, JobRecordFailure(j)
      PROVE  assets'[c] = assets[c]
  <2>1. CASE ~Gone(j) /\ c = job[j].c
    <3>1. assets[c] \in Asset
      BY <1>4, <2>1, RowOfJob DEF JobRecordFailure, Row
    <3>2. assets'[c].state = "failed"
      BY <1>4, <2>1, <3>1 DEF JobRecordFailure, TypeOK, Asset
    <3> QED
      BY <3>2
  <2> QED
    BY <1>4, <2>1 DEF JobRecordFailure, TypeOK
<1>5. ASSUME NEW r \in Requests, NEW d \in Contents, Delete(r, d)
      PROVE  assets'[c] = assets[c]
  BY <1>5 DEF Delete, TypeOK, Exists
<1>6. CASE UNCHANGED assets
  BY <1>1, <1>6
<1> QED
  BY <1>1, <1>2, <1>3, <1>4, <1>5, <1>6
     DEF Next, vars, HandlerStep, JobStep, Upload, Lookup, InsertRefused, Enqueue, Remove,
         JobRead, JobReadFails, JobDerive, JobThrows, JobCommitFails, JobRecordFails, DropJob, Crash

LEMMA ForgetsStep == TypeOK /\ NobodyForgets /\ [Next]_vars => NobodyForgets'
<1> SUFFICES ASSUME TypeOK, NobodyForgets, [Next]_vars,
                    NEW c \in Videos, Exists(c)', assets'[c].state = "processing"
             PROVE  (c \in Waiting \cup Worked(Jobs) \cup lost)'
  BY DEF NobodyForgets
<1> DEFINE id == assets'[c].id
           Held(j) == job'[j] # Idle /\ job'[j].c = c /\ job'[j].id = id
<1>c. c \in Contents
  BY DEF Contents
\* Enough that some request or job has it in hand after the step.
<1>w. ASSUME NEW r \in Requests, req'[r].pc = "enqueue", req'[r].c = c, req'[r].id = id
      PROVE  c \in Waiting'
  BY <1>w DEF Waiting, Processing, IsRow
<1>j. ASSUME NEW j \in Jobs, Held(j)
      PROVE  c \in Worked(Jobs)'
  BY <1>j DEF Worked, Processing, IsRow
<1>1. ASSUME NEW r \in Requests, Insert(r), req[r].c = c
      PROVE  (c \in Waiting \cup Worked(Jobs) \cup lost)'
  <2>1. id = lastId + 1
    BY <1>c, <1>1 DEF Insert, TypeOK
  <2>2. CASE Continue(r, c, lastId + 1)
    <3>1. req'[r] = [pc |-> "enqueue", c |-> c, id |-> lastId + 1]
      BY <2>2 DEF Continue, TypeOK
    <3> QED
      BY <1>w, <2>1, <3>1
  <2>3. CASE lost' = lost \cup ({c} \cap Videos)
    BY <2>3
  <2> QED
    BY <1>1, <2>2, <2>3 DEF Insert
<1>2. ASSUME ~\E r \in Requests : Insert(r) /\ req[r].c = c
      PROVE  (c \in Waiting \cup Worked(Jobs) \cup lost)'
  <2>1. /\ Exists(c) /\ assets[c].state = "processing" /\ assets[c].id = id
        /\ c \in Waiting \cup Worked(Jobs) \cup lost
    BY <1>c, <1>2, ProcessingBefore DEF NobodyForgets
  <2>2. ASSUME NEW r \in Requests, NEW j \in Jobs, Enqueue(r, j), req[r].c = c, req[r].id = id
        PROVE  c \in Worked(Jobs)'
    <3>1. job'[j] = [pc |-> "queued", c |-> c, id |-> id]
      BY <2>2 DEF Enqueue, TypeOK
    <3>2. Held(j)
      BY <3>1 DEF Idle
    <3> QED
      BY <1>j, <3>2
  <2>3. CASE c \in lost
    <3>1. ASSUME c \notin lost'
          PROVE  \E r \in Requests, j \in Jobs : Enqueue(r, j) /\ req[r].c = c /\ req[r].id = id
      <4>1. ASSUME NEW r \in Requests, Delete(r, c)
            PROVE  FALSE
        BY <1>c, <4>1 DEF Delete, TypeOK, Exists
      <4> QED
        BY <2>1, <2>3, <3>1, <4>1
           DEF Next, vars, HandlerStep, JobStep, Upload, Delete, Lookup, Insert, InsertRefused,
               Enqueue, IsRow, Remove, JobRead, JobReadFails, JobDerive, JobThrows, JobCommit,
               JobCommitFails, JobRecordFailure, JobRecordFails, DropJob, Crash
    <3> QED
      BY <2>2, <3>1
  <2>4. CASE c \in Waiting
    <3>1. PICK r \in Requests : req[r].pc = "enqueue" /\ req[r].c = c /\ req[r].id = id
      BY <2>1, <2>4 DEF Waiting, Processing, IsRow
    <3>2. CASE req'[r] = req[r]
      BY <1>w, <3>1, <3>2
    <3>3. CASE Crash
      BY <2>4, <3>3 DEF Crash
    <3>4. ASSUME req'[r] # req[r], ~Crash
          PROVE  \E j \in Jobs : Enqueue(r, j)
      <4>1. ASSUME NEW q \in Requests, q # r, NEW to, req' = [req EXCEPT ![q] = to]
            PROVE  FALSE
        BY <3>4, <4>1 DEF TypeOK
      <4>2. PICK q \in Requests :
                \/ \E m \in Members, d \in Contents : Upload(q, m, d)
                \/ \E d \in Contents : Delete(q, d)
                \/ HandlerStep(q)
        <5>1. ASSUME NEW j \in Jobs, JobStep(j)
              PROVE  UNCHANGED req
          BY <5>1 DEF JobStep, JobRead, JobReadFails, JobDerive, JobThrows, JobCommit,
                  JobCommitFails, JobRecordFailure, JobRecordFails, DropJob
        <5>2. req' # req
          BY <3>4
        <5> QED
          BY <3>4, <5>1, <5>2 DEF Next, vars
      <4>3. \E to : req' = [req EXCEPT ![q] = to]
        <5>1. CASE Lookup(q)
          <6>1. req' = [req EXCEPT ![q] = [@ EXCEPT !.pc = "insert"]]
                \/ Continue(q, req[q].c, assets[req[q].c].id)
            BY <5>1 DEF Lookup
          <6> QED
            BY <6>1 DEF Continue
        <5>2. CASE Insert(q)
          BY <5>2 DEF Insert, Continue
        <5> QED
          BY <4>2, <5>1, <5>2 DEF HandlerStep, Upload, Delete, InsertRefused, Enqueue, Remove
      <4>4. q = r
        BY <4>1, <4>3
      <4> QED
        BY <3>1, <4>2, <4>4 DEF HandlerStep, Upload, Delete, Lookup, Insert, InsertRefused, Remove, Idle
    <3> QED
      BY <2>2, <3>1, <3>2, <3>3, <3>4
  <2>5. CASE c \in Worked(Jobs)
    <3>1. PICK j \in Jobs : job[j] # Idle /\ job[j].c = c /\ job[j].id = id
      BY <2>1, <2>5 DEF Worked, Processing, IsRow
    <3>2. job[j] \in [pc: {"queued", "derive", "commit", "failing"}, c: Contents, id: 1..MaxAssets]
      BY <3>1 DEF TypeOK, Working
    <3>3. ~Gone(j) /\ Row(j).state = "processing" /\ assets[c] \in Asset
      BY <1>c, <2>1, <3>1, RowKnows DEF Gone, IsRow, Row
    <3>4. CASE job'[j] = job[j]
      BY <1>j, <3>1, <3>4
    <3>5. ASSUME NEW to, job' = [job EXCEPT ![j].pc = to], to # "idle"
          PROVE  c \in Worked(Jobs)'
      <4>1. job'[j] = [job[j] EXCEPT !.pc = to]
        BY <3>5 DEF TypeOK
      <4>2. job'[j].pc = to /\ job'[j].c = c /\ job'[j].id = id
        BY <3>1, <3>2, <4>1
      <4>3. job'[j] # Idle
        BY <3>5, <4>2 DEF Idle
      <4> QED
        BY <1>j, <4>2, <4>3
    <3>6. CASE Crash
      BY <2>5, <3>6 DEF Crash
    <3>7. CASE JobStep(j)
      <4>1. CASE JobRead(j)
        <5>1. job' = [job EXCEPT ![j] = [@ EXCEPT !.pc = "derive"]]
          BY <3>3, <4>1 DEF JobRead
        <5>2. job' = [job EXCEPT ![j].pc = "derive"]
          BY <5>1
        <5> QED
          BY <3>5, <5>2
      <4>2. CASE JobReadFails(j) \/ JobRecordFails(j)
        <5>1. c \in Worked({j})
          BY <3>1, <3>3 DEF Worked, Processing, Gone, Row
        <5> QED
          BY <4>2, <5>1 DEF JobReadFails, JobRecordFails, DropJob
      <4>3. CASE JobDerive(j) \/ JobThrows(j) \/ JobCommitFails(j)
        BY <3>5, <4>3 DEF JobDerive, JobThrows, JobCommitFails, JobFailing
      <4>4. CASE JobCommit(j)
        <5>1. assets'[c].state = "ready"
          BY <1>c, <3>1, <3>3, <4>4 DEF JobCommit, TypeOK, Asset
        <5> QED
          BY <5>1
      <4>5. CASE JobRecordFailure(j)
        <5>1. assets'[c].state = "failed"
          BY <1>c, <3>1, <3>3, <4>5 DEF JobRecordFailure, TypeOK, Asset
        <5> QED
          BY <5>1
      <4> QED
        BY <3>7, <4>1, <4>2, <4>3, <4>4, <4>5 DEF JobStep
    <3>8. ASSUME ~Crash, ~JobStep(j)
          PROVE  job'[j] = job[j]
      <4>1. ASSUME NEW k \in Jobs, k # j, JobStep(k)
            PROVE  job'[j] = job[j]
        <5>1. ASSUME NEW to, job' = [job EXCEPT ![k] = to]
              PROVE  job'[j] = job[j]
          BY <4>1, <5>1 DEF TypeOK
        <5>2. \E to : job' = [job EXCEPT ![k] = to]
          BY <4>1 DEF JobStep, JobRead, JobReadFails, JobDerive, JobThrows, JobCommit, JobFailing,
                  JobCommitFails, JobRecordFailure, JobRecordFails, DropJob
        <5> QED
          BY <5>1, <5>2
      <4>2. ASSUME NEW r \in Requests, NEW k \in Jobs, Enqueue(r, k)
            PROVE  job'[j] = job[j]
        BY <3>1, <4>2 DEF Enqueue, TypeOK
      <4>3. CASE UNCHANGED job
        BY <4>3
      <4> QED
        BY <3>8, <4>1, <4>2, <4>3
           DEF Next, vars, HandlerStep, Upload, Delete, Lookup, Insert, InsertRefused, Remove
    <3> QED
      BY <3>4, <3>6, <3>7, <3>8
  <2> QED
    BY <2>1, <2>3, <2>4, <2>5
<1> QED
  BY <1>1, <1>2

(* "An asset never stays processing", as far as it is a matter of safety: whatever
   overlaps, fails or dies, a video in 'processing' is about to be enqueued, or has
   a job, or was lost by one of the failures ProcessingEnds names.                *)
THEOREM NobodyForgetsTheorem == Spec => []NobodyForgets
<1>1. Init => NobodyForgets
  BY DEF Init, NobodyForgets, Exists, Contents
<1>2. TypeOK /\ NobodyForgets /\ [Next]_vars => NobodyForgets'
  BY ForgetsStep
<1> QED
  BY <1>1, <1>2, TypeCorrect, PTL DEF Spec

-----------------------------------------------------------------------------
(* An event and its registrations (EventRsvp).                                *)

\* SeatsOf, of the table g.
SeatsIn(g, some) ==
    UNION {{k} \X (1..Seats(g[k].guests)) : k \in {l \in Members : g[l].live} \cap some}

\* One registration at a time is between the trigger's count and its commit: the
\* trigger locks the event.
OneWrites == \A r, s \in Requests :
    handler[r].pc = "commit" /\ handler[s].pc = "commit" => r = s

\* What it counted still stands: its party fits beside everybody else's.
WrittenFits == \A r \in Requests : handler[r].pc = "commit" =>
    Cardinality(SeatsIn(reg, Members \ {handler[r].m})) + Seats(handler[r].guests)
        <= Capacity

\* Who is about to be cancelled has not paid, or paid meanwhile.
CancelsUnpaid == \A r \in Requests :
    LET m == handler[r].m IN
    handler[r].pc = "cancel" /\ Live(m) /\ reg[m].paid => m \in overtaken

Seating ==
    /\ IsFiniteSet(SeatsIn(reg, Members)) /\ Cardinality(SeatsIn(reg, Members)) <= Capacity
    /\ OneWrites /\ WrittenFits

Payments == PaidIsForThis /\ CancelsUnpaid

RsvpInv == RsvpTypeOK /\ Seating /\ Payments

(* What a handler knows, and types.                                           *)

RegisterSteps == {"own", "insert", "update", "commit"}
Registering == [pc: RegisterSteps, m: Members, guests: Party, amount: Amounts]
Cancelling == [pc: {"read", "cancel"}, m: Members]

LEMMA HandlerKnows ==
    ASSUME RsvpTypeOK, NEW r \in Requests
    PROVE  /\ handler[r] = Idle \/ handler[r] \in Registering \/ handler[r] \in Cancelling
           /\ handler[r].pc \in RegisterSteps => handler[r] \in Registering
           /\ handler[r].pc \in {"read", "cancel"} => handler[r] \in Cancelling
<1>1. handler[r] = Idle \/ handler[r] \in Registering \/ handler[r] \in Cancelling
  BY DEF RsvpTypeOK, Registering, RegisterSteps, Cancelling
<1> QED
  BY <1>1 DEF Registering, RegisterSteps, Cancelling, Idle

\* A handler that moves on, or is done.
LEMMA HandlerMoves ==
    ASSUME RsvpTypeOK, NEW r \in Requests, NEW x,
           handler' = [handler EXCEPT ![r] = x],
           x = Idle \/ x \in Registering \/ x \in Cancelling,
           UNCHANGED <<now, reg, paidFor, overtaken>>
    PROVE  RsvpTypeOK'
BY DEF RsvpTypeOK, Registering, RegisterSteps, Cancelling

LEMMA RowKept ==
    ASSUME NEW x \in Registration
    PROVE  /\ [x EXCEPT !.live = FALSE] \in Registration
           /\ [x EXCEPT !.paid = TRUE] \in Registration
BY DEF Registration

LEMMA SameUpdate ==
    ASSUME NEW S, NEW f \in [S -> BOOLEAN], NEW x \in S
    PROVE  [f EXCEPT ![x] = f[x]] = f
OBVIOUS

\* There is no row to cancel.
LEMMA NotRegisteredKept == [NotRegistered EXCEPT !.live = FALSE] = NotRegistered
<1>1. [live: BOOLEAN] = [{"live"} -> BOOLEAN]
  BY Zenon
<1>2. NotRegistered \in [live: BOOLEAN]
  BY DEF NotRegistered
<1>3. NotRegistered \in [{"live"} -> BOOLEAN]
  BY <1>1, <1>2
<1>4. NotRegistered["live"] = FALSE
  BY DEF NotRegistered
<1>5. [NotRegistered EXCEPT !["live"] = NotRegistered["live"]] = NotRegistered
  BY <1>3, SameUpdate
<1> QED
  BY <1>4, <1>5, Zenon

LEMMA RsvpTypesPreserved ==
    ASSUME RsvpTypeOK, [RsvpNext]_rsvpVars
    PROVE  RsvpTypeOK'
<1>1. CASE UNCHANGED rsvpVars
  BY <1>1 DEF rsvpVars, RsvpTypeOK
<1>2. CASE Tick
  BY <1>2, EventNumbers DEF Tick, RsvpTypeOK
<1>3. ASSUME NEW m \in Members, MarkPaid(m) PROVE RsvpTypeOK'
  <2>1. reg[m] \in Registration
    BY <1>3 DEF MarkPaid, Live, RsvpTypeOK, NotRegistered
  <2>2. reg[m].amount \in Amounts
    BY <2>1 DEF Registration
  <2>3. reg' \in [Members -> Registration \cup {NotRegistered}]
    BY <1>3, <2>1, RowKept DEF MarkPaid, RsvpTypeOK
  <2>4. paidFor' \in [Members -> Amounts \cup {NoPrice}]
    BY <1>3, <2>2 DEF MarkPaid, RsvpTypeOK
  <2> QED
    BY <1>3, <2>3, <2>4 DEF MarkPaid, RsvpTypeOK
<1>4. ASSUME NEW r \in Requests, NEW m \in Members, NEW guests \in Party,
             StartRegister(r, m, guests)
      PROVE  RsvpTypeOK'
  <2> DEFINE amount == AmountFor(PhaseAt(now), guests)
             x == [pc |-> "own", m |-> m, guests |-> guests, amount |-> amount]
  <2>1. PhaseAt(now) \in {"early", "standard", "late"}
    BY <1>4 DEF StartRegister, Registrable, PhaseAt
  <2>2. amount \in Amounts
    BY <2>1 DEF Amounts
  <2>3. x \in Registering
    BY <2>2 DEF Registering, RegisterSteps
  <2> QED
    BY <1>4, <2>3, HandlerMoves DEF StartRegister
<1>5. ASSUME NEW r \in Requests, NEW m \in Members, StartCancel(r, m) PROVE RsvpTypeOK'
  <2>1. [pc |-> "read", m |-> m] \in Cancelling
    BY DEF Cancelling
  <2> QED
    BY <1>5, <2>1, HandlerMoves DEF StartCancel
\* Every other step of a handler moves it on or ends it.
<1>6. ASSUME NEW r \in Requests, NEW step \in RegisterSteps,
             handler[r].pc \in RegisterSteps, Goto(r, step),
             UNCHANGED <<now, reg, paidFor, overtaken>>
      PROVE  RsvpTypeOK'
  <2>1. handler[r] \in Registering
    BY <1>6, HandlerKnows
  <2>2. [handler[r] EXCEPT !.pc = step] \in Registering
    BY <2>1 DEF Registering
  <2>3. handler' = [handler EXCEPT ![r] = [handler[r] EXCEPT !.pc = step]]
    BY <1>6 DEF Goto, RsvpTypeOK
  <2> QED
    BY <1>6, <2>2, <2>3, HandlerMoves
<1>7. ASSUME NEW r \in Requests, Done(r), UNCHANGED <<now, reg, paidFor, overtaken>>
      PROVE  RsvpTypeOK'
  BY <1>7, HandlerMoves DEF Done
<1>8. ASSUME NEW r \in Requests, LockOwn(r) PROVE RsvpTypeOK'
  BY <1>6, <1>7, <1>8 DEF LockOwn, RegisterSteps
<1>9. ASSUME NEW r \in Requests, Write(r) PROVE RsvpTypeOK'
  BY <1>6, <1>7, <1>9 DEF Write, RegisterSteps
<1>10. ASSUME NEW r \in Requests, Commit(r) PROVE RsvpTypeOK'
  <2> DEFINE m == handler[r].m
             x == [live |-> TRUE, guests |-> handler[r].guests,
                   amount |-> handler[r].amount, paid |-> FALSE]
  <2>1. handler[r] \in Registering
    BY <1>10, HandlerKnows DEF Commit, RegisterSteps
  <2>2. m \in Members /\ x \in Registration
    BY <2>1 DEF Registering, Registration
  <2>3. reg' = [reg EXCEPT ![m] = x]
    BY <1>10 DEF Commit
  <2>4. reg' \in [Members -> Registration \cup {NotRegistered}]
    BY <2>2, <2>3 DEF RsvpTypeOK
  <2> QED
    BY <1>10, <2>4 DEF Commit, Done, RsvpTypeOK
<1>11. ASSUME NEW r \in Requests, ReadRegistration(r) PROVE RsvpTypeOK'
  <2>1. CASE Done(r)
    BY <1>7, <1>11, <2>1 DEF ReadRegistration
  <2>2. CASE Goto(r, "cancel")
    <3>1. handler[r] \in Cancelling
      BY <1>11, HandlerKnows DEF ReadRegistration
    <3>2. [handler[r] EXCEPT !.pc = "cancel"] \in Cancelling
      BY <3>1 DEF Cancelling
    <3>3. handler' = [handler EXCEPT ![r] = [handler[r] EXCEPT !.pc = "cancel"]]
      BY <2>2 DEF Goto, RsvpTypeOK
    <3> QED
      BY <1>11, <3>2, <3>3, HandlerMoves DEF ReadRegistration
  <2> QED
    BY <1>11, <2>1, <2>2 DEF ReadRegistration
<1>12. ASSUME NEW r \in Requests, WriteCancel(r) PROVE RsvpTypeOK'
  <2> DEFINE m == handler[r].m
  <2>1. m \in Members
    BY <1>12, HandlerKnows DEF WriteCancel, Cancelling
  <2>2. reg[m] = NotRegistered => [reg[m] EXCEPT !.live = FALSE] = NotRegistered
    BY NotRegisteredKept
  <2>3. reg' \in [Members -> Registration \cup {NotRegistered}]
    <3>1. reg' = [reg EXCEPT ![m] = [reg[m] EXCEPT !.live = FALSE]]
      BY <1>12 DEF WriteCancel, RsvpTypeOK
    <3>2. [reg[m] EXCEPT !.live = FALSE] \in Registration \cup {NotRegistered}
      BY <2>1, <2>2, RowKept DEF RsvpTypeOK
    <3> QED
      BY <3>1, <3>2 DEF RsvpTypeOK
  <2> QED
    BY <1>12, <2>3 DEF WriteCancel, Done, RsvpTypeOK
<1>13. ASSUME NEW r \in Requests, GiveUp(r) PROVE RsvpTypeOK'
  BY <1>7, <1>13 DEF GiveUp
<1> QED
  BY <1>1, <1>2, <1>3, <1>4, <1>5, <1>8, <1>9, <1>10, <1>11, <1>12, <1>13, Zenon
     DEF RsvpNext, RequestStep

-----------------------------------------------------------------------------
(* The seats.  The lemmas are about any table of registrations, as it is      *)
(* before and after a step.                                                   *)

Registers == [Members -> Registration \cup {NotRegistered}]

\* The seats of everybody are those of m and those of the others.
LEMMA OneParty ==
    ASSUME NEW g \in Registers, NEW m \in Members, g[m].live,
           IsFiniteSet(SeatsIn(g, Members \ {m}))
    PROVE  /\ IsFiniteSet(SeatsIn(g, Members))
           /\ Cardinality(SeatsIn(g, Members)) =
                Cardinality(SeatsIn(g, Members \ {m})) + Seats(g[m].guests)
<1> DEFINE n == Seats(g[m].guests)
           others == SeatsIn(g, Members \ {m})
<1>1. g[m] \in Registration
  BY DEF Registers, NotRegistered
<1>2. n \in Nat
  BY <1>1 DEF Registration, Party, Seats
<1>3. others \cap ({m} \X (1..n)) = {}
  BY DEF SeatsIn
<1>4. SeatsIn(g, Members) = others \cup ({m} \X (1..n))
  <2>1. \A b : b \in others <=>
          \E k \in Members : k # m /\ g[k].live /\ b \in {k} \X (1..Seats(g[k].guests))
    BY DEF SeatsIn
  <2>2. \A b : b \in SeatsIn(g, Members) <=>
          \E k \in Members : g[k].live /\ b \in {k} \X (1..Seats(g[k].guests))
    BY DEF SeatsIn
  <2> HIDE DEF others
  <2>3. \A b : b \in SeatsIn(g, Members) <=> b \in others \/ b \in {m} \X (1..n)
    BY <2>1, <2>2
  <2> QED
    BY <2>3
<1>5. IsFiniteSet(others)
  OBVIOUS
<1> HIDE DEF n, others
<1>6. /\ IsFiniteSet(others \cup ({m} \X (1..n)))
      /\ Cardinality(others \cup ({m} \X (1..n))) = Cardinality(others) + n
  BY <1>2, <1>3, <1>5, CountByOne
<1> QED
  BY <1>4, <1>6 DEF n, others

\* Fewer parties, none of them larger, take no more seats.
LEMMA FewerSeats ==
    ASSUME NEW g, NEW h, NEW S, NEW T, S \subseteq T, IsFiniteSet(SeatsIn(g, T)),
           \A k \in S \cap Members : h[k].live => g[k].live /\ h[k].guests = g[k].guests
    PROVE  /\ IsFiniteSet(SeatsIn(h, S))
           /\ Cardinality(SeatsIn(h, S)) \in Nat
           /\ Cardinality(SeatsIn(g, T)) \in Nat
           /\ Cardinality(SeatsIn(h, S)) <= Cardinality(SeatsIn(g, T))
<1>1. SeatsIn(h, S) \subseteq SeatsIn(g, T)
  BY DEF SeatsIn
<1> QED
  BY <1>1, FS_Subset, FS_CardinalityType

LEMMA SeatsNow ==
    ASSUME NEW S
    PROVE  Taken(S) = Cardinality(SeatsIn(reg, S))
<1>1. SeatsOf(S) = SeatsIn(reg, S)
  BY DEF SeatsOf, Attending, Live, SeatsIn
<1> QED
  BY <1>1 DEF Taken

\* A step after which nobody takes more seats, and nobody who counted is new.
LEMMA SeatingKept ==
    ASSUME Seating,
           \A k \in Members :
               reg'[k].live => reg[k].live /\ reg'[k].guests = reg[k].guests,
           \A r \in Requests : handler'[r].pc = "commit" => handler'[r] = handler[r],
           \A r \in Requests : handler[r].pc = "commit" => Seats(handler[r].guests) \in Nat
    PROVE  Seating'
<1>1. IsFiniteSet(SeatsIn(reg, Members)) /\ Cardinality(SeatsIn(reg, Members)) <= Capacity
  BY DEF Seating
<1>2. /\ IsFiniteSet(SeatsIn(reg', Members))
      /\ Cardinality(SeatsIn(reg', Members)) \in Nat
      /\ Cardinality(SeatsIn(reg, Members)) \in Nat
      /\ Cardinality(SeatsIn(reg', Members)) <= Cardinality(SeatsIn(reg, Members))
  BY <1>1, FewerSeats
<1>3. OneWrites'
  BY DEF Seating, OneWrites
<1>4. Capacity \in Nat
  BY EventNumbers
<1>5. WrittenFits'
  <2> SUFFICES ASSUME NEW r \in Requests, handler'[r].pc = "commit"
               PROVE  Cardinality(SeatsIn(reg', Members \ {handler[r].m}))
                          + Seats(handler[r].guests) <= Capacity
    BY DEF WrittenFits
  <2> DEFINE others == Members \ {handler[r].m}
             n == Seats(handler[r].guests)
  <2>1. handler[r].pc = "commit"
    OBVIOUS
  <2>2. Cardinality(SeatsIn(reg, others)) + n <= Capacity /\ n \in Nat
    BY <2>1 DEF Seating, WrittenFits
  <2>3. IsFiniteSet(SeatsIn(reg, others))
    BY <1>1, FewerSeats
  <2>4. /\ Cardinality(SeatsIn(reg', others)) \in Nat
        /\ Cardinality(SeatsIn(reg, others)) \in Nat
        /\ Cardinality(SeatsIn(reg', others)) <= Cardinality(SeatsIn(reg, others))
    BY <2>3, FewerSeats
  <2> HIDE DEF others, n
  <2>5. Cardinality(SeatsIn(reg', others)) + n <= Capacity
    BY <1>4, <2>2, <2>4
  <2> QED
    BY <2>5 DEF others, n
<1> QED
  BY <1>1, <1>2, <1>3, <1>4, <1>5 DEF Seating

\* Whoever is at the write or the commit knows their party.
LEMMA PartyKnown ==
    ASSUME RsvpTypeOK, NEW r \in Requests, handler[r].pc \in RegisterSteps
    PROVE  handler[r].m \in Members /\ Seats(handler[r].guests) \in Nat
BY HandlerKnows, EventNumbers DEF Registering, Party, Seats

LEMMA SeatingPreserved ==
    ASSUME RsvpTypeOK, Seating, [RsvpNext]_rsvpVars
    PROVE  Seating'
<1>1. \A r \in Requests : handler[r].pc = "commit" => Seats(handler[r].guests) \in Nat
  BY PartyKnown DEF RegisterSteps
<1>2. handler \in [Requests -> {Idle} \cup Registering \cup Cancelling] /\ reg \in Registers
  BY DEF RsvpTypeOK, Registering, RegisterSteps, Cancelling, Registers
\* A request that begins, answers, gives up, or goes on to a step that is not the commit.
<1>3. ASSUME NEW r \in Requests, reg' = reg,
             \A s \in Requests : s # r => handler'[s] = handler[s],
             handler'[r].pc # "commit"
      PROVE  Seating'
  BY <1>1, <1>3, SeatingKept
<1>4. ASSUME NEW r \in Requests, Done(r)
      PROVE  /\ \A s \in Requests : s # r => handler'[s] = handler[s]
             /\ handler'[r].pc = "idle"
  BY <1>2, <1>4 DEF Done, Idle
<1>5. ASSUME NEW r \in Requests, NEW step, handler[r].pc # "idle", Goto(r, step)
      PROVE  /\ \A s \in Requests : s # r => handler'[s] = handler[s]
             /\ handler'[r].pc = step
             /\ handler[r].pc \in RegisterSteps =>
                    handler'[r].m = handler[r].m /\ handler'[r].guests = handler[r].guests
  BY <1>2, <1>5, HandlerKnows DEF Goto, Registering, Cancelling, Idle
<1>6. CASE reg' = reg /\ handler' = handler
  BY <1>1, <1>6, SeatingKept
<1>7. ASSUME NEW m \in Members, MarkPaid(m) PROVE Seating'
  <2>1. reg[m] \in Registration
    BY <1>7 DEF MarkPaid, Live, RsvpTypeOK, NotRegistered
  <2>2. /\ handler' = handler
        /\ \A k \in Members : reg'[k].live = reg[k].live /\ reg'[k].guests = reg[k].guests
    BY <1>2, <1>7, <2>1 DEF MarkPaid, Registration, Registers
  <2> QED
    BY <1>1, <2>2, SeatingKept
<1>8. ASSUME NEW r \in Requests, NEW m \in Members, NEW guests \in Party,
             StartRegister(r, m, guests)
      PROVE  Seating'
  BY <1>2, <1>3, <1>8 DEF StartRegister
<1>9. ASSUME NEW r \in Requests, NEW m \in Members, StartCancel(r, m) PROVE Seating'
  BY <1>2, <1>3, <1>9 DEF StartCancel
<1>10. ASSUME NEW r \in Requests, LockOwn(r) PROVE Seating'
  BY <1>3, <1>4, <1>5, <1>10 DEF LockOwn
<1>11. ASSUME NEW r \in Requests, Write(r) PROVE Seating'
  <2>1. CASE Done(r)
    BY <1>3, <1>4, <1>11, <2>1 DEF Write
  <2>2. CASE ~Full(r) /\ ~Duplicate(r) /\ Goto(r, "commit")
    <3> DEFINE m == handler[r].m
               others == Members \ {m}
    <3>1. handler[r].pc \in {"insert", "update"} /\ reg' = reg
      BY <1>11 DEF Write
    <3>2. m \in Members
      BY <3>1, PartyKnown DEF RegisterSteps
    <3>3. /\ \A s \in Requests : s # r => handler'[s] = handler[s] /\ handler'[s].pc # "commit"
          /\ handler'[r].m = m /\ handler'[r].guests = handler[r].guests
      BY <1>5, <1>11, <2>2, <3>1 DEF Write, EventLocked, RegisterSteps
    <3>4. Cardinality(SeatsIn(reg, others)) + Seats(handler[r].guests) <= Capacity
      <4>1. /\ Cardinality(SeatsIn(reg, others)) \in Nat
            /\ Seats(handler[r].guests) \in Nat
            /\ Capacity \in Nat
        BY <3>1, FewerSeats, PartyKnown, EventNumbers DEF Seating, RegisterSteps
      <4>2. ~(Cardinality(SeatsIn(reg, others)) + Seats(handler[r].guests) > Capacity)
        <5>1. CASE handler[r].pc = "update"
          BY <2>2, <5>1, SeatsNow DEF Full
        <5>2. CASE handler[r].pc = "insert"
          <6>1. ~reg[m].live
            BY <2>2, <5>2 DEF Duplicate, NotRegistered
          <6>2. SeatsIn(reg, others) = SeatsIn(reg, Members)
            BY <6>1 DEF SeatsIn
          <6> QED
            BY <2>2, <5>2, <6>2, SeatsNow DEF Full
        <5> QED
          BY <3>1, <5>1, <5>2
      <4> HIDE DEF others
      <4> QED
        BY <4>1, <4>2
    <3>5. OneWrites'
      BY <3>3 DEF OneWrites
    <3>6. WrittenFits'
      BY <3>1, <3>3, <3>4 DEF WrittenFits
    <3> QED
      BY <3>1, <3>5, <3>6 DEF Seating
  <2> QED
    BY <1>11, <2>1, <2>2 DEF Write
<1>12. ASSUME NEW r \in Requests, Commit(r) PROVE Seating'
  <2> DEFINE m == handler[r].m
             others == Members \ {m}
  <2>1. m \in Members /\ handler[r].pc = "commit"
    BY <1>12, PartyKnown DEF Commit, RegisterSteps
  <2>2. /\ reg'[m].live /\ reg'[m].guests = handler[r].guests
        /\ \A k \in others : reg'[k] = reg[k]
        /\ reg' \in Registers
    <3>1. RsvpTypeOK'
      BY RsvpTypesPreserved
    <3> QED
      BY <1>2, <1>12, <2>1, <3>1 DEF Commit, RsvpTypeOK, Registers
  <2>3. \A s \in Requests : handler'[s].pc # "commit"
    BY <1>4, <1>12, <2>1 DEF Commit, Seating, OneWrites
  <2>4. Cardinality(SeatsIn(reg, others)) + Seats(handler[r].guests) <= Capacity
    BY <2>1 DEF Seating, WrittenFits
  <2>5. SeatsIn(reg', others) = SeatsIn(reg, others)
    BY <2>2 DEF SeatsIn
  <2>6. IsFiniteSet(SeatsIn(reg', others))
    BY <2>5, FewerSeats DEF Seating
  <2>7. /\ IsFiniteSet(SeatsIn(reg', Members))
        /\ Cardinality(SeatsIn(reg', Members)) =
             Cardinality(SeatsIn(reg', others)) + Seats(reg'[m].guests)
    BY <2>1, <2>2, <2>6, OneParty
  <2>8. Cardinality(SeatsIn(reg', Members)) <= Capacity
    BY <2>2, <2>4, <2>5, <2>7
  <2> QED
    BY <2>3, <2>7, <2>8 DEF Seating, OneWrites, WrittenFits
<1>13. ASSUME NEW r \in Requests, ReadRegistration(r) PROVE Seating'
  BY <1>3, <1>4, <1>5, <1>13 DEF ReadRegistration
<1>14. ASSUME NEW r \in Requests, WriteCancel(r) PROVE Seating'
  <2>1. handler[r].m \in Members
    BY <1>14, HandlerKnows DEF WriteCancel, Cancelling
  <2>2. reg' = [reg EXCEPT ![handler[r].m] = [reg[handler[r].m] EXCEPT !.live = FALSE]]
    BY <1>2, <1>14 DEF WriteCancel, Registers
  <2>3. /\ \A k \in Members : k # handler[r].m => reg'[k] = reg[k]
        /\ ~reg'[handler[r].m].live
    BY <1>2, <2>1, <2>2 DEF Registers, Registration, NotRegistered
  <2>4. \A s \in Requests : handler'[s].pc = "commit" => handler'[s] = handler[s]
    BY <1>4, <1>14 DEF WriteCancel
  <2> QED
    BY <1>1, <2>3, <2>4, SeatingKept
<1>15. ASSUME NEW r \in Requests, GiveUp(r) PROVE Seating'
  BY <1>3, <1>4, <1>15 DEF GiveUp
<1> QED
  BY <1>6, <1>7, <1>8, <1>9, <1>10, <1>11, <1>12, <1>13, <1>14, <1>15, Zenon
     DEF RsvpNext, RequestStep, rsvpVars, Tick

-----------------------------------------------------------------------------
(* The payments. *)

LEMMA PaymentsPreserved ==
    ASSUME RsvpTypeOK, Payments, [RsvpNext]_rsvpVars
    PROVE  Payments'
<1>1. handler \in [Requests -> {Idle} \cup Registering \cup Cancelling] /\ reg \in Registers
  BY DEF RsvpTypeOK, Registering, RegisterSteps, Cancelling, Registers
<1>2. CASE UNCHANGED <<reg, handler, paidFor, overtaken>>
  BY <1>2 DEF Payments, CancelsUnpaid, PaidIsForThis, Live
\* A request that begins, answers, gives up, or goes on to a step that is not the cancellation.
<1>3. ASSUME NEW r \in Requests, UNCHANGED <<reg, paidFor, overtaken>>,
             \A s \in Requests : s # r => handler'[s] = handler[s],
             handler'[r].pc # "cancel"
      PROVE  Payments'
  BY <1>3 DEF Payments, CancelsUnpaid, PaidIsForThis, Live
<1>4. ASSUME NEW r \in Requests, Done(r)
      PROVE  /\ \A s \in Requests : s # r => handler'[s] = handler[s]
             /\ handler'[r].pc = "idle"
  BY <1>1, <1>4 DEF Done, Idle
<1>5. ASSUME NEW r \in Requests, NEW step, handler[r].pc # "idle", Goto(r, step)
      PROVE  /\ \A s \in Requests : s # r => handler'[s] = handler[s]
             /\ handler'[r].pc = step /\ handler'[r].m = handler[r].m
  BY <1>1, <1>5, HandlerKnows DEF Goto, Registering, Cancelling, Idle
<1>6. ASSUME NEW m \in Members, MarkPaid(m) PROVE Payments'
  <2>1. reg[m] \in Registration
    BY <1>6 DEF MarkPaid, Live, RsvpTypeOK, NotRegistered
  <2>2. /\ handler' = handler
        /\ \A k \in Members : k # m => reg'[k] = reg[k] /\ paidFor'[k] = paidFor[k]
        /\ paidFor'[m] = reg[m].amount /\ reg'[m].amount = reg[m].amount
        /\ overtaken \subseteq overtaken'
    BY <1>1, <1>6, <2>1 DEF MarkPaid, Registration, RsvpTypeOK, Registers
  <2>3. PaidIsForThis'
    BY <2>2 DEF Payments, PaidIsForThis, Live
  <2>4. ASSUME NEW r \in Requests, handler[r].pc = "cancel", handler[r].m = m
        PROVE  m \in overtaken'
    <3>1. handler[r] = [pc |-> "cancel", m |-> m]
      BY <2>4, HandlerKnows DEF Cancelling
    <3> QED
      BY <1>6, <3>1 DEF MarkPaid
  <2>5. CancelsUnpaid'
    <3> SUFFICES ASSUME NEW r \in Requests, handler[r].pc = "cancel",
                        reg'[handler[r].m].live, reg'[handler[r].m].paid
                 PROVE  handler[r].m \in overtaken'
      BY <2>2 DEF CancelsUnpaid, Live
    <3>1. handler[r].m \in Members
      BY HandlerKnows DEF Cancelling
    <3> QED
      BY <2>2, <2>4, <3>1 DEF Payments, CancelsUnpaid, Live
  <2> QED
    BY <2>3, <2>5 DEF Payments
<1>7. ASSUME NEW r \in Requests, NEW m \in Members, NEW guests \in Party,
             StartRegister(r, m, guests)
      PROVE  Payments'
  BY <1>1, <1>3, <1>7 DEF StartRegister
<1>8. ASSUME NEW r \in Requests, NEW m \in Members, StartCancel(r, m) PROVE Payments'
  BY <1>1, <1>3, <1>8 DEF StartCancel
<1>9. ASSUME NEW r \in Requests, LockOwn(r) PROVE Payments'
  BY <1>3, <1>4, <1>5, <1>9 DEF LockOwn
<1>10. ASSUME NEW r \in Requests, Write(r) PROVE Payments'
  BY <1>3, <1>4, <1>5, <1>10 DEF Write
\* A row that is used again is unpaid, and nobody's payment is lost by it.
<1>11. ASSUME NEW r \in Requests, Commit(r) PROVE Payments'
  <2> DEFINE m == handler[r].m
  <2>1. m \in Members
    BY <1>11, PartyKnown DEF Commit, RegisterSteps
  <2>2. /\ ~reg'[m].paid
        /\ \A k \in Members : k # m => reg'[k] = reg[k] /\ (k \in overtaken <=> k \in overtaken')
        /\ paidFor' = paidFor
    BY <1>1, <1>11, <2>1 DEF Commit, Registers
  <2>3. \A s \in Requests : handler'[s].pc = "cancel" => handler'[s] = handler[s]
    BY <1>4, <1>11 DEF Commit
  <2>4. \A s \in Requests : handler[s].pc = "cancel" => handler[s].m \in Members
    BY HandlerKnows DEF Cancelling
  <2> QED
    BY <2>2, <2>3, <2>4 DEF Payments, CancelsUnpaid, PaidIsForThis, Live
<1>12. ASSUME NEW r \in Requests, ReadRegistration(r) PROVE Payments'
  <2>1. CASE Done(r)
    BY <1>3, <1>4, <1>12, <2>1 DEF ReadRegistration
  <2>2. CASE ~reg[handler[r].m].paid /\ Goto(r, "cancel")
    BY <1>5, <1>12, <2>2
       DEF ReadRegistration, Payments, CancelsUnpaid, PaidIsForThis, Live
  <2> QED
    BY <1>12, <2>1, <2>2 DEF ReadRegistration
<1>13. ASSUME NEW r \in Requests, WriteCancel(r) PROVE Payments'
  <2>1. handler[r].m \in Members
    BY <1>13, HandlerKnows DEF WriteCancel, Cancelling
  <2>2. reg' = [reg EXCEPT ![handler[r].m] = [reg[handler[r].m] EXCEPT !.live = FALSE]]
    BY <1>1, <1>13 DEF WriteCancel, Registers
  <2>3. /\ \A k \in Members : k # handler[r].m => reg'[k] = reg[k]
        /\ ~reg'[handler[r].m].live
        /\ UNCHANGED <<paidFor, overtaken>>
    BY <1>1, <1>13, <2>1, <2>2 DEF WriteCancel, Registers, Registration, NotRegistered
  <2>4. \A s \in Requests : handler'[s].pc = "cancel" => handler'[s] = handler[s]
    BY <1>4, <1>13 DEF WriteCancel
  <2>5. \A s \in Requests : handler[s].pc = "cancel" => handler[s].m \in Members
    BY HandlerKnows DEF Cancelling
  <2> QED
    BY <2>3, <2>4, <2>5 DEF Payments, CancelsUnpaid, PaidIsForThis, Live
<1>14. ASSUME NEW r \in Requests, GiveUp(r) PROVE Payments'
  BY <1>3, <1>4, <1>14 DEF GiveUp
<1> QED
  BY <1>2, <1>6, <1>7, <1>8, <1>9, <1>10, <1>11, <1>12, <1>13, <1>14, Zenon
     DEF RsvpNext, RequestStep, rsvpVars, Tick

-----------------------------------------------------------------------------
(* What the server promises of an event.  Its dates do not matter.            *)

THEOREM RsvpInvariance == RsvpSpec => []RsvpInv
<1>1. RsvpInit => RsvpInv
  <2> SUFFICES ASSUME RsvpInit PROVE RsvpInv
    OBVIOUS
  <2>1. SeatsIn(reg, Members) = {}
    BY DEF RsvpInit, SeatsIn, NotRegistered
  <2>2. RsvpTypeOK
    BY EventNumbers DEF RsvpInit, RsvpTypeOK
  <2>3. Seating
    <3>1. IsFiniteSet(SeatsIn(reg, Members)) /\ Cardinality(SeatsIn(reg, Members)) <= Capacity
      BY <2>1, FS_EmptySet, EventNumbers
    <3>2. \A r \in Requests : handler[r].pc # "commit"
      BY DEF RsvpInit, Idle
    <3> QED
      BY <3>1, <3>2 DEF Seating, OneWrites, WrittenFits
  <2>4. Payments
    BY DEF RsvpInit, Payments, CancelsUnpaid, PaidIsForThis, Idle, Live, NotRegistered
  <2> QED
    BY <2>2, <2>3, <2>4 DEF RsvpInv
<1>2. RsvpInv /\ [RsvpNext]_rsvpVars => RsvpInv'
  BY RsvpTypesPreserved, SeatingPreserved, PaymentsPreserved DEF RsvpInv
<1> QED
  BY <1>1, <1>2, PTL DEF RsvpSpec

(* The columns of a registration and its amount: whatever is registered was
   registered in a phase that has a price (registerForEvent refuses the others). *)
THEOREM RsvpTypes == RsvpSpec => []RsvpTypeOK
<1>1. RsvpInv => RsvpTypeOK
  BY DEF RsvpInv
<1> QED
  BY <1>1, RsvpInvariance, PTL

(* "Overselling impossible rather than unlikely": the trigger of migration 023 locks
   the event, counts the other parties and lets the row in only if it fits, so the
   registrations that are not cancelled never take more than the capacity.         *)
THEOREM SeatsTheorem == RsvpSpec => []SeatsWithinCapacity
<1>1. RsvpInv => SeatsWithinCapacity
  BY SeatsNow DEF RsvpInv, Seating, SeatsWithinCapacity
<1> QED
  BY <1>1, RsvpInvariance, PTL

(* A payment is for the registration it is shown on: registerForEvent clears paid_at
   when it uses a cancelled row again.                                              *)
THEOREM PaidTheorem == RsvpSpec => []PaidIsForThis
<1>1. RsvpInv => PaidIsForThis
  BY DEF RsvpInv, Payments
<1> QED
  BY <1>1, RsvpInvariance, PTL

(* cancelRegistration refuses a paid registration, so no step ends one, unless it was
   paid between the read of a cancellation and its update.                          *)
THEOREM PaidStaysTheorem == RsvpSpec => PaidStays
<1>1. ASSUME RsvpInv, [RsvpNext]_rsvpVars, NEW m \in Members,
             Live(m), reg[m].paid, m \notin overtaken
      PROVE  Live(m)'
  <2>1. reg \in Registers
    BY <1>1 DEF RsvpInv, RsvpTypeOK, Registers
  <2>2. CASE reg' = reg
    BY <1>1, <2>2 DEF Live
  <2>3. ASSUME NEW k \in Members, MarkPaid(k) PROVE Live(m)'
    <3>1. reg' = [reg EXCEPT ![k] = [reg[k] EXCEPT !.paid = TRUE]]
      BY <2>1, <2>3 DEF MarkPaid, Registers
    <3>2. reg[m] \in Registration
      BY <1>1, <2>1 DEF Registers, Live, NotRegistered
    <3> QED
      BY <1>1, <2>1, <3>1, <3>2 DEF Live, Registers, Registration
  <2>4. ASSUME NEW r \in Requests, Commit(r) PROVE Live(m)'
    BY <1>1, <2>1, <2>4 DEF Commit, Live, Registers
  <2>5. ASSUME NEW r \in Requests, WriteCancel(r) PROVE Live(m)'
    <3>1. handler[r].m # m
      BY <1>1, <2>5 DEF WriteCancel, RsvpInv, Payments, CancelsUnpaid
    <3>2. reg' = [reg EXCEPT ![handler[r].m] = [reg[handler[r].m] EXCEPT !.live = FALSE]]
      BY <2>1, <2>5 DEF WriteCancel, Registers
    <3> QED
      BY <1>1, <2>1, <3>1, <3>2 DEF Live, Registers
  <2> QED
    BY <1>1, <2>2, <2>3, <2>4, <2>5
       DEF RsvpNext, rsvpVars, RequestStep, Tick, StartRegister,
           StartCancel, LockOwn, Write, ReadRegistration, GiveUp
<1>2. RsvpInv /\ [RsvpNext]_rsvpVars =>
        [\A m \in Members : Live(m) /\ reg[m].paid /\ m \notin overtaken => Live(m)']_rsvpVars
  BY <1>1
<1> QED
  BY <1>2, RsvpInvariance, PTL DEF RsvpSpec, PaidStays
=============================================================================
