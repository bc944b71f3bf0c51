# TLA+ models of the German World Club server

The German World Club is a private-members platform: a Fastify server over
PostgreSQL (and Redis), a web console and member site, and an Expo app. This
directory holds TLA+ models of the parts of it whose correctness depends on the
order in which things happen, the TLC configurations that check them on small
instances, and TLAPS proofs of what holds for every instance.

    tlc -config Marketplace_lifecycle.cfg Marketplace.tla     # one run of the table below
    tlapm SessionsProofs.tla                                  # the proofs of a module

`PROJECT.json` lists the runs, the code lines every definition stands for (`map`),
the mutations each property detects (`mutants`), the hazards and the findings.

## 1. The system

Paths are below `src/server/src` unless they say otherwise. "Hard" names what a
unit test would hardly reach. Everything the server remembers is in PostgreSQL at
READ COMMITTED. A request handler is a sequence of awaits: between any two of them
other requests, jobs, the clock or the end of the process may come.

| Part | State | Operations | Hard, and what makes it correct | Model |
|---|---|---|---|---|
| Push outbox and dispatcher: `modules/push/application/{dispatch,receipts,audience,devices}.ts`, migrations 011, 028, 029 | `push_notifications` (status, lease), `push_deliveries` (status, attempts, next attempt), `push_devices` | offer trigger and staff sends insert; `push.deliver` claims, materialises, sends, records, retries, finishes; receipts; devices register and leave | runs that overlap, outlive their lease or crash with a batch at the provider. A message at most once, every notification ends, an ended one stays ended | `PushOutbox` |
| Push enqueue, preferences, rehearsals, providers: `enqueue.ts`, `preferences.ts`, `test-recipients.ts`, `providers.ts` | idempotency key and payload hash, preference rows, FCM token memo | enqueue, kick, set preference, send a batch | two sends with one key; a kick that is lost; whether an error means "not taken" | through `BecomeDue`, `ChangeEligibility`, `Outcomes` |
| Marketplace: `modules/marketplace/application/{create,manage,moderate}.ts`, `db/counters.ts`, migration 019 | listing state, expiry, category and detail tables; reports; the `counters` row of a member | publish, edit, close, hide, restore, remove, report, resolve, `marketplace-expiry` | requests and job on one row. Quota, terminal states, expiry only when due, detail rows of one category | `Marketplace` |
| Sessions and refresh tokens: `modules/auth/sessions.ts`, migration 007 | `sessions`, `refresh_tokens` (a lineage) | sign-in, rotate, replay, sign-out, password reset, `sessions.expire` | the same lineage from two tabs, lock orders that cross. One live session, one fresh token, a dead lineage stays dead | `Sessions` |
| One-time codes, reset tokens: `modules/auth/otp.ts`, `application/{verify,resend}-otp.ts`, `*-password-reset.ts` | `otp_challenges` (attempts, consumed), `password_reset_tokens` | issue, verify, resend, redeem | attempts at the limit, a code of another purpose or of an old address | `Onboarding` (codes) |
| Onboarding: `modules/onboarding/application` | `members` (confirmed and verified dates), `membership_applications`, `device_approvals` | register, verify mobile, change and verify email, submit, decide (staff, auto-deny, auto-approve) | two transactions per verification; staff and job deciding together. Decided once, an address confirmed only by its own code, but in two windows | `Onboarding` |
| Mail outbox: `decorators/mail.ts` | `mail_outbox` (sent, attempts, next attempt) | enqueue in a transaction, `mail.deliver` | a batch that outlives its lease; a failure recorded late. Every mail sent, twice only when it could not be told | `MailOutbox` |
| Media: `modules/media` | `assets`, `asset_variants`, blobs, the stored-bytes counter, the job queue | upload, derive, delete, attach | crash between commit and enqueue, overlapping jobs, deletion against upload. An asset does not stay `processing`, but for failures that can be named; the counter equals the bytes | `MediaAssets` |
| Messaging: `modules/messaging/application` | conversations, participants, messages, read marks | inquire, append, mark read | two first inquiries, messages and marks that cross. One conversation per listing and inquirer; nothing marked read unseen | `Messaging` |
| Events: `modules/events/application` | `event_registrations`, seats taken (trigger) | register, cancel, price | the last seat, a first registration twice, a cancellation of what was paid meanwhile. No overselling; a payment for what it was made for | `EventRsvp` |
| Threads: `modules/threads/application` | posts, reactions, follows, blocks, mutes | post, follow, block, moderate, timelines | a follow racing a block, a dozen reads that must all filter. No follow across a block, nobody named across one but in one's own lists | `Threads` |
| Profiling: `modules/profiling/application` | `member_profiling` | save a step, complete | a second pool connection taken while holding the first | not modelled |
| Jobs: `ops/jobs.ts` | a set of names under way, `job_runs` | cron tick, kick, record | overlap with a kick, an error while recording | the jobs of modelled parts; the runner in `MailOutbox` |
| Plumbing: deadline, breakers, rate limits, pool (`plugins/*`, `config/*`, `db/*`) | breaker state, connections, buckets | answer 503 at the deadline, open, half-open, abort a query | a handler that goes on after its answer; an aborted commit | as `Rollback`, `GiveUp`, `Crash`, an outage |
| Clients: `src/expo-client`, `src/client` | stored tokens, one refresh in flight | call, refresh, retry, lose the session | a refresh answered after sign-in; a lost answer that becomes a replay | not modelled |
| Audit, server faults, profile, organisations, offers, RAG, public site, SEO, SMS policy, seeds | append-only records, single rows | single statements and rendering | little that is concurrent | not modelled |

How they interact: the parts share the database. `offers` reaches push by a
trigger; onboarding and review reach mail by rows written in their own
transaction; the marketplace reaches the quota counter inside its transaction and
messaging by `listing_id` (an inquiry is a request of both); threads read the
relations of profiles and the assets of media; authentication reaches push by deleting the devices of a
signed-out session; every part reaches the audit log after its commit. Jobs are
started by croner on each instance, and `push.deliver` by a pg-boss kick as well.

## 2. Plan

1. `PushDelivery`, `PushOutbox`, `MCPushOutbox`, `PushOutboxProofs`: done.
2. `ListingLife` (abstract), `Marketplace`, `MarketplaceProofs`: done.
3. `SessionLineage` (abstract), `Sessions`, `SessionsProofs`: done.
4. `MembershipDecision` (abstract), `Onboarding`, `MCOnboarding`, `OnboardingProofs`: done.
5. `Handlers` (what media and events share), `MediaAssets`, `CapacityProofs`: done.
6. `Threads`, `MCThreads`, `ThreadsProofs`: done.
7. `MailOutbox`, `MailOutboxProofs`: done.
8. `EventRsvp`, `MCEventRsvp`, their proofs in `CapacityProofs`: done.
9. `Messaging`, `MCMessaging`, `MessagingProofs`: done.
10. Proofs of the punctual push run (`PunctualSpec`) and of the media ledger: done.
11. Next: `AppClient` (the Expo app's single-flight refresh, composed with `Sessions`, and
   the token a password reset redeems); `Profiling` with the connection pool.

Runs take a little over two minutes at most: two requests or runs, one or two accounts, members
or notifications, two or three rows. Each model keeps parameters as CONSTANTS, one
action per statement or transaction, and no RECURSIVE operator, so that all of
them can be proved about. A component has one run, and a second where another
instance or assumption shows more (`push_punctual`, `onboarding_decided`).

Invariants that speak of the same tables and are broken by the same races are
checked as one named conjunction, whose parts keep their names, their comments
and their theorems: `OneAttemptAtATime`, `PromiseAndVerdictStand`, `TablesAgree`,
`EndsAreSound`, `OneLineage`, `ContactsProven`, `DecidedByTheRules`, `RecordsAreTrue`.

## 3. The modules

### PushOutbox

One row of `push_notifications` is `note[n]` and `lease[n]`; a row of
`push_deliveries` is `status`, `attempts`, `timer` at `<<n, d>>` (UNIQUE
(notification, device)); a row of `push_devices` is `device[d]` with `dead`. A run of
`push.deliver` is a process `r` whose `pc[r]` names the statement it is at. Every SQL
statement of `dispatchDue` and `dispatchOne`, or transaction where there is one, is an
action: `FailStaleSending`, `ClaimNotification` (`NothingDue` ends the run), `CheckOffer`,
`Cancel`, `Materialise`, `ClaimBatch`, `Send` (outside any transaction, and the only
place where `accepted` grows), `RecordOutcomes`, `SetBackoff`, `DisableDead`,
`RenewLease`, `FinishIfDone`, `ReleaseLease`. What a run remembers between them (the
notification, the status it read, the batch, the outcomes) is its locals, so it
acts on what it read. Around it: offers come and go, phones register, leave,
change eligibility, receipts arrive, the clock ticks, runs crash.

Time: `Lease` and `Backoff` are counted in ticks, `lease` and `timer` in ticks left;
0 is a past instant. `Send` may have each outcome the transports can report for a
message, including "unknown" with the message taken or not.

`PushDelivery` is what the outbox promises of one delivery: owed, dropped, handed,
taken back only if not taken, settled, reached once. `KeepsPromise` maps `status` and
`accepted` onto it.

Left out: titles, bodies, locale, `sent_at`, totals and error texts; the `enabled`
switch (a run that never starts is among the behaviours); `not_before` (`BecomeDue`).

### Marketplace

A listing is `state`, `owner`, `expiry`, `category`, `details` (the category tables that hold a
row for it) and `features`. sold, filled and withdrawn are one value, `closed`: the code
treats them alike. A request takes two or three steps: it reads its row FOR UPDATE and
then writes and commits, or rolls back. Only a transaction on the same row waits for
it. `read[r]` is what it saw. A PATCH with an expiry is two transactions, and may be cut
off between them. `createListing` locks the quota counter (`ReadCounter`) and commits charge,
listing and detail row together. The job's UPDATE is `StartExpiry` (the rows its snapshot
matches) and one `ExpireRow` for each, which evaluates the WHERE clause again on the
row it finds, as PostgreSQL does after waiting.

`ListingLife` is the same without requests: a listing is published within the quota, moved by
its owner or a moderator, dated, expired, removed, each in one step that sees the listing as it is.
`KeepsLife` maps `state`, the listings whose expiry is past, and `used` onto it.

Left out: text, prices, images, browsing, the member's standing, audit entries.

### Sessions

`session[s]` is "live" or its `revoked_reason`; `token[t]` is fresh, lapsed, consumed or
deleted, `of[t]` its session. Statements that can wait for a row (`Needs`) are actions
guarded by `Free`; a transaction's writes appear when it commits. `Supersede` and
`Revoke` look again at each row after waiting; `Present` reads the session before waiting
for the token, as the SELECT's snapshot does. `one_active_session_per_account` is the
guard of `StartSession`; `SignInConflict` is the unique violation. `Purge` takes the
successor a rotation commits while the DELETE waits, by the cascade on `parent_id`.
`DeadlockVictim` aborts one of two requests that wait for each other.

`SessionLineage` is what the rules at the head of `sessions.ts` promise, each operation in one
step: `SignIn` ends the account's session as it opens the next, `Rotate` exchanges the one usable
token, `Kill` ends a session with its tokens, `End` without them. `Stage`, `Usable` and `Issued`
read its variables from the rows: "dead" is ended by a sign-out or a replay, "over" is
superseded or reset. A rotation that had passed its check when the session became over still
exchanges the token: `Rotate` allows it, and does not say that it is the last.

Left out: the Redis denylist (`sessions.revoked_at` is read as well on every request),
cookies, user agents, the prune of old rows, and the push devices a sign-out deletes.

### Onboarding

A member is `email`, `mobile`, `language`, `verified` and `confirmed` (the two timestamps); its
application is `state`, `submitted` ("no", "recent", "day": how long ago), `automatic`, and
`told`, the mails queued. A code `c` is `code[c]` (open, lapsed, spent), `holder`, `purpose`,
`sentTo`, `tries`. A handler is a process: `StartRegister`, `StartResume`, `StartResend`, `StartSend`
are what it reads outside any transaction, kept in its locals; `Insert`, `Resume`,
`Resend`, `MailCode` are what it then writes, in one transaction or one statement that
counts. `verifyChallenge` is `PresentCode` (the row is locked) and `WrongCode`,
`RightMobileCode` or `RightEmailCode`; the handler's second transaction is `MarkMobile` or
`ConfirmEmail`. `ChangeContact`, and the first half of `ChangeEmail`, hold their rows from
the first statement to the commit and are one action; `ReadAddress` is what `changeEmail`
reads again before it mails the new code. The unique indexes are the guards of `Insert`,
`Resume` and the two changes; their violations are `InsertConflict` and `ResumeConflict`.
`Decide` is staff, `StartAutoApprove` what the job's SELECT finds, and `AutoApprove` one
transaction of its loop.

`resendOtp` texts a fresh code whatever the old one was for, always of four digits;
the endpoint that confirms an address takes six (`EMAIL_CODE_LENGTH`), so such a code is
redeemed nowhere: `Resent`. Three history variables remember where codes went: `proof[m]` and
`texted[m]`, the destinations of the codes that confirmed the address and verified the
number, and `outrun`, the contacts that were changed while the old one was still at work:
an address while a handler was about to mail a code there or had redeemed one
(`EmailAtWork`), a number also while another code sent there was out, or when it was
verified already (`MobileAtWork`).

`MembershipDecision` is what an applicant is promised whoever decides: open, waiting,
then approved or denied for good, and a mail that says so. `DecidesOnce` maps `state`,
`submitted`, `email` and `told` onto it.

Left out: names, birthdays, countries; the device a code is bound to (a foreign
device gets the answer of a wrong code) and `device_approvals`; the mail to the owner of
an address in use; the job's LIMIT of 100; the trigger and CHECKs of migration 020,
which the WHERE clause of `applyDecision` never reaches.

### MediaAssets

An asset is `assets[c]` of a content `c` (UNIQUE checksum): its id, state, owner, bytes and
whether its derivatives are recorded. `store` is what the object storage holds, `used[m]` the
member's counter of stored bytes. An upload writes its objects (`Upload`), then looks the
checksum up (`Lookup`) and inserts (`Insert`) in one transaction that locks nothing between the
two, and for a video enqueues the job after the commit (`Enqueue`). A job is
`JobRead`, `JobDerive`, `JobCommit`, or its failures (`JobThrows`, `JobCommitFails`) and
`JobRecordFailure`, which writes whatever the state has become. Two failures of a job are
caught by nobody but the queue, which notes them: that of the SELECT, before the `try`
(`JobReadFails`), and that of the UPDATE in the `catch` (`JobRecordFails`). A COMMIT whose
answer is lost leaves the row, and the handler or job goes on as if it had failed (second
branch of `Insert` and `JobCommit`). `Delete` is the transaction, `Remove` the storage after it,
of which any part may fail. `Crash`, any number of times, takes the requests and the queue,
which is in memory (`createInlineQueue`). `lost` remembers the videos that were in
`processing` when what would have ended it was cut short, until they are enqueued again.

Left out: what an image or a video is, its validation, metadata and transcoding; the
alternative queue in PostgreSQL (pg-boss, when it is configured: jobs then survive a
crash); who may read an asset; galleries.

### Threads

A post is `posts[p]` (state, author, what it answers, the root of its conversation, what it
quotes, whom it mentions); the other tables are sets of pairs. Handlers that check and then
write are two actions: `CheckPost`/`InsertPost`, `CheckReaction`/`React` or `WriteReport`,
`CheckFollow`/`WriteFollow`. Blocks, mutes, deletion and moderation are one statement or
transaction each. What a member reads is a set of operators, one for each query (`FeedAll`,
`FeedOwn`, `FeedShared`, `TabPosts`, `ThreadPosts`, `Listed`, `Activity`, and `BlockList` and
`MuteList`, the viewer's own) with the conditions its SQL has, and `Shown(v)`, the members each
of them names to `v`. `listRelation` has no condition at all, so `NothingAcrossBlock` speaks of
the reads outside `OwnLists`. A read is one look at the tables; the code takes two or three
(rows, then mentions and quoted posts), so a block placed between them may hide a post late.

Left out: bodies, media, hashtags, search, the order and paging of lists, the rate limit,
handles (a member has one) and the mark of when Activity was last read.

### MailOutbox

A row of `mail_outbox` is `row[m]`, `full` (its variables are there) and `due`. A run is a
process through `runJob` and `deliverDueMail`: `LogStart`, `Claim` (one statement), and for
each row of the batch `NextMail`, the provider's answer (`Accept`, `AcceptUnheard`, `Refuse`) and
what is recorded of it (`RecordSent`, `RecordRetry`). A statement may fail (`RecordSentFails`,
`RecordRetryFails`, `RunThrows`, `LogFails`) and the process die (`Crash`); `MaxMishaps` bounds both.
A lease or a backoff ends at any moment after it began (`BecomeDue`), so every length
of either, and every speed of the provider, is among the behaviours. `late` and `lost`
remember why a mail may go twice.

Left out: templates, languages, the order of a batch, the exponent of the backoff.

### EventRsvp

One event. `reg[m]` is a member's row, with `live` for `cancelled_at IS NULL`. `registerForEvent` is
`StartRegister` (event, phase, amount: before the transaction), `LockOwn` (SELECT FOR UPDATE, which
locks nothing when there is no row), `Write` (the statement with its trigger, under the
lock on the event) and `Commit`. `cancelRegistration` is `StartCancel`, `ReadRegistration`,
`WriteCancel`, in no transaction. `PhaseAt`, `PriceFor` and `AmountFor` are the functions of
`pricing.ts`. `MarkPaid` is staff, whose console is not in this server (external in `map`).

Left out: the children's own rate (they take seats as guests do), the card discount
(`resolveEntitlement` answers null), null dates and prices, an event that staff change or
close, reminders.

### Messaging

One listing and its owner. `inquire` is `StartInquiry` (listing and owner accept it),
`FindConversation`, and then a new conversation (`BeginStart`, `CommitStart`) or a message in the one
found; a message is `BeginAppend` and `CommitAppend`, for a transaction's `now()` is when it
began and its rows are seen when it commits. `read` is `StartRead`, `ReadPage` (the newest
`PageSize` messages, or those before a cursor) and `MarkRead`. Times are counted by `stamp`, in
PostgreSQL's microseconds; `Grain` of them are a millisecond. What passes through the
driver becomes a JavaScript Date and is cut to it (`AsDate`): `created_at` before it is
written back as `last_message_at` (`CommitAppend`), and the cursor of the next page (`Cursors`),
which therefore leaves out the messages of the same millisecond as the last one shown.
`raced`, `overtook` and `missed` remember the situations in which a promise does not hold.

Left out: bodies, the inbox's own paging, audit, and the notification after the
commit: `app.notifyMessage` is called if it exists, and nothing registers it.

## 4. What the runs show

| Run | Instance | Shows |
|---|---|---|
| `push_overlap` | one offer, one phone, two runs, two attempts, batches of one, one crash, one open breaker, a lease and a backoff of one tick | with runs that overlap and outlive their lease: `OneAttemptAtATime` (`AtMostOnce`, `ChosenOnce`, `RetryBudget`), `PromiseAndVerdictStand` (`KeepsPromise`, `FinalStays`), `EveryNotificationFinishes` |
| `push_punctual` | one offer, two phones of which one has two rows, batches of two, one open breaker | as long as no run outlives its lease: `OneWorker`, `OncePerPhone`, `FinalMeansSettled` |
| `marketplace_lifecycle` | one member, two listings, two reports, two requests, quota 1 | `TablesAgree` (`LiveWithinQuota`, `OneOpenReport`, `DetailsFollowCategory`), `EndsAreSound` (`SettledStays`, `ExpiredOnlyWhenDue`, `KeepsLife`), `EventuallyExpired` |
| `marketplace_quota` | one request | `RefusedOnlyWhenFull` fails (section 5) |
| `sessions_races` | one account, three sessions, four tokens, two requests, one crash | `OneLineage` (`OneLiveSession`, `OneFreshToken`, `DeadLineage`), `KeepsLineage`, `RequestsEnd` |
| `onboarding_flow` | two members, addresses and numbers, two handlers, three codes of two tries, one crash | `ContactsProven` (`OneHolder`, `CodeSpentOnce`, `ConfirmedByMail`, `ProvenUnlessOutrun`), `CompleteTogether`, `DecidedByTheRules` (`DecidesOnce`, `AutoApprovalRule`) |
| `onboarding_decided` | one member, two addresses, two handlers, four codes of one try, one crash | `ConfirmedAddressFixed`, `EventuallyDecided` |
| `media_pipeline` | two members, an image and a video, two requests, two jobs, a quota of three objects, crashes at any time | `LedgerMatches`, `WrittenBeforeRecorded`, `ProcessingEnds` |
| `threads_relations` | three members, three posts, two handlers, four operations | `NothingAcrossBlock`, `BlockEndsFollows`; `TypeOK` includes that a reply's root is the top of its conversation |
| `mail_delivery` | two mails, two runs, batches of two, two mishaps | `OnceUnlessLateOrLost`, `RecordsAreTrue` (`WholeAndTaken`, `SuccessLeavesNothing`), `EveryMailSent` |
| `events_seats` | two members with up to one guest, three seats, three phases at three prices, two requests | `SeatsWithinCapacity`, `PaidIsForThis`, `PaidStays` |
| `messaging_inbox` | two inquirers and the owner, two conversations, two handlers, pages of one, three times, two of them in one millisecond | `OneThreadUnlessRaced`, `InboxFollowsMessages`, `ReadMeansShown` |

**Why the bounds are enough.** The conflicts are between two actors on one row: a
third run or request waits as the second does. With two attempts a delivery is
refused, retried and exhausted. Two listings and a quota of one put the quota at its
limit, and let the member try again after a listing ended. Three sessions let two sign-ins
race to supersede one; four tokens let one session be rotated and replayed while
another begins. `MaxCrashes` and `MaxOutages` bound how often something fails from
outside; `SpareSession` and `SpareToken` stop requests that would need an id the instance
does not have; ids of listings, reports and device rows are used once. `MaxAttempts`,
`Lease`, `Backoff`, `BatchSize`, `Limit` are parameters of the code, small here and arbitrary
in the proofs. In onboarding,
two members are enough for a conflict over an address or a number; three codes take one
of them through both verifications with a resend or a correction, four with both, and
two handlers hold the same code, or one holds it while the other changes what it was
for. `Spare` and `Room` keep a handler from starting that would need a code or a member id
the instance does not have. With a video and an image, two jobs of the video overlap
and a member reaches the quota with either; two ids (`MaxAssets`) let a content be deleted
and uploaded again. Four operations (`MaxOps`) and the writes they lead to are enough to
write, share, block and read, or to write, answer and answer again; three members are
one who reads, one who wrote and one who shared. Two mails in a batch
put one behind the other while its lease ends, and two mishaps let one mail be lost
and the run fail besides. A party of two and three seats fill the event with a party
and a member, or leave one seat for two; the clock goes from before the opening
to the start, through each price. Three times are two messages and a mark, or three
messages; a page of one leaves a message out.

`push_punctual`, `onboarding_flow`, `threads_relations`, `events_seats` and `messaging_inbox` use
symmetry; they check no liveness. The runs of onboarding, threads and events do not check
deadlock: an instance whose codes or operations are used up, or whose event has started,
has nothing left to do.

**Fairness.** A handler or run goes on: every await in it returns or throws, each
query and provider call has a deadline (weak fairness of a run's or request's step).
The clock ticks; croner starts each job again and again (weak fairness of the job's
start). Rows that are locked again and again need strong fairness (`ExpireRow`, and
`Step` of a session request): PostgreSQL serves the waiters of a row in turn and breaks
deadlocks. A day passes
for a submitted application (`TimePasses`), and no handler lives that long: the request
deadline is seconds. The job's loop (`AutoApprove`) is weakly fair, its failures bounded.
A media handler and a job go on
(`HandlerStep`, `JobStep`): the request has its deadline, transcoding the breaker's time
limit. Waits of the mail outbox end, its job ticks and its runs go on, and a provider that is
asked again and again takes a mail some time (strong fairness of `Accept`): retries
have no limit. Requests are never forced to begin, phones to register, offers to change.

**Punctuality.** `PunctualSpec` lets the clock pass the end of a lease only when no run
works under it. The code renews the lease after every batch of 100 with a lease of
minutes; a provider call has a deadline far below it, so this is the normal case, but
nothing enforces it, and section 5 says what its failure costs. `OnTime` speaks only of a
lease that is still there: a run that finished its notification has given it back, and
the clock may go on before the run lets go of the row.

## 5. What the runs found

* `marketplace_quota`: nothing releases a reservation when a listing ends, so the quota
  "how many listings one member may have live at once" is one for life.

What the models show beside it, each stated by a definition that no run checks (add
it to the component's cfg to see the behaviour) or by the exception a property makes:

* `OncePerPhone` without `PunctualSpec`: `materialise` inserts the audience without looking at
  the status; a run that read `queued` before its lease ran out adds a phone that signed
  out and back in to a notification that was sent (`dispatch.ts:286` says it does not).
* `ReportsAreKept`: reports "are never deleted" (migration 019), but cascade with the
  listing staff remove.
* `ReplayEndsSession`: rotation locks token, then session; revocation session, then tokens. The
  replay may be the deadlock's victim, and the lineage it should end lives on.
* `LapsedSessionsEnd`: `sessions.expire` writes `revoked_reason = 'expired'`, which the CHECK
  of migration 007 does not allow: the job fails whenever it finds a row.
* `OldCodesStop`: "a code mailed to the mistyped address must not confirm the new
  one" (`verify.ts:159`), but `verifyEmail` spends the code and confirms the address in two
  transactions, and `sendEmailCode` reads the address before it issues the code: a
  `changeEmail` in between is confirmed by the old address's code. `ProvenUnlessOutrun` excepts
  these two windows: in every other order the old address's codes are spent.
* `OldNumbersStop`: a number may be verified that was not the one texted. `changeContact`
  spends the code it was authorised by, and a registration resumed with another number
  (`register.ts:71-82`) none, so the code sent to the old number verifies the new one; and a
  resumed registration that read before the number was verified (`register.ts:66-80`) writes
  another one over it, which stays verified. `ProvenUnlessOutrun` excepts both.
* `ReadyIsServed`: `deleteAsset` removes objects after its commit, and an upload of the same bytes
  that commits in between has a ready row and no bytes. This is why `WrittenBeforeRecorded`
  speaks of contents that had no row deleted.
* "An asset never stays `processing`" (`worker.ts:17`, and migration 003 calls such a row a
  defect), but a video does, until someone uploads it again, when the process dies between its
  commit and the end of its job, when the upload is not told of its COMMIT, when the job's SELECT
  fails (`worker.ts:36`, before the `try`), or when the UPDATE that records a failure fails
  (`worker.ts:104`, in the `catch`): `ProcessingEnds` excepts these (`lost`), and `NobodyForgets`
  is proved, that there are no others. A job that fails late writes `failed` over the `ready` of
  another, and the bytes of both are charged: the counter matches the rows all the same.
* `CountsOpenable`: reply and quote counts include posts across a block that the viewer gets a
  404 for ("a number never promises a post that 404s", `threads.ts:53`).
* `OwnListsVisible`: one's own lists of blocked and muted members name also those who are
  not in standing, or have since blocked the viewer (`relations.ts:61-77`).
* A follow written while a block is placed survives it (`raced` in `BlockEndsFollows`).
* A second first registration of a member that races the first is a unique violation
  `registerForEvent` does not map; a cancellation that read an unpaid registration cancels it
  although it was paid meanwhile (`overtaken` in `PaidStays`).
* `OrderingKeyAgrees`: `last_message_at` is written back from `created_at` so that the two
  "can never disagree" (`converse.ts:158`), but it comes back without its microseconds: the
  inbox's key is older than the message, by less than a millisecond, after almost every
  message. `InboxFollowsMessages` compares milliseconds.
* Two inquiries at once open two conversations about one listing (`raced`); of two messages
  written at once the one that commits last sets `last_message_at`, the newer or
  not (`overtook`); a read marks everything up to now, what its page did not hold and
  what was being written as well (`missed`).

## 6. What is proved

Each proof module extends its component's module and uses that module's ASSUME and
nothing else: the sets of rows, accounts and requests, the quota, the attempts and the
bounds on failures are arbitrary. Every safety property of a passing run, invariant or
action property, is a theorem. In each the proof has a step per action of `Next`.

**`PushOutboxProofs`**: `TypeCorrect`, `AtMostOnceTheorem`, `ChosenOnceTheorem`,
`RetryBudgetTheorem` (invariants), `FinalStaysTheorem` (no step changes a final status) and
`Refinement` (`Spec` implements `PushDelivery!Spec` under the mapping of `KeepsPromise`). What
they rest on is the row's status, never the lease. `AtMostOnce` is not inductive. `IInv`
adds that a row which may be sent has an attempt left (`AttemptsLeft`), that a
delivery in a run's hands is `sending` or was given up (`HeldInFlight`), that nobody took
the messages of a batch before it is sent (`NotYetTaken`), that what the provider refused
was not taken (`RefusedNotTaken`), and that what was taken is never pending again
(`TakenLeft`).

`OneWorkerTheorem`, `OncePerPhoneTheorem` and `SettledTheorem` are about `PunctualSpec`, and for
any length of a lease and any phones with any rows. Here the lease carries the argument.
`PunctualInv` has three parts, each of which rests on the one before: `Ownership` (what a run is
at is leased and unfinished, or the run itself just finished it, so no other run can
claim it); `Audience` (a notification claimed while queued is queued until that run writes its
audience, so it is written once, and a phone has one device row at that moment);
`Settling` (what a run holds belongs to its notification, so who finishes it sees all that is
in flight). Without `OnTime` the first part fails, and section 5 says what follows.

**`MarketplaceProofs`**: `TypeCorrect`, `QuotaTheorem`, `ReportsTheorem`, `DetailsTheorem`,
`SettledTheorem`, `ExpiryTheorem`, `LifeRefinement` (`Spec` implements `ListingLife!Spec`).
`IInv` says that one request holds a row (`OneHolder`), that what a request read under its lock
still stands (`ReadStands`), and what the counter counts (`Charged`): the listings a member ever
published. The live ones are among them, which is why the quota holds, and why it never frees up
(section 5). The refinement is where the locks pay: the step that commits a transition, a charge
or an expiry is enabled in `ListingLife` because what was read still stands. It adds only that
nothing is dated before it is published (`Undated`).

**`SessionsProofs`**: `TypeCorrect`, `OneLiveTheorem`, `OneFreshTheorem`, `DeadLineageTheorem`,
and `LineageRefinement` (`Spec` implements `SessionLineage!Spec`, `KeepsLineage`). `IInv`
says, step by step, which rows a request has locked and what it may rely on
(`Holds`): a token being rotated is still unused; a lineage about to be deleted belongs to
a session that is locked or over. Rows are locked once (`OneHolder`). The bounds
`SpareToken` and `SpareSession` play no part: a step that takes an id has one left. The
refinement needs two more: the session a request has locked is live, and of its account
(`LockedStands`), and a reset ends one session at most (`ResetsOne`); each action then has a
lemma that names the promised step it is (`StartMoves`: the commit of a sign-in is `SignIn`,
whatever it superseded; `PurgeMoves`: of `Kill`, `Forget` or nothing, by who revoked first).

**`OnboardingProofs`**: `TypeCorrect`, `OneHolderTheorem`, `CodeSpentOnceTheorem`,
`CompleteTogetherTheorem`, `ConfirmedByMailTheorem`, `ConfirmedAddressFixedTheorem`,
`AutoApprovalTheorem`, and `DecidesOnceTheorem` (`Spec` implements `MembershipDecision!Spec`). `IInv`
says what a handler may rely on at each step (`Known`: a code it checks is still usable,
the member of a session is verified), that a code is in one handler's hands
(`OneSpends`), that codes are issued in order and have a try left (`CodesKnown`), that only
who registered is verified or decided (`Registered`), and that nobody resumes an
application a day old (`Settled`): a resumed registration can change the language after
the application was submitted, so it is this that keeps what the job read true.
`ProvenTheorem` (`ProvenUnlessOutrun`, a part of `ContactsTheorem`) follows a contact that was
not outrun from the row a code is issued in to the handler that redeems it: what is out, in a
handler's hands or redeemed went to the contact of now (`EmailsKept`, `MobilesKept`), and
nobody whose number is not verified has a code for an address (`AddressCodes`), so
`changeContact` has none to spend.

**`CapacityProofs`** is about the two components that count against a ceiling. The bytes of a
member and the seats of an event are sets with one element for each unit (`StoredBytes`,
`SeatsOf`), so that what SQL sums is a cardinality: a sum over a set is a recursion, of which
nothing could be proved here, while `CountByOne` takes the units of one row apart from the
rest with the library's facts on finite sets.

Of `MediaAssets`: `TypeCorrect`, with it that no counter exceeds the quota; `StorageFirst`
(`WrittenBeforeRecorded`); `LedgerTheorem` (`LedgerMatches`), and `QuotaOnBytes`, which
follows: what is stored, and not only what is counted, is within the quota. `IInv` adds that
a request that will insert a row has written its objects (`UploadWritten`), that a job that will
record derivatives has written them (`DerivedWritten`), and that what is about to be removed
belongs to a content that had a row deleted (`RemovesDeleted`). The ledger is inductive with
the types (`Ledger`, which adds that the rows' bytes are finitely many): a step writes one row, and
`LedgerStep` says that charging its owner what the row gains keeps the counter right. A
release never meets its clamp at zero, because the row it releases is part of the count.
`NobodyForgetsTheorem` is the safety half of `ProcessingEnds`: a video in `processing` waits to be
enqueued, has a job, or is `lost`; each step that takes a job or a handler away has recorded its
verdict, found the row gone or ready, or marks it lost (`ForgetsStep`).

Of `EventRsvp`: `RsvpTypes`, `SeatsTheorem`, `PaidTheorem`, `PaidStaysTheorem`, from
`EventNumbers` alone: the order of the event's dates plays no part. The invariant `RsvpInv` is
`Seating` and `Payments`. `Seating`: one request at a time is between the trigger's count
and its commit (`OneWrites`, from the lock on the event), and what it counted still stands
then (`WrittenFits`), because meanwhile others can only cancel. That the trigger leaves out the
row it is about, or that there is none yet (the unique index), is where `Full` and `Duplicate` are
used. `Payments`: who is about to be cancelled is unpaid or `overtaken` (`CancelsUnpaid`).

**`ThreadsProofs`**: `TypeCorrect`, `BlockTheorem`, `NothingAcrossTheorem`. `IInv` says that a reply
about to be written has the root of what it answers (`PendingRoots`), and a follow about
to be written crosses no block unless one overtook it (`PendingFollows`). That nobody is
named across a block, by a read that is not one's own list, needs no invariant but the types:
each read filters for itself, and the proof goes through them one by one.

**`MailOutboxProofs`**: `TypeCorrect`, `OnceTheorem`, `RecordsTheorem`. `IInv` says what a run holds (`RunsInv`:
copies that are whole, the row it is at among them), that what is about to be
recorded was taken (`TakenInv`), and of a mail that was neither claimed late nor lost that one run
at most holds it and it was taken once if it is recorded, or about to be (`CleanInv`).

**`MessagingProofs`**: `TypeCorrect`, `OneThreadTheorem`, `InboxTheorem`, `ReadTheorem`. Each promise is inductive
with what holds of the conversations outside its exception, the second for a millisecond of any
length (`DateOrder`: cutting stamps keeps their order): one inquiry under way at most
(`StartInv`), one writer at most, not older than what is there (`WriterInv`), and a reader about to mark
a conversation has seen it while nobody else writes (`ReaderInv`).

Only model-checked: liveness (`EveryNotificationFinishes`, `EventuallyExpired`,
`RequestsEnd`, `EventuallyDecided`, `ProcessingEnds`, `EveryMailSent`), which rests on fairness
and ENABLED and which TLAPS cannot prove here. Each inductive
invariant was checked by TLC on the instance of the component's passing run before it was
proved.

## 7. Not modelled

* The Expo app's shared refresh (`client.ts`) and the web client: planned next. Both run on a
  phone or in a browser, so they need a model of lost and late answers composed with
  `Sessions`.
* `completeProfiling` takes a second pool connection while it holds the first. What happens
  then is decided by the driver's queue and its time limit, which are not in this
  repository.
* Reset tokens, push enqueue, preferences, galleries, offers, profiles, organisations: single
  statements guarded by an index or a WHERE clause. The module that uses their
  outcome has an action for it (`ResetPassword`, `BecomeDue`, `ChangeEligibility`, `ChangeVisibility`).
* Breakers, rate limits, deadlines and readiness come from libraries (opossum, `@fastify/*`);
  the modules see them as aborted steps and refused calls.
* Hashing, tokens, cookies, permissions, audit, SMS policy, payments, geocoding, RAG, SEO, the public site,
  translations, seeds and screens keep no state whose order matters, or are data. They are
  most of the repository's lines, which is why the mapped lines are a small share of it.
