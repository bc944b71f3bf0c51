---------------------------- MODULE Marketplace ----------------------------
(***************************************************************************)
(* A marketplace listing from publication to its end                       *)
(* (server/src/modules/marketplace/application, db/counters.ts, the        *)
(* marketplace-expiry job, and the tables of migrations 010 and 019).      *)
(*                                                                         *)
(* Requests of members and staff run transactions on one listing row or on *)
(* one member's quota counter, both under a row lock; the expiry job takes *)
(* the rows it matched one by one, as their locks come free.  A statement  *)
(* that reads what a later statement relies on is an action of its own;    *)
(* the last write of a transaction and its COMMIT are one.  The row a      *)
(* request has locked follows from its step.                               *)
(***************************************************************************)
EXTENDS Integers, FiniteSets

CONSTANTS
    Members,     \* who own, report and edit listings
    Listings,    \* ids of marketplace_listings rows; an id is used once
    Reports,     \* ids of marketplace_reports rows
    Requests,    \* request handlers that may run together
    Categories,  \* marketplace_category
    Limit        \* MARKETPLACE_LISTING_QUOTA

ASSUME MarketplaceAssumption ==
    /\ Limit \in Nat
    /\ "vehicle" \in Categories

VARIABLES
    state,     \* marketplace_listings.state; "none" and "removed" where there is no row
    owner,     \* owner_id
    expiry,    \* expires_at: "never" (NULL), "later" or "past"
    category,  \* category
    details,   \* the category tables that hold a detail row of the listing
    features,  \* does the listing have marketplace_vehicle_features rows?
    report,    \* marketplace_reports.state, or "none" where there is no row
    about, by, \* its listing_id and reporter_id
    used,      \* counters.used of scope marketplace.listings
    accepted,  \* the members who accepted the current terms
    doomed,    \* rows the expiry job's UPDATE matched and has not yet taken
    pc, who, on, read  \* a request's step, member, listing, and what it read

content == <<category, details, features>>
listings == <<state, owner, expiry, content>>
reports == <<report, about, by>>
members == <<used, accepted>>
requests == <<pc, who, on, read>>
vars == <<listings, reports, members, doomed, requests>>

\* "closed" stands for sold, filled and withdrawn (OWNER_TRANSITIONS).
Live == {"active", "hidden"}
Settled == {"closed", "expired"}
Absent == {"none", "removed"}
Ready == {"idle", "refused"}
Locking == {"closing", "hiding", "restoring", "editing", "dating"}
Steps == Ready \cup Locking \cup {"creating", "charging", "patched", "filing"}

Exists(l) == state[l] \notin Absent
LiveOf(m) == {l \in Listings : state[l] \in Live /\ owner[l] = m}
OpenReports(l, m) ==
    {x \in Reports : report[x] = "open" /\ about[x] = l /\ by[x] = m}
\* Mutant: the row is read without FOR UPDATE.
NeverLocked(l) == FALSE
ListingLocked(l) == \E r \in Requests : pc[r] \in Locking /\ on[r] = l
CounterLocked(m) == \E r \in Requests : pc[r] = "charging" /\ who[r] = m

Init ==
    /\ state = [l \in Listings |-> "none"]
    /\ owner = [l \in Listings |-> "none"]
    /\ expiry = [l \in Listings |-> "never"]
    /\ category = [l \in Listings |-> "none"]
    /\ details = [l \in Listings |-> {}]
    /\ features = [l \in Listings |-> FALSE]
    /\ report = [x \in Reports |-> "none"]
    /\ about = [x \in Reports |-> "none"]
    /\ by = [x \in Reports |-> "none"]
    /\ used = [m \in Members |-> 0]
    /\ accepted = {}
    /\ doomed = {}
    /\ pc = [r \in Requests |-> "idle"]
    /\ who = [r \in Requests |-> "none"]
    /\ on = [r \in Requests |-> "none"]
    /\ read = [r \in Requests |-> "none"]

\* Request r goes to a step, for member m and listing l, having read v.
Goto(r, step, m, l, v) ==
    /\ pc' = [pc EXCEPT ![r] = step]
    /\ who' = [who EXCEPT ![r] = m]
    /\ on' = [on EXCEPT ![r] = l]
    /\ read' = [read EXCEPT ![r] = v]

Answer(r) == Goto(r, "idle", "none", "none", "none")

-----------------------------------------------------------------------------
(* Publishing, against the quota. *)

AcceptTerms(m) ==
    /\ accepted' = accepted \cup {m}
    /\ UNCHANGED <<listings, reports, used, doomed, requests>>

StartCreate(r, m) ==
    /\ pc[r] \in Ready /\ m \in accepted
    /\ Goto(r, "creating", m, "none", "none")
    /\ UNCHANGED <<listings, reports, members, doomed>>

\* The upsert of reserve() locks the counter row and returns it.
ReadCounter(r) ==
    /\ pc[r] = "creating" /\ ~CounterLocked(who[r])
    /\ Goto(r, "charging", who[r], "none", used[who[r]])
    /\ UNCHANGED <<listings, reports, members, doomed>>

RefuseQuota(r) ==
    /\ pc[r] = "charging" /\ read[r] + 1 > Limit
    /\ Goto(r, "refused", who[r], "none", "none")
    /\ UNCHANGED <<listings, reports, members, doomed>>

\* The charge, the listing and its detail row commit together.  An expiry that
\* is already past fails a CHECK of the table, and rolls all of it back.
InsertListing(r, l) ==
    /\ pc[r] = "charging" /\ read[r] + 1 <= Limit /\ state[l] = "none"
    /\ \E c \in Categories, e \in {"never", "later"}, some \in BOOLEAN :
          /\ category' = [category EXCEPT ![l] = c]
          /\ details' = [details EXCEPT ![l] = {c}]
          /\ features' = [features EXCEPT ![l] = c = "vehicle" /\ some]
          /\ expiry' = [expiry EXCEPT ![l] = e]
    /\ state' = [state EXCEPT ![l] = "active"]
    /\ owner' = [owner EXCEPT ![l] = who[r]]
    /\ used' = [used EXCEPT ![who[r]] = @ + 1]
    /\ Answer(r)
    /\ UNCHANGED <<reports, accepted, doomed>>

-----------------------------------------------------------------------------
(* The owner and the moderators: SELECT ... FOR UPDATE, then a write. *)

LockListing(r, l, step, v) ==
    /\ Exists(l) /\ ~ListingLocked(l)
    /\ Goto(r, step, "none", l, v)
    /\ UNCHANGED <<listings, reports, members, doomed>>

Ask(r, l) ==
    /\ pc[r] \in Ready
    /\ \/ \E step \in {"closing", "hiding", "restoring"} :
             LockListing(r, l, step, state[l])
       \/ LockListing(r, l, "editing", category[l])

\* The transaction of r writes state s if it read one of the states `from`.
MoveState(r, step, from, s) ==
    /\ pc[r] = step /\ read[r] \in from
    /\ state' = [state EXCEPT ![on[r]] = s]
    /\ Answer(r)
    /\ UNCHANGED <<owner, expiry, content, reports, members, doomed>>

CloseListing(r) == MoveState(r, "closing", {"active"}, "closed")
RestoreListing(r) == MoveState(r, "restoring", {"hidden"}, "active")

\* What the tables hold of a listing that leaves `old` for c, with the payload's
\* details or without them, and with its features (none, some) or without.
DetailsAfter(l, old, c, given) ==
    IF c # old \/ given THEN (details[l] \ {old}) \cup {c} ELSE details[l]

FeaturesAfter(l, old, c, f) ==
    CASE c = "vehicle" /\ f # "omitted" -> f = "some"
      [] old = "vehicle" /\ c # "vehicle" -> FALSE
      [] OTHER -> features[l]

EditListing(r) ==
    LET l == on[r] IN
    /\ pc[r] = "editing"
    /\ \E c \in Categories, given \in BOOLEAN, f \in {"omitted", "none", "some"} :
          /\ category' = [category EXCEPT ![l] = c]
          /\ details' = [details EXCEPT ![l] = DetailsAfter(l, read[r], c, given)]
          /\ features' = [features EXCEPT ![l] = FeaturesAfter(l, read[r], c, f)]
    /\ Goto(r, "patched", "none", l, "none")
    /\ UNCHANGED <<state, owner, expiry, reports, members, doomed>>

\* PATCH with an expiresAt goes on with a second transaction of its own.
LockForExpiry(r) ==
    /\ pc[r] = "patched"
    /\ LockListing(r, on[r], "dating", "none")

\* An instant after publication, which may be past by now, or none; and in
\* whatever state the listing is.
SetExpiry(r) ==
    /\ pc[r] = "dating"
    /\ \E e \in {"never", "later", "past"} : expiry' = [expiry EXCEPT ![on[r]] = e]
    /\ Answer(r)
    /\ UNCHANGED <<state, owner, content, reports, members, doomed>>

\* Refused, failed at a constraint, cut off by its deadline, or answered
\* between its two transactions: nothing of the open one is written.
Rollback(r) ==
    /\ pc[r] \notin Ready
    /\ Answer(r)
    /\ UNCHANGED <<listings, reports, members, doomed>>

-----------------------------------------------------------------------------
(* Moderation: hiding, removing, reports. *)

\* Mutant: the quota is given back when the listing leaves the index.
HideRefunding(r) ==
    /\ pc[r] = "hiding" /\ read[r] = "active"
    /\ state' = [state EXCEPT ![on[r]] = "hidden"]
    /\ used' = [used EXCEPT ![owner[on[r]]] = @ - 1]
    /\ Answer(r)
    /\ UNCHANGED <<owner, expiry, content, reports, accepted, doomed>>

HideListing(r) == MoveState(r, "hiding", {"active"}, "hidden")

\* One DELETE, from any state; the detail rows, the features and the reports
\* go with it (ON DELETE CASCADE).
RemoveListing(l) ==
    LET gone(x) == about[x] = l IN
    /\ Exists(l) /\ ~ListingLocked(l)
    /\ state' = [state EXCEPT ![l] = "removed"]
    /\ details' = [details EXCEPT ![l] = {}]
    /\ features' = [features EXCEPT ![l] = FALSE]
    /\ report' = [x \in Reports |-> IF gone(x) THEN "none" ELSE report[x]]
    /\ about' = [x \in Reports |-> IF gone(x) THEN "none" ELSE about[x]]
    /\ by' = [x \in Reports |-> IF gone(x) THEN "none" ELSE by[x]]
    /\ UNCHANGED <<owner, expiry, category, members, doomed, requests>>

\* The two SELECTs of reportListing; the foreign key repeats the first.
CheckReport(r, m, l) ==
    /\ pc[r] \in Ready /\ Exists(l) /\ OpenReports(l, m) = {}
    /\ Goto(r, "filing", m, l, "none")
    /\ UNCHANGED <<listings, reports, members, doomed>>

\* The INSERT takes a key-share lock on the listing, and the partial unique
\* index refuses a second open report (Rollback).
FileReport(r, x) ==
    /\ pc[r] = "filing" /\ report[x] = "none"
    /\ Exists(on[r]) /\ ~ListingLocked(on[r])
    /\ OpenReports(on[r], who[r]) = {}
    /\ report' = [report EXCEPT ![x] = "open"]
    /\ about' = [about EXCEPT ![x] = on[r]]
    /\ by' = [by EXCEPT ![x] = who[r]]
    /\ Answer(r)
    /\ UNCHANGED <<listings, members, doomed>>

\* From any state: a report already resolved may be resolved again.
ResolveReport(x) ==
    /\ report[x] # "none"
    /\ \E outcome \in {"upheld", "dismissed"} :
          report' = [report EXCEPT ![x] = outcome]
    /\ UNCHANGED <<listings, about, by, members, doomed, requests>>

-----------------------------------------------------------------------------
(* Time and the marketplace-expiry job. *)

TimePasses(l) ==
    /\ expiry[l] = "later"
    /\ expiry' = [expiry EXCEPT ![l] = "past"]
    /\ UNCHANGED <<state, owner, content, reports, members, doomed, requests>>

Expirable(l) == state[l] = "active" /\ expiry[l] = "past"

\* The rows the UPDATE of a tick matches as it starts.
StartExpiry ==
    /\ doomed = {}
    /\ doomed' = {l \in Listings : Expirable(l)}
    /\ doomed' # {}
    /\ UNCHANGED <<listings, reports, members, requests>>

\* Mutant: rows that are locked are skipped.
ExpireSkipping(l) ==
    /\ l \in doomed
    /\ doomed' = doomed \ {l}
    /\ state' = IF Expirable(l) /\ ~ListingLocked(l)
                THEN [state EXCEPT ![l] = "expired"] ELSE state
    /\ UNCHANGED <<owner, expiry, content, reports, members, requests>>

\* Each as its lock comes free, the WHERE clause evaluated again on the row as
\* it is then.  No transaction reads two listings, so when the others of the
\* statement become visible makes no difference.
ExpireRow(l) ==
    /\ l \in doomed /\ ~ListingLocked(l)
    /\ doomed' = doomed \ {l}
    /\ state' = IF Expirable(l) THEN [state EXCEPT ![l] = "expired"] ELSE state
    /\ UNCHANGED <<owner, expiry, content, reports, members, requests>>

-----------------------------------------------------------------------------
Create(r) ==
    \/ ReadCounter(r) \/ RefuseQuota(r)
    \/ \E l \in Listings : InsertListing(r, l)

Step(r) ==
    \/ Create(r) \/ CloseListing(r) \/ HideListing(r) \/ RestoreListing(r)
    \/ EditListing(r) \/ LockForExpiry(r) \/ SetExpiry(r) \/ Rollback(r)
    \/ \E x \in Reports : FileReport(r, x)

Start(r) ==
    \/ \E m \in Members : StartCreate(r, m)
    \/ \E l \in Listings : Ask(r, l)
    \/ \E m \in Members, l \in Listings : CheckReport(r, m, l)

Next ==
    \/ \E m \in Members : AcceptTerms(m)
    \/ \E r \in Requests : Start(r) \/ Step(r)
    \/ \E l \in Listings : RemoveListing(l) \/ TimePasses(l) \/ ExpireRow(l)
    \/ \E x \in Reports : ResolveReport(x)
    \/ StartExpiry

Spec == Init /\ [][Next]_vars

\* A handler runs on to its answer; the job runs every few minutes; the lock
\* manager serves waiters in turn, so a row that comes free again and again is
\* taken in the end.
Fairness ==
    /\ \A r \in Requests : WF_vars(Step(r))
    /\ WF_vars(StartExpiry)
    /\ \A l \in Listings : SF_vars(ExpireRow(l))

FairSpec == Spec /\ Fairness

-----------------------------------------------------------------------------
(* What the module checks. *)

OrNone(S) == S \cup {"none"}

\* Every column and every local of a request holds one of the values listed,
\* and the counter never goes below zero.
TypeOK ==
    /\ state \in [Listings -> Live \cup Settled \cup Absent]
    /\ owner \in [Listings -> OrNone(Members)]
    /\ expiry \in [Listings -> {"never", "later", "past"}]
    /\ category \in [Listings -> OrNone(Categories)]
    /\ details \in [Listings -> SUBSET Categories]
    /\ features \in [Listings -> BOOLEAN]
    /\ report \in [Reports -> {"none", "open", "upheld", "dismissed"}]
    /\ about \in [Reports -> OrNone(Listings)]
    /\ by \in [Reports -> OrNone(Members)]
    /\ used \in [Members -> Nat]
    /\ accepted \subseteq Members /\ doomed \subseteq Listings
    /\ pc \in [Requests -> Steps]
    /\ who \in [Requests -> OrNone(Members)]
    /\ on \in [Requests -> OrNone(Listings)]

\* However many of a member's requests create listings together, and whatever
\* moderators hide and restore, the member never has more than the quota live
\* (the row lock of reserve, and the charge committing with the listing).
LiveWithinQuota == \A m \in Members : Cardinality(LiveOf(m)) <= Limit

\* No order of requests, moderation and the expiry job takes a listing out of
\* a terminal state again, short of removing it ("a sold listing is not
\* re-posted; a new listing is", manage.ts).
SettledStays ==
    [][\A l \in Listings :
          state[l] \in Settled => state'[l] \in {state[l], "removed"}]_vars

\* A listing expires only while its expiry is past: one its owner prolonged
\* or made unlimited while the job was under way is left alone.
ExpiredOnlyWhenDue ==
    [][\A l \in Listings :
          state'[l] = "expired" /\ state[l] # "expired" => expiry[l] = "past"]_vars

\* What the rows say of a listing and of the quotas, in the terms of ListingLife.
Life == INSTANCE ListingLife
    WITH stage <- state, overdue <- {l \in Listings : expiry[l] = "past"}, spent <- used

\* However transactions, rollbacks between them and the expiry job's statement
\* interleave, the tables hold a life in which each of them ran alone: no transition,
\* charge or expiry is decided on a row that has changed since it was read.
KeepsLife == Life!Spec

\* Whatever the owner, the moderators and the job do at once, a listing ends only
\* for a reason that holds, and stays ended; and so does all of its life go.
EndsAreSound == SettledStays /\ ExpiredOnlyWhenDue /\ KeepsLife

\* Two reports filed together by one member on one listing leave one open
\* (reportListing's check, and the index behind it).
OneOpenReport ==
    \A l \in Listings, m \in Members : Cardinality(OpenReports(l, m)) <= 1

\* After any sequence of edits a listing has a detail row in its category's
\* table and in no other, and features only as a vehicle (the stale-field leak
\* editListing's comment describes).
DetailsFollowCategory ==
    \A l \in Listings : Exists(l) =>
        /\ details[l] = {category[l]}
        /\ features[l] => category[l] = "vehicle"

\* What several statements of concurrent requests must leave agreeing: counter and
\* live listings, reports and their index, category and detail rows.
TablesAgree == LiveWithinQuota /\ OneOpenReport /\ DetailsFollowCategory

\* A listing that is live past its expiry, restored after it even, does not
\* stay so: it expires, unless it is prolonged, hidden, closed or removed.
EventuallyExpired ==
    \A l \in Listings :
        (state[l] = "active" /\ expiry[l] = "past")
            ~> (state[l] # "active" \/ expiry[l] # "past")

\* Violated.  A request finds the quota spent only while that many listings of
\* its member are live ("how many listings one member may have live at once",
\* counters.ts): nothing releases a reservation when a listing ends.
RefusedOnlyWhenFull ==
    [][\A r \in Requests :
          pc[r] = "creating" /\ pc'[r] = "charging" /\ read'[r] + 1 > Limit
              => Cardinality(LiveOf(who[r])) >= Limit]_vars

\* In no run, and refuted by RemoveListing: a report, once filed, is never
\* deleted (migration 019).  Removing its listing deletes it.
ReportsAreKept ==
    [][\A x \in Reports : report[x] # "none" => report'[x] # "none"]_vars

=============================================================================
