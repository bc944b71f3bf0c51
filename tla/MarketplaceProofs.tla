------------------------- MODULE MarketplaceProofs -------------------------
(***************************************************************************)
(* Proofs about Marketplace, for any number of members, listings, reports, *)
(* categories and requests, and any quota.                                 *)
(*                                                                         *)
(* Everything rests on two row locks.  Under the lock of a listing what a  *)
(* request read of it stays true until it writes; under the lock of a      *)
(* counter what it read is the number of listings the member ever          *)
(* published, and the listings that are live are among those.              *)
(***************************************************************************)
EXTENDS Marketplace, FiniteSetTheorems, TLAPS

\* A request that goes on knows the rows it goes on with.
Known ==
    /\ DOMAIN read = Requests
    /\ \A r \in Requests :
          /\ pc[r] \in {"creating", "charging", "filing"} => who[r] \in Members
          /\ pc[r] \in Locking \cup {"patched", "filing"} => on[r] \in Listings

\* A listing a request has locked exists, and is as the request read it.
ReadStands == \A r \in Requests :
    /\ pc[r] \in Locking => Exists(on[r])
    /\ pc[r] \in {"closing", "hiding", "restoring"} => read[r] = state[on[r]]
    /\ pc[r] = "editing" => read[r] = category[on[r]]

\* One request at a time holds a listing, or a counter.
OneHolder == \A r, q \in Requests : r # q =>
    /\ pc[r] \in Locking /\ pc[q] \in Locking => on[r] # on[q]
    /\ pc[r] = "charging" /\ pc[q] = "charging" => who[r] # who[q]

\* What the counter counts: every listing the member ever published.
Published(m) == {l \in Listings : state[l] # "none" /\ owner[l] = m}

Charged ==
    /\ \A m \in Members : /\ IsFiniteSet(Published(m))
                          /\ used[m] = Cardinality(Published(m))
                          /\ used[m] <= Limit
    /\ \A r \in Requests : pc[r] = "charging" => read[r] = used[who[r]]

\* The open reports of one member on one listing are all the same one.
OneReport == \A x, y \in Reports :
    report[x] = "open" /\ report[y] = "open" /\ about[x] = about[y] /\ by[x] = by[y] => x = y

Locks == Known /\ ReadStands /\ OneHolder
IInv == TypeOK /\ Locks /\ Charged /\ DetailsFollowCategory /\ OneReport

\* The owner's and the moderators' transitions.
Moves(r) == CloseListing(r) \/ HideListing(r) \/ RestoreListing(r)

USE DEF Live, Settled, Absent, Ready, Locking, Steps, OrNone

-----------------------------------------------------------------------------
(* Types. *)

\* Every column and local keeps its type.
LEMMA TypesPreserved == TypeOK /\ Known /\ [Next]_vars => TypeOK'
<1> SUFFICES ASSUME TypeOK, Known, [Next]_vars PROVE TypeOK'
  OBVIOUS
<1> USE MarketplaceAssumption DEF TypeOK, Known, vars, content, listings, reports, members, requests, Goto, Answer
<1>1. CASE UNCHANGED vars
  BY <1>1
<1>2. ASSUME NEW m \in Members, AcceptTerms(m) PROVE TypeOK'
  BY <1>2 DEF AcceptTerms
<1>3. ASSUME NEW r \in Requests, NEW m \in Members, StartCreate(r, m) PROVE TypeOK'
  BY <1>3 DEF StartCreate
<1>4. ASSUME NEW r \in Requests, NEW l \in Listings, Ask(r, l) PROVE TypeOK'
  BY <1>4 DEF Ask, LockListing
<1>5. ASSUME NEW r \in Requests, NEW m \in Members, NEW l \in Listings, CheckReport(r, m, l) PROVE TypeOK'
  BY <1>5 DEF CheckReport
<1>6. ASSUME NEW r \in Requests, ReadCounter(r) PROVE TypeOK'
  BY <1>6 DEF ReadCounter
<1>7. ASSUME NEW r \in Requests, RefuseQuota(r) PROVE TypeOK'
  BY <1>7 DEF RefuseQuota
<1>8. ASSUME NEW r \in Requests, NEW l \in Listings, InsertListing(r, l) PROVE TypeOK'
  BY <1>8 DEF InsertListing
<1>9. ASSUME NEW r \in Requests, Moves(r) PROVE TypeOK'
  BY <1>9 DEF Moves, MoveState, CloseListing, HideListing, RestoreListing
<1>10. ASSUME NEW r \in Requests, EditListing(r) PROVE TypeOK'
  <2>1. PICK c \in Categories, given \in BOOLEAN, f \in {"omitted", "none", "some"} :
            /\ category' = [category EXCEPT ![on[r]] = c]
            /\ details' = [details EXCEPT ![on[r]] = DetailsAfter(on[r], read[r], c, given)]
            /\ features' = [features EXCEPT ![on[r]] = FeaturesAfter(on[r], read[r], c, f)]
    BY <1>10 DEF EditListing
  <2>2. on[r] \in Listings
    BY <1>10 DEF EditListing
  <2>3. DetailsAfter(on[r], read[r], c, given) \in SUBSET Categories
    BY <2>2 DEF DetailsAfter
  <2>4. FeaturesAfter(on[r], read[r], c, f) \in BOOLEAN
    BY <2>2, Zenon DEF FeaturesAfter
  <2>5. /\ category' \in [Listings -> OrNone(Categories)]
        /\ details' \in [Listings -> SUBSET Categories]
    BY <2>1, <2>2, <2>3
  <2>6. features' \in [Listings -> BOOLEAN]
    <3>1. features \in [Listings -> BOOLEAN]
      OBVIOUS
    <3> QED
      BY ONLY <2>1, <2>4, <3>1, Zenon
  <2> QED
    BY <1>10, <2>5, <2>6 DEF EditListing
<1>11. ASSUME NEW r \in Requests, LockForExpiry(r) PROVE TypeOK'
  BY <1>11 DEF LockForExpiry, LockListing
<1>12. ASSUME NEW r \in Requests, SetExpiry(r) PROVE TypeOK'
  BY <1>12 DEF SetExpiry
<1>13. ASSUME NEW r \in Requests, Rollback(r) PROVE TypeOK'
  BY <1>13 DEF Rollback
<1>14. ASSUME NEW r \in Requests, NEW x \in Reports, FileReport(r, x) PROVE TypeOK'
  BY <1>14 DEF FileReport
<1>15. ASSUME NEW l \in Listings, RemoveListing(l) PROVE TypeOK'
  BY <1>15 DEF RemoveListing
<1>16. ASSUME NEW l \in Listings, TimePasses(l) PROVE TypeOK'
  BY <1>16 DEF TimePasses
<1>17. ASSUME NEW l \in Listings, ExpireRow(l) PROVE TypeOK'
  BY <1>17 DEF ExpireRow
<1>18. ASSUME NEW x \in Reports, ResolveReport(x) PROVE TypeOK'
  BY <1>18 DEF ResolveReport
<1>19. CASE StartExpiry
  BY <1>19 DEF StartExpiry
<1> QED
  BY <1>1, <1>2, <1>3, <1>4, <1>5, <1>6, <1>7, <1>8, <1>9, <1>10, <1>11, <1>12, <1>13, <1>14, <1>15, <1>16, <1>17, <1>18, <1>19 DEF Next, Start, Step, Create, Moves

\* A request goes on with a member and a listing that exist.
LEMMA KnownPreserved == TypeOK /\ Known /\ [Next]_vars => Known'
<1> SUFFICES ASSUME TypeOK, Known, [Next]_vars PROVE Known'
  OBVIOUS
<1> USE MarketplaceAssumption DEF TypeOK, Known, vars, content, listings, reports, members, requests, Goto, Answer
<1>1. CASE UNCHANGED vars
  BY <1>1
<1>2. ASSUME NEW m \in Members, AcceptTerms(m) PROVE Known'
  BY <1>2 DEF AcceptTerms
<1>3. ASSUME NEW r \in Requests, NEW m \in Members, StartCreate(r, m) PROVE Known'
  BY <1>3 DEF StartCreate
<1>4. ASSUME NEW r \in Requests, NEW l \in Listings, Ask(r, l) PROVE Known'
  BY <1>4 DEF Ask, LockListing
<1>5. ASSUME NEW r \in Requests, NEW m \in Members, NEW l \in Listings, CheckReport(r, m, l) PROVE Known'
  BY <1>5 DEF CheckReport
<1>6. ASSUME NEW r \in Requests, ReadCounter(r) PROVE Known'
  BY <1>6 DEF ReadCounter
<1>7. ASSUME NEW r \in Requests, RefuseQuota(r) PROVE Known'
  BY <1>7 DEF RefuseQuota
<1>8. ASSUME NEW r \in Requests, NEW l \in Listings, InsertListing(r, l) PROVE Known'
  BY <1>8 DEF InsertListing
<1>9. ASSUME NEW r \in Requests, Moves(r) PROVE Known'
  BY <1>9 DEF Moves, MoveState, CloseListing, HideListing, RestoreListing
<1>10. ASSUME NEW r \in Requests, EditListing(r) PROVE Known'
  BY <1>10 DEF EditListing
<1>11. ASSUME NEW r \in Requests, LockForExpiry(r) PROVE Known'
  BY <1>11 DEF LockForExpiry, LockListing
<1>12. ASSUME NEW r \in Requests, SetExpiry(r) PROVE Known'
  BY <1>12 DEF SetExpiry
<1>13. ASSUME NEW r \in Requests, Rollback(r) PROVE Known'
  BY <1>13 DEF Rollback
<1>14. ASSUME NEW r \in Requests, NEW x \in Reports, FileReport(r, x) PROVE Known'
  BY <1>14 DEF FileReport
<1>15. ASSUME NEW l \in Listings, RemoveListing(l) PROVE Known'
  BY <1>15 DEF RemoveListing
<1>16. ASSUME NEW l \in Listings, TimePasses(l) PROVE Known'
  BY <1>16 DEF TimePasses
<1>17. ASSUME NEW l \in Listings, ExpireRow(l) PROVE Known'
  BY <1>17 DEF ExpireRow
<1>18. ASSUME NEW x \in Reports, ResolveReport(x) PROVE Known'
  BY <1>18 DEF ResolveReport
<1>19. CASE StartExpiry
  BY <1>19 DEF StartExpiry
<1> QED
  BY <1>1, <1>2, <1>3, <1>4, <1>5, <1>6, <1>7, <1>8, <1>9, <1>10, <1>11, <1>12, <1>13, <1>14, <1>15, <1>16, <1>17, <1>18, <1>19 DEF Next, Start, Step, Create, Moves

-----------------------------------------------------------------------------
(* The row locks. *)

\* A row that is locked is not locked again.
LEMMA HoldersPreserved == TypeOK /\ Known /\ OneHolder /\ [Next]_vars => OneHolder'
<1> SUFFICES ASSUME TypeOK, Known, OneHolder, [Next]_vars PROVE OneHolder'
  OBVIOUS
<1> USE MarketplaceAssumption DEF TypeOK, Known, OneHolder, ListingLocked, CounterLocked, vars, content, listings, reports, members, requests, Goto, Answer
<1>1. CASE UNCHANGED vars
  BY <1>1
<1>2. ASSUME NEW m \in Members, AcceptTerms(m) PROVE OneHolder'
  BY <1>2 DEF AcceptTerms
<1>3. ASSUME NEW r \in Requests, NEW m \in Members, StartCreate(r, m) PROVE OneHolder'
  BY <1>3 DEF StartCreate
<1>4. ASSUME NEW r \in Requests, NEW l \in Listings, Ask(r, l) PROVE OneHolder'
  BY <1>4 DEF Ask, LockListing
<1>5. ASSUME NEW r \in Requests, NEW m \in Members, NEW l \in Listings, CheckReport(r, m, l) PROVE OneHolder'
  BY <1>5 DEF CheckReport
<1>6. ASSUME NEW r \in Requests, ReadCounter(r) PROVE OneHolder'
  BY <1>6 DEF ReadCounter
<1>7. ASSUME NEW r \in Requests, RefuseQuota(r) PROVE OneHolder'
  BY <1>7 DEF RefuseQuota
<1>8. ASSUME NEW r \in Requests, NEW l \in Listings, InsertListing(r, l) PROVE OneHolder'
  BY <1>8 DEF InsertListing
<1>9. ASSUME NEW r \in Requests, Moves(r) PROVE OneHolder'
  BY <1>9 DEF Moves, MoveState, CloseListing, HideListing, RestoreListing
<1>10. ASSUME NEW r \in Requests, EditListing(r) PROVE OneHolder'
  BY <1>10 DEF EditListing
<1>11. ASSUME NEW r \in Requests, LockForExpiry(r) PROVE OneHolder'
  BY <1>11 DEF LockForExpiry, LockListing
<1>12. ASSUME NEW r \in Requests, SetExpiry(r) PROVE OneHolder'
  BY <1>12 DEF SetExpiry
<1>13. ASSUME NEW r \in Requests, Rollback(r) PROVE OneHolder'
  BY <1>13 DEF Rollback
<1>14. ASSUME NEW r \in Requests, NEW x \in Reports, FileReport(r, x) PROVE OneHolder'
  BY <1>14 DEF FileReport
<1>15. ASSUME NEW l \in Listings, RemoveListing(l) PROVE OneHolder'
  BY <1>15 DEF RemoveListing
<1>16. ASSUME NEW l \in Listings, TimePasses(l) PROVE OneHolder'
  BY <1>16 DEF TimePasses
<1>17. ASSUME NEW l \in Listings, ExpireRow(l) PROVE OneHolder'
  BY <1>17 DEF ExpireRow
<1>18. ASSUME NEW x \in Reports, ResolveReport(x) PROVE OneHolder'
  BY <1>18 DEF ResolveReport
<1>19. CASE StartExpiry
  BY <1>19 DEF StartExpiry
<1> QED
  BY <1>1, <1>2, <1>3, <1>4, <1>5, <1>6, <1>7, <1>8, <1>9, <1>10, <1>11, <1>12, <1>13, <1>14, <1>15, <1>16, <1>17, <1>18, <1>19 DEF Next, Start, Step, Create, Moves

\* What a request read under its lock stays true.
LEMMA ReadsPreserved == TypeOK /\ Known /\ OneHolder /\ ReadStands /\ [Next]_vars => ReadStands'
<1> SUFFICES ASSUME TypeOK, Known, OneHolder, ReadStands, [Next]_vars PROVE ReadStands'
  OBVIOUS
<1> USE MarketplaceAssumption DEF TypeOK, Known, OneHolder, ReadStands, Exists, ListingLocked, vars, content, listings, reports, members, requests, Goto, Answer
<1>1. CASE UNCHANGED vars
  BY <1>1
<1>2. ASSUME NEW m \in Members, AcceptTerms(m) PROVE ReadStands'
  BY <1>2 DEF AcceptTerms
<1>3. ASSUME NEW r \in Requests, NEW m \in Members, StartCreate(r, m) PROVE ReadStands'
  BY <1>3 DEF StartCreate
<1>4. ASSUME NEW r \in Requests, NEW l \in Listings, Ask(r, l) PROVE ReadStands'
  BY <1>4 DEF Ask, LockListing
<1>5. ASSUME NEW r \in Requests, NEW m \in Members, NEW l \in Listings, CheckReport(r, m, l) PROVE ReadStands'
  BY <1>5 DEF CheckReport
<1>6. ASSUME NEW r \in Requests, ReadCounter(r) PROVE ReadStands'
  BY <1>6 DEF ReadCounter
<1>7. ASSUME NEW r \in Requests, RefuseQuota(r) PROVE ReadStands'
  BY <1>7 DEF RefuseQuota
<1>8. ASSUME NEW r \in Requests, NEW l \in Listings, InsertListing(r, l) PROVE ReadStands'
  BY <1>8 DEF InsertListing
<1>9. ASSUME NEW r \in Requests, Moves(r) PROVE ReadStands'
  BY <1>9 DEF Moves, MoveState, CloseListing, HideListing, RestoreListing
<1>10. ASSUME NEW r \in Requests, EditListing(r) PROVE ReadStands'
  BY <1>10 DEF EditListing
<1>11. ASSUME NEW r \in Requests, LockForExpiry(r) PROVE ReadStands'
  BY <1>11 DEF LockForExpiry, LockListing
<1>12. ASSUME NEW r \in Requests, SetExpiry(r) PROVE ReadStands'
  BY <1>12 DEF SetExpiry
<1>13. ASSUME NEW r \in Requests, Rollback(r) PROVE ReadStands'
  BY <1>13 DEF Rollback
<1>14. ASSUME NEW r \in Requests, NEW x \in Reports, FileReport(r, x) PROVE ReadStands'
  BY <1>14 DEF FileReport
<1>15. ASSUME NEW l \in Listings, RemoveListing(l) PROVE ReadStands'
  BY <1>15 DEF RemoveListing
<1>16. ASSUME NEW l \in Listings, TimePasses(l) PROVE ReadStands'
  BY <1>16 DEF TimePasses
<1>17. ASSUME NEW l \in Listings, ExpireRow(l) PROVE ReadStands'
  BY <1>17 DEF ExpireRow
<1>18. ASSUME NEW x \in Reports, ResolveReport(x) PROVE ReadStands'
  BY <1>18 DEF ResolveReport
<1>19. CASE StartExpiry
  BY <1>19 DEF StartExpiry
<1> QED
  BY <1>1, <1>2, <1>3, <1>4, <1>5, <1>6, <1>7, <1>8, <1>9, <1>10, <1>11, <1>12, <1>13, <1>14, <1>15, <1>16, <1>17, <1>18, <1>19 DEF Next, Start, Step, Create, Moves

-----------------------------------------------------------------------------
(* The quota. *)

\* A publication charges one, within the limit.
LEMMA InsertionCharged ==
    ASSUME TypeOK, Known, OneHolder, Charged, NEW r \in Requests, NEW l \in Listings,
           InsertListing(r, l)
    PROVE  Charged'
<1> USE MarketplaceAssumption DEF TypeOK, Known
<1>1. PICK m \in Members : m = who[r]
  BY DEF InsertListing
<1>2. /\ l \notin Published(m)
      /\ Published(m)' = Published(m) \cup {l}
      /\ \A n \in Members \ {m} : Published(n)' = Published(n)
  BY <1>1 DEF InsertListing, Published
<1>3. /\ used' = [used EXCEPT ![m] = used[m] + 1]
      /\ used[m] + 1 <= Limit
  BY <1>1 DEF InsertListing, Charged
<1>4. ASSUME NEW n \in Members
      PROVE  IsFiniteSet(Published(n)') /\ used'[n] = Cardinality(Published(n)') /\ used'[n] <= Limit
  <2>1. CASE n = m
    <3>1. /\ IsFiniteSet(Published(m) \cup {l})
          /\ Cardinality(Published(m) \cup {l}) = Cardinality(Published(m)) + 1
      BY <1>2, FS_AddElement DEF Charged
    <3> QED
      BY <2>1, <1>2, <1>3, <3>1 DEF Charged
  <2>2. CASE n # m
    BY <2>2, <1>2, <1>3 DEF Charged
  <2> QED
    BY <2>1, <2>2
<1>5. ASSUME NEW q \in Requests, pc'[q] = "charging" PROVE read'[q] = used'[who'[q]]
  <2>1. /\ q # r /\ pc[q] = "charging" /\ who'[q] = who[q] /\ read'[q] = read[q]
    BY <1>5 DEF InsertListing, Answer, Goto
  <2>2. who[q] # m
    BY <1>1, <2>1 DEF OneHolder, InsertListing
  <2> QED
    BY <1>3, <2>1, <2>2 DEF Charged
<1> QED
  BY <1>4, <1>5 DEF Charged

\* What every step but a publication does to the charges.
KeepsCharges ==
    /\ UNCHANGED <<used, owner>>
    /\ \A l \in Listings : state'[l] = "none" <=> state[l] = "none"
    /\ \A r \in Requests : pc'[r] = "charging" => read'[r] = used[who'[r]]

\* Nothing else changes the counters or the listings they count.
LEMMA OthersKeepCharges == TypeOK /\ Known /\ ReadStands /\ Charged /\ [Next]_vars
    /\ ~(\E r \in Requests, l \in Listings : InsertListing(r, l)) => KeepsCharges
<1> SUFFICES ASSUME TypeOK, Known, ReadStands, Charged, [Next]_vars,
                    ~ \E r \in Requests, l \in Listings : InsertListing(r, l)
             PROVE  KeepsCharges
  OBVIOUS
<1> USE MarketplaceAssumption DEF TypeOK, Known, ReadStands, Charged, KeepsCharges, Exists, vars, content, listings, reports, members, requests, Goto, Answer
<1>1. CASE UNCHANGED vars
  BY <1>1
<1>2. ASSUME NEW m \in Members, AcceptTerms(m) PROVE KeepsCharges
  BY <1>2 DEF AcceptTerms
<1>3. ASSUME NEW r \in Requests, NEW m \in Members, StartCreate(r, m) PROVE KeepsCharges
  BY <1>3 DEF StartCreate
<1>4. ASSUME NEW r \in Requests, NEW l \in Listings, Ask(r, l) PROVE KeepsCharges
  BY <1>4 DEF Ask, LockListing
<1>5. ASSUME NEW r \in Requests, NEW m \in Members, NEW l \in Listings, CheckReport(r, m, l) PROVE KeepsCharges
  BY <1>5 DEF CheckReport
<1>6. ASSUME NEW r \in Requests, ReadCounter(r) PROVE KeepsCharges
  BY <1>6 DEF ReadCounter
<1>7. ASSUME NEW r \in Requests, RefuseQuota(r) PROVE KeepsCharges
  BY <1>7 DEF RefuseQuota
<1>9. ASSUME NEW r \in Requests, Moves(r) PROVE KeepsCharges
  BY <1>9 DEF Moves, MoveState, CloseListing, HideListing, RestoreListing
<1>10. ASSUME NEW r \in Requests, EditListing(r) PROVE KeepsCharges
  BY <1>10 DEF EditListing
<1>11. ASSUME NEW r \in Requests, LockForExpiry(r) PROVE KeepsCharges
  BY <1>11 DEF LockForExpiry, LockListing
<1>12. ASSUME NEW r \in Requests, SetExpiry(r) PROVE KeepsCharges
  BY <1>12 DEF SetExpiry
<1>13. ASSUME NEW r \in Requests, Rollback(r) PROVE KeepsCharges
  BY <1>13 DEF Rollback
<1>14. ASSUME NEW r \in Requests, NEW x \in Reports, FileReport(r, x) PROVE KeepsCharges
  BY <1>14 DEF FileReport
<1>15. ASSUME NEW l \in Listings, RemoveListing(l) PROVE KeepsCharges
  BY <1>15 DEF RemoveListing
<1>16. ASSUME NEW l \in Listings, TimePasses(l) PROVE KeepsCharges
  BY <1>16 DEF TimePasses
<1>17. ASSUME NEW l \in Listings, ExpireRow(l) PROVE KeepsCharges
  BY <1>17 DEF ExpireRow, Expirable
<1>18. ASSUME NEW x \in Reports, ResolveReport(x) PROVE KeepsCharges
  BY <1>18 DEF ResolveReport
<1>19. CASE StartExpiry
  BY <1>19 DEF StartExpiry
<1> QED
  BY <1>1, <1>2, <1>3, <1>4, <1>5, <1>6, <1>7, <1>9, <1>10, <1>11, <1>12, <1>13, <1>14, <1>15, <1>16, <1>17, <1>18, <1>19 DEF Next, Start, Step, Create, Moves

\* The counter counts the published listings.
LEMMA ChargedPreserved == TypeOK /\ Locks /\ Charged /\ [Next]_vars => Charged'
<1> SUFFICES ASSUME TypeOK, Known, ReadStands, OneHolder, Charged, [Next]_vars PROVE Charged'
  BY DEF Locks
<1>1. CASE \E r \in Requests, l \in Listings : InsertListing(r, l)
  BY <1>1, InsertionCharged
<1>2. CASE ~ \E r \in Requests, l \in Listings : InsertListing(r, l)
  <2>1. KeepsCharges
    BY <1>2, OthersKeepCharges
  <2>2. \A m \in Members : Published(m)' = Published(m)
    BY <2>1 DEF Published, KeepsCharges
  <2> QED
    BY <2>1, <2>2 DEF Charged, KeepsCharges
<1> QED
  BY <1>1, <1>2

-----------------------------------------------------------------------------
(* Detail rows and reports. *)

\* Publications and edits leave the detail row of the category alone.
LEMMA DetailsPreserved == TypeOK /\ Known /\ ReadStands /\ DetailsFollowCategory /\ [Next]_vars => DetailsFollowCategory'
<1> SUFFICES ASSUME TypeOK, Known, ReadStands, DetailsFollowCategory, [Next]_vars PROVE DetailsFollowCategory'
  OBVIOUS
<1> USE MarketplaceAssumption DEF TypeOK, Known, ReadStands, DetailsFollowCategory, Exists, vars, content, listings, reports, members, requests, Goto, Answer
<1>1. CASE UNCHANGED vars
  BY <1>1
<1>2. ASSUME NEW m \in Members, AcceptTerms(m) PROVE DetailsFollowCategory'
  BY <1>2 DEF AcceptTerms
<1>3. ASSUME NEW r \in Requests, NEW m \in Members, StartCreate(r, m) PROVE DetailsFollowCategory'
  BY <1>3 DEF StartCreate
<1>4. ASSUME NEW r \in Requests, NEW l \in Listings, Ask(r, l) PROVE DetailsFollowCategory'
  BY <1>4 DEF Ask, LockListing
<1>5. ASSUME NEW r \in Requests, NEW m \in Members, NEW l \in Listings, CheckReport(r, m, l) PROVE DetailsFollowCategory'
  BY <1>5 DEF CheckReport
<1>6. ASSUME NEW r \in Requests, ReadCounter(r) PROVE DetailsFollowCategory'
  BY <1>6 DEF ReadCounter
<1>7. ASSUME NEW r \in Requests, RefuseQuota(r) PROVE DetailsFollowCategory'
  BY <1>7 DEF RefuseQuota
<1>8. ASSUME NEW r \in Requests, NEW l \in Listings, InsertListing(r, l) PROVE DetailsFollowCategory'
  <2>1. PICK c \in Categories, some \in BOOLEAN :
            /\ category' = [category EXCEPT ![l] = c]
            /\ details' = [details EXCEPT ![l] = {c}]
            /\ features' = [features EXCEPT ![l] = c = "vehicle" /\ some]
    BY <1>8 DEF InsertListing
  <2>2. \A k \in Listings \ {l} : /\ UNCHANGED <<state[k], category[k], details[k]>>
                                 /\ features'[k] = features[k]
    BY <1>8, <2>1 DEF InsertListing
  <2>3. /\ category'[l] = c
        /\ details'[l] = {c}
        /\ features'[l] = (c = "vehicle" /\ some)
    BY <2>1
  <2> QED
    BY <2>2, <2>3
<1>9. ASSUME NEW r \in Requests, Moves(r) PROVE DetailsFollowCategory'
  BY <1>9 DEF Moves, MoveState, CloseListing, HideListing, RestoreListing
<1>10. ASSUME NEW r \in Requests, EditListing(r) PROVE DetailsFollowCategory'
  BY <1>10 DEF EditListing, DetailsAfter, FeaturesAfter
<1>11. ASSUME NEW r \in Requests, LockForExpiry(r) PROVE DetailsFollowCategory'
  BY <1>11 DEF LockForExpiry, LockListing
<1>12. ASSUME NEW r \in Requests, SetExpiry(r) PROVE DetailsFollowCategory'
  BY <1>12 DEF SetExpiry
<1>13. ASSUME NEW r \in Requests, Rollback(r) PROVE DetailsFollowCategory'
  BY <1>13 DEF Rollback
<1>14. ASSUME NEW r \in Requests, NEW x \in Reports, FileReport(r, x) PROVE DetailsFollowCategory'
  BY <1>14 DEF FileReport
<1>15. ASSUME NEW l \in Listings, RemoveListing(l) PROVE DetailsFollowCategory'
  BY <1>15 DEF RemoveListing
<1>16. ASSUME NEW l \in Listings, TimePasses(l) PROVE DetailsFollowCategory'
  BY <1>16 DEF TimePasses
<1>17. ASSUME NEW l \in Listings, ExpireRow(l) PROVE DetailsFollowCategory'
  BY <1>17 DEF ExpireRow, Expirable
<1>18. ASSUME NEW x \in Reports, ResolveReport(x) PROVE DetailsFollowCategory'
  BY <1>18 DEF ResolveReport
<1>19. CASE StartExpiry
  BY <1>19 DEF StartExpiry
<1> QED
  BY <1>1, <1>2, <1>3, <1>4, <1>5, <1>6, <1>7, <1>8, <1>9, <1>10, <1>11, <1>12, <1>13, <1>14, <1>15, <1>16, <1>17, <1>18, <1>19 DEF Next, Start, Step, Create, Moves

\* The unique index refuses a second open report.
LEMMA OneReportPreserved == TypeOK /\ Known /\ OneReport /\ [Next]_vars => OneReport'
<1> SUFFICES ASSUME TypeOK, Known, OneReport, [Next]_vars PROVE OneReport'
  OBVIOUS
<1> USE MarketplaceAssumption DEF TypeOK, Known, OneReport, OpenReports, vars, content, listings, reports, members, requests, Goto, Answer
<1>1. CASE UNCHANGED vars
  BY <1>1
<1>2. ASSUME NEW m \in Members, AcceptTerms(m) PROVE OneReport'
  BY <1>2 DEF AcceptTerms
<1>3. ASSUME NEW r \in Requests, NEW m \in Members, StartCreate(r, m) PROVE OneReport'
  BY <1>3 DEF StartCreate
<1>4. ASSUME NEW r \in Requests, NEW l \in Listings, Ask(r, l) PROVE OneReport'
  BY <1>4 DEF Ask, LockListing
<1>5. ASSUME NEW r \in Requests, NEW m \in Members, NEW l \in Listings, CheckReport(r, m, l) PROVE OneReport'
  BY <1>5 DEF CheckReport
<1>6. ASSUME NEW r \in Requests, ReadCounter(r) PROVE OneReport'
  BY <1>6 DEF ReadCounter
<1>7. ASSUME NEW r \in Requests, RefuseQuota(r) PROVE OneReport'
  BY <1>7 DEF RefuseQuota
<1>8. ASSUME NEW r \in Requests, NEW l \in Listings, InsertListing(r, l) PROVE OneReport'
  BY <1>8 DEF InsertListing
<1>9. ASSUME NEW r \in Requests, Moves(r) PROVE OneReport'
  BY <1>9 DEF Moves, MoveState, CloseListing, HideListing, RestoreListing
<1>10. ASSUME NEW r \in Requests, EditListing(r) PROVE OneReport'
  BY <1>10 DEF EditListing
<1>11. ASSUME NEW r \in Requests, LockForExpiry(r) PROVE OneReport'
  BY <1>11 DEF LockForExpiry, LockListing
<1>12. ASSUME NEW r \in Requests, SetExpiry(r) PROVE OneReport'
  BY <1>12 DEF SetExpiry
<1>13. ASSUME NEW r \in Requests, Rollback(r) PROVE OneReport'
  BY <1>13 DEF Rollback
<1>14. ASSUME NEW r \in Requests, NEW x \in Reports, FileReport(r, x) PROVE OneReport'
  BY <1>14 DEF FileReport
<1>15. ASSUME NEW l \in Listings, RemoveListing(l) PROVE OneReport'
  <2>1. \A x \in Reports : report'[x] = "open" =>
            report[x] = "open" /\ about'[x] = about[x] /\ by'[x] = by[x]
    BY <1>15 DEF RemoveListing
  <2> QED
    BY <2>1
<1>16. ASSUME NEW l \in Listings, TimePasses(l) PROVE OneReport'
  BY <1>16 DEF TimePasses
<1>17. ASSUME NEW l \in Listings, ExpireRow(l) PROVE OneReport'
  BY <1>17 DEF ExpireRow
<1>18. ASSUME NEW x \in Reports, ResolveReport(x) PROVE OneReport'
  <2>1. \A y \in Reports : /\ report'[y] = "open" => report[y] = "open"
                           /\ about'[y] = about[y] /\ by'[y] = by[y]
    BY <1>18 DEF ResolveReport
  <2> QED
    BY <2>1
<1>19. CASE StartExpiry
  BY <1>19 DEF StartExpiry
<1> QED
  BY <1>1, <1>2, <1>3, <1>4, <1>5, <1>6, <1>7, <1>8, <1>9, <1>10, <1>11, <1>12, <1>13, <1>14, <1>15, <1>16, <1>17, <1>18, <1>19 DEF Next, Start, Step, Create, Moves

\* The count the property speaks of.
LEMMA OneReportIsOne == OneReport => OneOpenReport
<1> SUFFICES ASSUME OneReport, NEW l \in Listings, NEW m \in Members
             PROVE  Cardinality(OpenReports(l, m)) <= 1
  BY DEF OneOpenReport
<1>1. CASE OpenReports(l, m) = {}
  BY <1>1, FS_EmptySet
<1>2. ASSUME NEW x \in OpenReports(l, m) PROVE Cardinality(OpenReports(l, m)) <= 1
  <2>1. OpenReports(l, m) = {x}
    BY <1>2 DEF OpenReports, OneReport
  <2> QED
    BY <2>1, FS_Singleton
<1> QED
  BY <1>1, <1>2

\* Live listings are among the published ones.
LEMMA LiveIsPublished == TypeOK /\ Charged => LiveWithinQuota
<1> SUFFICES ASSUME TypeOK, Charged, NEW m \in Members PROVE Cardinality(LiveOf(m)) <= Limit
  BY DEF LiveWithinQuota
<1>1. LiveOf(m) \subseteq Published(m)
  BY DEF LiveOf, Published
<1>2. /\ Cardinality(LiveOf(m)) <= Cardinality(Published(m))
      /\ Cardinality(LiveOf(m)) \in Nat /\ Cardinality(Published(m)) \in Nat
  BY <1>1, FS_Subset, FS_CardinalityType DEF Charged
<1> QED
  BY <1>2, MarketplaceAssumption DEF Charged

-----------------------------------------------------------------------------
(* What no step may do to the state of a listing. *)

SettledStep == \A l \in Listings : state[l] \in Settled => state'[l] \in {state[l], "removed"}
ExpiringStep == \A l \in Listings :
    state'[l] = "expired" /\ state[l] # "expired" => expiry[l] = "past"

\* Transitions write what their locked read allows.
LEMMA SettledSteps == TypeOK /\ Known /\ ReadStands /\ [Next]_vars => (SettledStep /\ ExpiringStep)
<1> SUFFICES ASSUME TypeOK, Known, ReadStands, [Next]_vars PROVE (SettledStep /\ ExpiringStep)
  OBVIOUS
<1> USE MarketplaceAssumption DEF TypeOK, Known, ReadStands, SettledStep, ExpiringStep, vars, content, listings, reports, members, requests, Goto, Answer
<1>1. CASE UNCHANGED vars
  BY <1>1
<1>2. ASSUME NEW m \in Members, AcceptTerms(m) PROVE (SettledStep /\ ExpiringStep)
  BY <1>2 DEF AcceptTerms
<1>3. ASSUME NEW r \in Requests, NEW m \in Members, StartCreate(r, m) PROVE (SettledStep /\ ExpiringStep)
  BY <1>3 DEF StartCreate
<1>4. ASSUME NEW r \in Requests, NEW l \in Listings, Ask(r, l) PROVE (SettledStep /\ ExpiringStep)
  BY <1>4 DEF Ask, LockListing
<1>5. ASSUME NEW r \in Requests, NEW m \in Members, NEW l \in Listings, CheckReport(r, m, l) PROVE (SettledStep /\ ExpiringStep)
  BY <1>5 DEF CheckReport
<1>6. ASSUME NEW r \in Requests, ReadCounter(r) PROVE (SettledStep /\ ExpiringStep)
  BY <1>6 DEF ReadCounter
<1>7. ASSUME NEW r \in Requests, RefuseQuota(r) PROVE (SettledStep /\ ExpiringStep)
  BY <1>7 DEF RefuseQuota
<1>8. ASSUME NEW r \in Requests, NEW l \in Listings, InsertListing(r, l) PROVE (SettledStep /\ ExpiringStep)
  BY <1>8 DEF InsertListing
<1>9. ASSUME NEW r \in Requests, Moves(r) PROVE (SettledStep /\ ExpiringStep)
  BY <1>9 DEF Moves, MoveState, CloseListing, HideListing, RestoreListing
<1>10. ASSUME NEW r \in Requests, EditListing(r) PROVE (SettledStep /\ ExpiringStep)
  BY <1>10 DEF EditListing
<1>11. ASSUME NEW r \in Requests, LockForExpiry(r) PROVE (SettledStep /\ ExpiringStep)
  BY <1>11 DEF LockForExpiry, LockListing
<1>12. ASSUME NEW r \in Requests, SetExpiry(r) PROVE (SettledStep /\ ExpiringStep)
  BY <1>12 DEF SetExpiry
<1>13. ASSUME NEW r \in Requests, Rollback(r) PROVE (SettledStep /\ ExpiringStep)
  BY <1>13 DEF Rollback
<1>14. ASSUME NEW r \in Requests, NEW x \in Reports, FileReport(r, x) PROVE (SettledStep /\ ExpiringStep)
  BY <1>14 DEF FileReport
<1>15. ASSUME NEW l \in Listings, RemoveListing(l) PROVE (SettledStep /\ ExpiringStep)
  BY <1>15 DEF RemoveListing
<1>16. ASSUME NEW l \in Listings, TimePasses(l) PROVE (SettledStep /\ ExpiringStep)
  BY <1>16 DEF TimePasses
<1>17. ASSUME NEW l \in Listings, ExpireRow(l) PROVE (SettledStep /\ ExpiringStep)
  BY <1>17 DEF ExpireRow, Expirable
<1>18. ASSUME NEW x \in Reports, ResolveReport(x) PROVE (SettledStep /\ ExpiringStep)
  BY <1>18 DEF ResolveReport
<1>19. CASE StartExpiry
  BY <1>19 DEF StartExpiry
<1> QED
  BY <1>1, <1>2, <1>3, <1>4, <1>5, <1>6, <1>7, <1>8, <1>9, <1>10, <1>11, <1>12, <1>13, <1>14, <1>15, <1>16, <1>17, <1>18, <1>19 DEF Next, Start, Step, Create, Moves

-----------------------------------------------------------------------------
(* The theorems. *)

\* The invariant holds initially.
LEMMA Initially == Init => IInv
<1> SUFFICES ASSUME Init PROVE IInv
  OBVIOUS
<1> USE MarketplaceAssumption DEF Init
<1>1. TypeOK
  BY DEF TypeOK
<1>2. Locks
  BY DEF Locks, Known, ReadStands, OneHolder
<1>3. Charged
  <2>1. \A m \in Members : Published(m) = {}
    BY DEF Published
  <2> QED
    BY <2>1, FS_EmptySet DEF Charged
<1>4. DetailsFollowCategory
  BY DEF DetailsFollowCategory, Exists
<1>5. OneReport
  BY DEF OneReport
<1> QED
  BY <1>1, <1>2, <1>3, <1>4, <1>5 DEF IInv

\* The inductive invariant.
THEOREM Invariance == Spec => []IInv
<1>1. IInv /\ [Next]_vars => IInv'
  BY TypesPreserved, KnownPreserved, HoldersPreserved, ReadsPreserved, ChargedPreserved,
     DetailsPreserved, OneReportPreserved DEF IInv, Locks
<1> QED
  BY <1>1, Initially, PTL DEF Spec

\* Every column and local keeps its type.
THEOREM TypeCorrect == Spec => []TypeOK
BY Invariance, PTL DEF IInv

\* No member has more than the quota live, however many requests create together.
THEOREM QuotaTheorem == Spec => []LiveWithinQuota
BY Invariance, LiveIsPublished, PTL DEF IInv

\* A member has one open report on a listing at most.
THEOREM ReportsTheorem == Spec => []OneOpenReport
BY Invariance, OneReportIsOne, PTL DEF IInv

\* A listing has detail rows in its category's table and in no other.
THEOREM DetailsTheorem == Spec => []DetailsFollowCategory
BY Invariance, PTL DEF IInv

\* No step takes a listing out of a terminal state, short of removing it.
THEOREM SettledTheorem == Spec => SettledStays
<1>1. IInv /\ [Next]_vars => [SettledStep]_vars
  BY SettledSteps DEF IInv, Locks
<1> QED
  BY <1>1, Invariance, PTL DEF Spec, SettledStays, SettledStep

\* No step expires a listing whose expiry is not past.
THEOREM ExpiryTheorem == Spec => ExpiredOnlyWhenDue
<1>1. IInv /\ [Next]_vars => [ExpiringStep]_vars
  BY SettledSteps DEF IInv, Locks
<1> QED
  BY <1>1, Invariance, PTL DEF Spec, ExpiredOnlyWhenDue, ExpiringStep

\* Counter and live listings, reports and their index, category and detail rows
\* agree, for any number of listings, members and requests.
THEOREM TablesTheorem == Spec => []TablesAgree
BY QuotaTheorem, ReportsTheorem, DetailsTheorem, PTL DEF TablesAgree

-----------------------------------------------------------------------------
(* The refinement: the step of a transaction that writes is the step of a life. *)

\* Nothing dates a listing before it is published.
Undated == \A l \in Listings : state[l] = "none" => expiry[l] = "never"

Overdue == {l \in Listings : expiry[l] = "past"}

\* Which steps write what a life is made of.
LEMMA OthersWriteNoLife ==
    ASSUME [Next]_vars
    PROVE  \/ UNCHANGED <<state, owner, expiry, used>>
           \/ \E r \in Requests : Moves(r) \/ SetExpiry(r)
           \/ \E r \in Requests, l \in Listings : InsertListing(r, l)
           \/ \E l \in Listings : RemoveListing(l) \/ TimePasses(l) \/ ExpireRow(l)
<1> DEFINE Still == UNCHANGED <<state, owner, expiry, used>>
<1> USE DEF vars, content, listings, members
<1>1. CASE UNCHANGED vars
  BY <1>1
<1>2. ASSUME NEW m \in Members, AcceptTerms(m) PROVE Still
  BY <1>2 DEF AcceptTerms
<1>3. ASSUME NEW r \in Requests, Start(r) PROVE Still
  BY <1>3 DEF Start, StartCreate, Ask, LockListing, CheckReport
<1>4. ASSUME NEW r \in Requests, ReadCounter(r) \/ RefuseQuota(r) PROVE Still
  BY <1>4 DEF ReadCounter, RefuseQuota
<1>5. ASSUME NEW r \in Requests, EditListing(r) \/ LockForExpiry(r) \/ Rollback(r)
      PROVE  Still
  BY <1>5 DEF EditListing, LockForExpiry, LockListing, Rollback
<1>6. ASSUME NEW r \in Requests, NEW x \in Reports, FileReport(r, x) PROVE Still
  BY <1>6 DEF FileReport
<1>7. ASSUME NEW x \in Reports, ResolveReport(x) PROVE Still
  BY <1>7 DEF ResolveReport
<1>8. CASE StartExpiry
  BY <1>8 DEF StartExpiry
<1> QED
  BY <1>1, <1>2, <1>3, <1>4, <1>5, <1>6, <1>7, <1>8 DEF Next, Step, Create, Moves

\* A date is only set on a listing that is there, and no listing comes back to "none".
LEMMA UndatedPreserved == TypeOK /\ Known /\ ReadStands /\ Undated /\ [Next]_vars => Undated'
<1> SUFFICES ASSUME TypeOK, Known, ReadStands, Undated, [Next]_vars PROVE Undated'
  OBVIOUS
<1> USE DEF TypeOK, Known, ReadStands, Exists, Undated, vars, content, listings
<1>1. CASE UNCHANGED <<state, expiry>>
  BY <1>1
<1>2. ASSUME NEW r \in Requests, NEW l \in Listings, InsertListing(r, l) PROVE Undated'
  BY <1>2 DEF InsertListing
<1>3. ASSUME NEW r \in Requests, Moves(r) PROVE Undated'
  BY <1>3 DEF Moves, MoveState, CloseListing, HideListing, RestoreListing
<1>4. ASSUME NEW r \in Requests, SetExpiry(r) PROVE Undated'
  BY <1>4 DEF SetExpiry
<1>5. ASSUME NEW l \in Listings, RemoveListing(l) PROVE Undated'
  BY <1>5 DEF RemoveListing
<1>6. ASSUME NEW l \in Listings, TimePasses(l) PROVE Undated'
  BY <1>6 DEF TimePasses
<1>7. ASSUME NEW l \in Listings, ExpireRow(l) PROVE Undated'
  BY <1>7 DEF ExpireRow, Expirable
<1> QED
  BY <1>1, <1>2, <1>3, <1>4, <1>5, <1>6, <1>7, OthersWriteNoLife

\* A publication spends what it read of the quota, which nobody else did meanwhile.
LEMMA InsertPublishes ==
    ASSUME IInv, Undated, NEW r \in Requests, NEW l \in Listings, InsertListing(r, l)
    PROVE  Life!Publish(who[r], l) /\ who[r] \in Members
<1> USE MarketplaceAssumption DEF IInv, Locks, TypeOK, Known
<1>1. who[r] \in Members /\ used[who[r]] < Limit
  BY DEF InsertListing, Charged
<1>2. PICK e \in {"never", "later"} : expiry' = [expiry EXCEPT ![l] = e]
  BY DEF InsertListing
<1>3. Overdue' = Overdue
  BY <1>2 DEF InsertListing, Overdue, Undated
<1> QED
  BY <1>1, <1>3 DEF InsertListing, Life!Publish, Overdue

\* What an owner or a moderator read of a listing still stands when they move it.
LEMMA MovesMove ==
    ASSUME IInv, NEW r \in Requests, Moves(r)
    PROVE  \E l \in Listings : \E s \in {"closed", "hidden", "active"} : Life!Move(l, s)
<1> USE DEF IInv, Locks, TypeOK, Known, ReadStands
<1>1. on[r] \in Listings /\ read[r] = state[on[r]]
  BY DEF Moves, MoveState, CloseListing, HideListing, RestoreListing
<1>2. UNCHANGED <<owner, Overdue, used>>
  BY DEF Moves, MoveState, CloseListing, HideListing, RestoreListing, members, Overdue
<1>3. PICK s \in {"closed", "hidden", "active"} :
          <<state[on[r]], s>> \in Life!Moves /\ state' = [state EXCEPT ![on[r]] = s]
  BY <1>1 DEF Moves, MoveState, CloseListing, HideListing, RestoreListing, Life!Moves
<1> QED
  BY <1>1, <1>2, <1>3 DEF Life!Move, Overdue

\* An expiry is set, or comes, on a listing that was published.
LEMMA DatesDate ==
    ASSUME IInv, Undated, NEW l \in Listings, NEW e \in {"never", "later", "past"},
           state[l] # "none", expiry' = [expiry EXCEPT ![l] = e],
           UNCHANGED <<state, owner, used>>
    PROVE  Life!Lapse(l) \/ Life!Prolong(l)
<1> USE DEF IInv, TypeOK
<1>1. CASE e = "past"
  <2>1. Overdue' = Overdue \cup {l}
    BY <1>1 DEF Overdue
  <2> QED
    BY <2>1 DEF Life!Lapse, Overdue
<1>2. CASE e # "past"
  <2>1. Overdue' = Overdue \ {l}
    BY <1>2 DEF Overdue
  <2> QED
    BY <2>1 DEF Life!Prolong, Overdue
<1> QED
  BY <1>1, <1>2

\* Every step is one of a life, or none.
LEMMA StepLives == IInv /\ Undated /\ [Next]_vars => [Life!Next]_Life!life
<1> SUFFICES ASSUME IInv, Undated, [Next]_vars PROVE [Life!Next]_Life!life
  OBVIOUS
<1> USE DEF IInv, Locks
<1>1. CASE UNCHANGED <<state, owner, expiry, used>>
  BY <1>1 DEF Life!life
<1>2. ASSUME NEW r \in Requests, NEW l \in Listings, InsertListing(r, l)
      PROVE  Life!Next
  BY <1>2, InsertPublishes DEF Life!Next
<1>3. ASSUME NEW r \in Requests, Moves(r) PROVE Life!Next
  BY <1>3, MovesMove DEF Life!Next
<1>4. ASSUME NEW r \in Requests, SetExpiry(r) PROVE Life!Next
  <2>1. PICK e \in {"never", "later", "past"} : expiry' = [expiry EXCEPT ![on[r]] = e]
    BY <1>4 DEF SetExpiry
  <2>2. /\ on[r] \in Listings /\ state[on[r]] # "none"
        /\ UNCHANGED <<state, owner, used>>
    BY <1>4 DEF SetExpiry, Known, ReadStands, Exists, members
  <2> QED
    BY <2>1, <2>2, DatesDate DEF Life!Next
<1>5. ASSUME NEW l \in Listings, RemoveListing(l) PROVE Life!Next
  <2>1. Life!Remove(l)
    BY <1>5 DEF RemoveListing, Exists, members, Life!Remove
  <2> QED
    BY <2>1 DEF Life!Next
<1>6. ASSUME NEW l \in Listings, TimePasses(l) PROVE Life!Next
  <2>1. state[l] # "none"
    BY <1>6 DEF TimePasses, Undated
  <2> QED
    BY <1>6, <2>1, DatesDate DEF TimePasses, members, Life!Next
<1>7. ASSUME NEW l \in Listings, ExpireRow(l) PROVE [Life!Next]_Life!life
  <2>1. CASE Expirable(l)
    <3>1. Life!Expire(l)
      BY <1>7, <2>1 DEF ExpireRow, Expirable, members, Life!Expire
    <3> QED
      BY <3>1 DEF Life!Next
  <2>2. CASE ~Expirable(l)
    BY <1>7, <2>2 DEF ExpireRow, members, Life!life
  <2> QED
    BY <2>1, <2>2
<1> QED
  BY <1>1, <1>2, <1>3, <1>4, <1>5, <1>6, <1>7, OthersWriteNoLife

\* However the transactions of owners, moderators and the expiry job interleave, the
\* tables go through a life in which each of them ran alone (manage.ts, counters.ts).
THEOREM LifeRefinement == Spec => KeepsLife
<1>1. Init => Life!Init /\ Undated
  BY DEF Init, Life!Init, Undated
<1>2. IInv /\ Undated /\ [Next]_vars => Undated'
  BY UndatedPreserved DEF IInv, Locks
<1> QED
  BY <1>1, <1>2, StepLives, Invariance, PTL DEF Spec, KeepsLife, Life!Spec

\* A listing ends for a reason that holds, and stays ended (transitionState,
\* marketplace-expiry), and lives as ListingLife says until then.
THEOREM EndsTheorem == Spec => EndsAreSound
BY SettledTheorem, ExpiryTheorem, LifeRefinement DEF EndsAreSound
=============================================================================
