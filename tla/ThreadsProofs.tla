---------------------------- MODULE ThreadsProofs ----------------------------
(***************************************************************************)
(* Proofs about Threads, for any number of members, posts and requests.    *)
(***************************************************************************)
EXTENDS Threads, TLAPS

\* A reply about to be written has the root of what it answers.
PendingRoots ==
    \A r \in Requests : req[r].pc = "post" =>
        /\ (req[r].reply = Nothing) <=> (req[r].root = Nothing)
        /\ req[r].reply = Nothing \/ req[r].quote = Nothing
        /\ req[r].reply # Nothing =>
            /\ req[r].reply \in Written
            /\ req[r].root \in Written
            /\ TopLevel(req[r].root)
            /\ req[r].root = RootOf(req[r].reply)

\* A follow about to be written crosses no block, or was overtaken by one.
PendingFollows ==
    \A r \in Requests : req[r].pc = "follow" =>
        (Blocked(req[r].m, req[r].other) => <<req[r].m, req[r].other>> \in raced)

IInv == TypeOK /\ PendingRoots /\ BlockEndsFollows /\ PendingFollows

-----------------------------------------------------------------------------
LEMMA WrittenPost ==
    ASSUME TypeOK, NEW p \in Posts
    PROVE  (p \in Written => posts[p] \in Post) /\ (posts[p] \in Post => p \in Written)
BY DEF TypeOK, Written, Post, NoPost

LEMMA Knows ==
    ASSUME TypeOK, NEW r \in Requests
    PROVE  /\ req[r] \in Handling
           /\ req[r].pc = "follow" =>
                req[r].m \in Members /\ req[r].other \in Members /\ req[r].m # req[r].other
           /\ req[r].pc \in {"like", "repost", "report"} => req[r].m \in Members /\ req[r].p \in Posts
           /\ req[r].pc = "post" =>
                req[r].m \in Members /\ req[r].reply \in Ref /\ req[r].root \in Ref /\ req[r].quote \in Ref
<1>1. req[r] \in Handling
  BY DEF TypeOK
<1> QED
  BY <1>1 DEF Handling, Idle

LEMMA CountTypes == TypeOK /\ Count => ops' \in 0..MaxOps
BY ThreadsBound DEF TypeOK, Count

LEMMA DoneTypes ==
    ASSUME TypeOK, NEW r \in Requests, Done(r)
    PROVE  /\ req' \in [Requests -> Handling]
           /\ \A s \in Requests : req'[s] = IF s = r THEN Idle ELSE req[s]
BY DEF TypeOK, Done, Handling

LEMMA BecomesTypes ==
    ASSUME TypeOK, NEW r \in Requests, NEW local \in Handling, req' = [req EXCEPT ![r] = local]
    PROVE  /\ req' \in [Requests -> Handling]
           /\ \A s \in Requests : req'[s] = IF s = r THEN local ELSE req[s]
BY DEF TypeOK

-----------------------------------------------------------------------------
(* Posts. What is written keeps its place in the conversation. *)

\* References are never changed, and no post is unwritten.
Keep == \A p \in Written :
            /\ posts'[p] \in Post
            /\ posts'[p].reply = posts[p].reply /\ posts'[p].root = posts[p].root
            /\ posts'[p].quote = posts[p].quote

\* The references of a reply or a quote, about to be written or written.
Rooted(reply, root, quote) ==
    /\ (reply = Nothing) <=> (root = Nothing)
    /\ reply = Nothing \/ quote = Nothing
    /\ reply # Nothing =>
        /\ reply \in Written
        /\ root \in Written
        /\ TopLevel(root)
        /\ root = RootOf(reply)

LEMMA RootedStays ==
    ASSUME TypeOK, Keep, posts' \in [Posts -> Post \cup {NoPost}],
           NEW reply, NEW root, NEW quote, Rooted(reply, root, quote)
    PROVE  Rooted(reply, root, quote)'
<1>1. \A p \in Written : p \in Written' /\ TopLevel(p)' = TopLevel(p) /\ RootOf(p)' = RootOf(p)
  <2> SUFFICES ASSUME NEW p \in Written
               PROVE  p \in Written' /\ TopLevel(p)' = TopLevel(p) /\ RootOf(p)' = RootOf(p)
    OBVIOUS
  <2>1. p \in Posts /\ posts'[p] \in Post
    BY DEF Keep, Written
  <2>2. p \in Written'
    BY <2>1 DEF Written, Post, NoPost
  <2> QED
    BY <2>2 DEF Keep, TopLevel, RootOf
<1> QED
  BY <1>1 DEF Rooted

\* The types alone.
Shapes ==
    /\ standing \in [Members -> BOOLEAN]
    /\ posts \in [Posts -> Post \cup {NoPost}]
    /\ likes \in SUBSET (Posts \X Members)
    /\ reposts \in SUBSET (Posts \X Members)
    /\ follows \in SUBSET Others
    /\ blocks \in SUBSET Others
    /\ mutes \in SUBSET Others
    /\ reports \in [Posts \X Members -> ReportStates]
    /\ req \in [Requests -> Handling]
    /\ ops \in 0..MaxOps
    /\ raced \in SUBSET Others

LEMMA TypeIs == TypeOK <=> Shapes /\ RootsAgree
BY DEF TypeOK, Shapes

LEMMA PairTypes ==
    ASSUME NEW a \in Members, NEW b \in Members, a # b
    PROVE  <<a, b>> \in Others /\ Between(a, b) \subseteq Others
BY DEF Others, Between

\* A move of a post keeps its references.
LEMMA MoveKeeps ==
    ASSUME TypeOK, NEW p \in Posts, NEW from, NEW to \in {"visible", "hidden", "removed", "deleted"},
           MovePost(p, from, to)
    PROVE  Shapes' /\ Keep /\ Written' = Written /\ UNCHANGED <<req, follows, blocks, raced>>
<1>1. /\ p \in Written /\ posts' = [posts EXCEPT ![p].state = to] /\ Count
      /\ UNCHANGED <<standing, likes, reposts, follows, blocks, mutes, reports, req, raced>>
  BY DEF MovePost
<1>2. posts[p] \in Post
  BY <1>1, WrittenPost
<1>3. /\ [posts[p] EXCEPT !.state = to] \in Post
      /\ [posts[p] EXCEPT !.state = to].reply = posts[p].reply
      /\ [posts[p] EXCEPT !.state = to].root = posts[p].root
      /\ [posts[p] EXCEPT !.state = to].quote = posts[p].quote
  BY <1>2 DEF Post
<1>4. posts' \in [Posts -> Post \cup {NoPost}]
  BY <1>1, <1>3 DEF TypeOK
<1>5. \A q \in Posts : posts'[q] = IF q = p THEN [posts[p] EXCEPT !.state = to] ELSE posts[q]
  BY <1>1 DEF TypeOK
<1>6. Shapes'
  BY <1>1, <1>4, CountTypes DEF TypeOK, Shapes
<1>7. Keep
  <2> SUFFICES ASSUME NEW q \in Written
               PROVE  /\ posts'[q] \in Post
                      /\ posts'[q].reply = posts[q].reply /\ posts'[q].root = posts[q].root
                      /\ posts'[q].quote = posts[q].quote
    BY DEF Keep
  <2>1. q \in Posts /\ posts[q] \in Post
    BY WrittenPost DEF Written
  <2> QED
    BY <1>3, <1>5, <2>1
<1>8. Written' = Written
  BY <1>2, <1>3, <1>5 DEF Written, Post, NoPost
<1> QED
  BY <1>1, <1>6, <1>7, <1>8

\* What is written, or about to be, was rooted before the step and stays so.
LEMMA PostsStay ==
    ASSUME TypeOK, PendingRoots, Shapes', Keep,
           \A p \in Written' :
                p \in Written \/ Rooted(posts'[p].reply, posts'[p].root, posts'[p].quote),
           \A s \in Requests : req'[s].pc = "post" =>
                req'[s] = req[s] \/ Rooted(req'[s].reply, req'[s].root, req'[s].quote)
    PROVE  TypeOK' /\ PendingRoots'
<1>1. posts' \in [Posts -> Post \cup {NoPost}]
  BY DEF Shapes
<1>2. RootsAgree'
  <2>1. ASSUME NEW p \in Written', NEW reply, NEW root, NEW quote,
               reply = posts'[p].reply, root = posts'[p].root, quote = posts'[p].quote
        PROVE  Rooted(reply, root, quote)'
    <3>1. Rooted(reply, root, quote)
      BY <2>1 DEF TypeOK, RootsAgree, Rooted, Keep
    <3> QED
      BY <1>1, <3>1, RootedStays
  <2> QED
    BY <2>1 DEF RootsAgree, Rooted
<1>3. PendingRoots'
  <2>1. ASSUME NEW s \in Requests, req'[s].pc = "post", NEW reply, NEW root, NEW quote,
               reply = req'[s].reply, root = req'[s].root, quote = req'[s].quote
        PROVE  Rooted(reply, root, quote)'
    <3>1. Rooted(reply, root, quote)
      BY <2>1 DEF PendingRoots, Rooted
    <3> QED
      BY <1>1, <3>1, RootedStays
  <2> QED
    BY <2>1 DEF PendingRoots, Rooted
<1> QED
  BY <1>2, <1>3, TypeIs DEF TypeOK, Shapes

LEMMA KeepAll == ASSUME TypeOK, UNCHANGED posts PROVE Keep /\ Written' = Written
<1>1. \A p \in Written : posts[p] \in Post
  BY WrittenPost DEF Written
<1> QED
  BY <1>1 DEF Keep, Written

LEMMA CheckPostStep ==
    ASSUME TypeOK, PendingRoots, NEW r \in Requests, NEW m \in Members,
           NEW reply \in Ref, NEW quote \in Ref, CheckPost(r, m, reply, quote)
    PROVE  TypeOK' /\ PendingRoots'
<1> DEFINE root == IF reply = Nothing THEN Nothing ELSE RootOf(reply)
           local == [pc |-> "post", m |-> m, reply |-> reply, root |-> root, quote |-> quote]
<1>1. Rooted(reply, root, quote)
  <2>1. CASE reply = Nothing
    BY <2>1 DEF Rooted
  <2>2. CASE reply # Nothing
    <3>1. reply \in Written /\ quote = Nothing
      BY <2>2 DEF CheckPost, VisiblePost
    <3>2. posts[reply].root \in Written \cup {Nothing} /\ reply \in Posts
      BY <3>1 DEF TypeOK, RootsAgree, Written
    <3>3. root \in Written /\ TopLevel(root)
      BY <2>2, <3>1, <3>2 DEF RootOf, TypeOK, RootsAgree, TopLevel
    <3>4. root # Nothing
      BY <3>3, RealPosts DEF Written, Nothing
    <3> QED
      BY <2>2, <3>1, <3>3, <3>4 DEF Rooted
  <2> QED
    BY <2>1, <2>2
<1>2. root \in Ref
  BY <1>1 DEF Rooted, Written, Ref
<1>3. local \in Handling
  BY <1>2 DEF Handling
<1>4. /\ req' = [req EXCEPT ![r] = local] /\ Count
      /\ UNCHANGED <<standing, posts, likes, reposts, follows, blocks, mutes, reports, raced>>
  BY DEF CheckPost
<1>5. Shapes'
  BY <1>3, <1>4, BecomesTypes, CountTypes DEF TypeOK, Shapes
<1>6. \A s \in Requests : req'[s] = IF s = r THEN local ELSE req[s]
  BY <1>3, <1>4, BecomesTypes
<1>7. local.reply = reply /\ local.root = root /\ local.quote = quote
  OBVIOUS
<1> HIDE DEF local, root
<1> QED
  BY <1>1, <1>4, <1>5, <1>6, <1>7, KeepAll, PostsStay

LEMMA InsertPostStep ==
    ASSUME TypeOK, PendingRoots, NEW r \in Requests, NEW p \in Posts, NEW handles \in SUBSET Members,
           InsertPost(r, p, handles)
    PROVE  TypeOK' /\ PendingRoots'
<1> DEFINE q == req[r]
           new == [state |-> "visible", author |-> q.m, reply |-> q.reply, root |-> q.root,
                   quote |-> q.quote, mentions |-> {m \in handles \ {q.m} : Sees(q.m, m)}]
<1>1. /\ q.pc = "post" /\ p \notin Written /\ posts' = [posts EXCEPT ![p] = new] /\ Done(r)
      /\ UNCHANGED <<standing, likes, reposts, follows, blocks, mutes, reports, ops, raced>>
  BY DEF InsertPost
<1>2. q.m \in Members /\ q.reply \in Ref /\ q.root \in Ref /\ q.quote \in Ref
  BY <1>1, Knows
<1>3. new \in Post
  BY <1>2 DEF Post
<1>4. \A x \in Posts : posts'[x] = IF x = p THEN new ELSE posts[x]
  BY <1>1 DEF TypeOK
<1>5. Shapes'
  BY <1>1, <1>3, DoneTypes DEF TypeOK, Shapes
<1>6. Keep
  <2>1. \A x \in Written : x \in Posts /\ x # p /\ posts[x] \in Post
    BY <1>1, WrittenPost DEF Written
  <2> QED
    BY <1>4, <2>1 DEF Keep
<1>7. Rooted(q.reply, q.root, q.quote)
  BY <1>1 DEF PendingRoots, Rooted
<1>8. new.reply = q.reply /\ new.root = q.root /\ new.quote = q.quote
  OBVIOUS
<1>9. \A x \in Written' : x \in Written \/ x = p
  BY <1>4 DEF Written
<1>10. \A x \in Written' :
         x \in Written \/ Rooted(posts'[x].reply, posts'[x].root, posts'[x].quote)
  <2>1. posts'[p] = new
    BY <1>4
  <2> HIDE DEF new
  <2> QED
    BY <1>7, <1>8, <1>9, <2>1
<1>11. \A s \in Requests : req'[s].pc = "post" => req'[s] = req[s]
  BY <1>1, DoneTypes DEF Idle
<1> QED
  BY <1>5, <1>6, <1>10, <1>11, PostsStay

\* Every other step leaves posts alone and starts no new one.
LEMMA OtherSteps ==
    ASSUME TypeOK, PendingRoots, Shapes', UNCHANGED posts,
           \A s \in Requests : req'[s].pc = "post" => req'[s] = req[s]
    PROVE  TypeOK' /\ PendingRoots'
<1>1. Keep /\ Written' = Written
  BY KeepAll
<1> QED
  BY <1>1, PostsStay

LEMMA MoveStep ==
    ASSUME TypeOK, PendingRoots, NEW p \in Posts,
           DeleteOwnPost(p) \/ Hide(p) \/ Restore(p) \/ Remove(p)
    PROVE  TypeOK' /\ PendingRoots' /\ UNCHANGED <<req, follows, blocks, raced>>
<1>1. Shapes' /\ Keep /\ Written' = Written /\ UNCHANGED <<req, follows, blocks, raced>>
  BY MoveKeeps DEF DeleteOwnPost, Hide, Restore, Remove
<1> QED
  BY <1>1, PostsStay

LEMMA CheckReactionStep ==
    ASSUME TypeOK, PendingRoots, NEW r \in Requests, NEW m \in Members,
           NEW kind \in {"like", "repost", "report"}, NEW p \in Posts, CheckReaction(r, m, kind, p)
    PROVE  TypeOK' /\ PendingRoots'
<1> DEFINE local == [pc |-> kind, m |-> m, p |-> p]
<1>1. local \in Handling /\ local.pc # "post"
  BY DEF Handling
<1>2. /\ req' = [req EXCEPT ![r] = local] /\ Count
      /\ UNCHANGED <<standing, posts, likes, reposts, follows, blocks, mutes, reports, raced>>
  BY DEF CheckReaction
<1> HIDE DEF local
<1>3. Shapes'
  BY <1>1, <1>2, BecomesTypes, CountTypes DEF TypeOK, Shapes
<1>4. \A s \in Requests : req'[s].pc = "post" => req'[s] = req[s]
  BY <1>1, <1>2, BecomesTypes
<1> QED
  BY <1>2, <1>3, <1>4, OtherSteps

LEMMA CheckFollowStep ==
    ASSUME TypeOK, PendingRoots, NEW r \in Requests, NEW m \in Members, NEW other \in Members,
           CheckFollow(r, m, other)
    PROVE  TypeOK' /\ PendingRoots'
<1> DEFINE local == [pc |-> "follow", m |-> m, other |-> other]
<1>1. local \in Handling /\ local.pc # "post"
  BY DEF Handling, CheckFollow
<1>2. /\ req' = [req EXCEPT ![r] = local] /\ Count
      /\ UNCHANGED <<standing, posts, likes, reposts, follows, blocks, mutes, reports, raced>>
  BY DEF CheckFollow
<1> HIDE DEF local
<1>3. Shapes'
  BY <1>1, <1>2, BecomesTypes, CountTypes DEF TypeOK, Shapes
<1>4. \A s \in Requests : req'[s].pc = "post" => req'[s] = req[s]
  BY <1>1, <1>2, BecomesTypes
<1> QED
  BY <1>2, <1>3, <1>4, OtherSteps

LEMMA WriteStep ==
    ASSUME TypeOK, PendingRoots, NEW r \in Requests,
           React(r) \/ WriteReport(r) \/ WriteFollow(r) \/ GiveUp(r)
    PROVE  TypeOK' /\ PendingRoots'
<1>1. Done(r) /\ UNCHANGED <<standing, posts, blocks, mutes, ops, raced>>
  BY DEF React, WriteReport, WriteFollow, GiveUp
<1>2. req' \in [Requests -> Handling] /\ \A s \in Requests : req'[s].pc = "post" => req'[s] = req[s]
  BY <1>1, DoneTypes DEF Idle
<1>3. likes' \in SUBSET (Posts \X Members) /\ reposts' \in SUBSET (Posts \X Members)
  <2>1. CASE React(r)
    <3>1. req[r].p \in Posts /\ req[r].m \in Members
      BY <2>1, Knows DEF React
    <3>2. <<req[r].p, req[r].m>> \in Posts \X Members
      BY <3>1
    <3> QED
      BY <2>1, <3>2 DEF React, TypeOK
  <2>2. CASE WriteReport(r) \/ WriteFollow(r) \/ GiveUp(r)
    BY <2>2 DEF WriteReport, WriteFollow, GiveUp, TypeOK
  <2> QED
    BY <2>1, <2>2
<1>4. reports' \in [Posts \X Members -> ReportStates]
  BY DEF React, WriteReport, WriteFollow, GiveUp, TypeOK, ReportStates
<1>5. follows' \in SUBSET Others
  <2>1. CASE WriteFollow(r)
    <3>1. <<req[r].m, req[r].other>> \in Others
      BY <2>1, Knows, PairTypes DEF WriteFollow
    <3> QED
      BY <2>1, <3>1 DEF WriteFollow, TypeOK
  <2>2. CASE React(r) \/ WriteReport(r) \/ GiveUp(r)
    BY <2>2 DEF React, WriteReport, GiveUp, TypeOK
  <2> QED
    BY <2>1, <2>2
<1>6. Shapes'
  BY <1>1, <1>2, <1>3, <1>4, <1>5 DEF TypeOK, Shapes
<1> QED
  BY <1>1, <1>2, <1>6, OtherSteps

LEMMA RelationStep ==
    ASSUME TypeOK, PendingRoots, NEW a \in Members, NEW b \in Members,
           Block(a, b) \/ Unblock(a, b) \/ SetMute(a, b)
    PROVE  TypeOK' /\ PendingRoots'
<1>1. Count /\ UNCHANGED <<standing, posts, likes, reposts, reports, req>>
  BY DEF Block, Unblock, SetMute
<1>2. a # b \/ Unblock(a, b)
  BY DEF Block, SetMute
<1>3. blocks' \in SUBSET Others /\ mutes' \in SUBSET Others /\ follows' \in SUBSET Others
  BY <1>2, PairTypes DEF Block, Unblock, SetMute, TypeOK
<1>4. raced' \in SUBSET Others
  BY <1>2, PairTypes DEF Block, Unblock, SetMute, TypeOK
<1>5. Shapes'
  BY <1>1, <1>3, <1>4, CountTypes DEF TypeOK, Shapes
<1> QED
  BY <1>1, <1>5, OtherSteps

LEMMA StaffStep ==
    ASSUME TypeOK, PendingRoots,
           (\E x \in Posts \X Members : ResolveReport(x)) \/ (\E m \in Members : SetStanding(m))
    PROVE  TypeOK' /\ PendingRoots'
<1>1. Count /\ UNCHANGED <<posts, likes, reposts, follows, blocks, mutes, req, raced>>
  BY DEF ResolveReport, SetStanding
<1>2. standing' \in [Members -> BOOLEAN]
  BY DEF ResolveReport, SetStanding, TypeOK
<1>3. reports' \in [Posts \X Members -> ReportStates]
  <2>1. CASE \E x \in Posts \X Members : ResolveReport(x)
    <3>1. PICK x \in Posts \X Members, outcome \in {"upheld", "dismissed"} :
            reports' = [reports EXCEPT ![x] = outcome]
      BY <2>1 DEF ResolveReport
    <3> QED
      BY <3>1 DEF TypeOK, ReportStates
  <2>2. CASE \E m \in Members : SetStanding(m)
    BY <2>2 DEF SetStanding, TypeOK
  <2> QED
    BY <2>1, <2>2
<1>4. Shapes'
  BY <1>1, <1>2, <1>3, CountTypes DEF TypeOK, Shapes
<1> QED
  BY <1>1, <1>4, OtherSteps

LEMMA TypeStep == TypeOK /\ PendingRoots /\ [Next]_vars => TypeOK' /\ PendingRoots'
<1> SUFFICES ASSUME TypeOK, PendingRoots, [Next]_vars PROVE TypeOK' /\ PendingRoots'
  OBVIOUS
<1>1. ASSUME NEW r \in Requests, NEW m \in Members, Start(r, m)
      PROVE  TypeOK' /\ PendingRoots'
  BY <1>1, CheckPostStep, CheckReactionStep, CheckFollowStep DEF Start
<1>2. ASSUME NEW r \in Requests, HandlerStep(r)
      PROVE  TypeOK' /\ PendingRoots'
  <2>1. \A handles \in {{}, Members} : handles \in SUBSET Members
    OBVIOUS
  <2> QED
    BY <1>2, <2>1, InsertPostStep, WriteStep DEF HandlerStep
<1>3. CASE UNCHANGED vars
  <2>1. Shapes'
    BY <1>3 DEF TypeOK, Shapes, vars
  <2> QED
    BY <1>3, <2>1, OtherSteps DEF vars
<1> QED
  BY <1>1, <1>2, <1>3, RelationStep, MoveStep, StaffStep DEF Next, Staff

-----------------------------------------------------------------------------
(* Blocks and follows. *)

LEMMA BlocksStep ==
    TypeOK /\ BlockEndsFollows /\ PendingFollows /\ [Next]_vars
        => BlockEndsFollows' /\ PendingFollows'
<1> SUFFICES ASSUME TypeOK, BlockEndsFollows, PendingFollows, [Next]_vars
             PROVE  BlockEndsFollows' /\ PendingFollows'
  OBVIOUS
<1> USE DEF BlockEndsFollows, PendingFollows, Blocked
\* No block is placed: nothing new is written or about to be.
<1>1. ASSUME blocks' \subseteq blocks, raced' = raced, follows' \subseteq follows,
             \A s \in Requests : req'[s].pc = "follow" => req'[s] = req[s]
      PROVE  BlockEndsFollows' /\ PendingFollows'
  BY <1>1
<1>2. ASSUME NEW r \in Requests, NEW m \in Members, Start(r, m)
      PROVE  BlockEndsFollows' /\ PendingFollows'
  <2>1. UNCHANGED <<blocks, raced, follows>>
    BY <1>2 DEF Start, CheckPost, CheckReaction, CheckFollow
  <2>2. ASSUME NEW local, req' = [req EXCEPT ![r] = local], local.pc # "follow"
        PROVE  BlockEndsFollows' /\ PendingFollows'
    BY <1>1, <2>1, <2>2 DEF TypeOK
  <2>3. ASSUME NEW reply \in Ref, NEW quote \in Ref, CheckPost(r, m, reply, quote)
        PROVE  BlockEndsFollows' /\ PendingFollows'
    <3> DEFINE local == [pc |-> "post", m |-> m, reply |-> reply,
                         root |-> IF reply = Nothing THEN Nothing ELSE RootOf(reply), quote |-> quote]
    <3>1. local.pc # "follow" /\ req' = [req EXCEPT ![r] = local]
      BY <2>3 DEF CheckPost
    <3> HIDE DEF local
    <3> QED
      BY <2>2, <3>1
  <2>4. ASSUME NEW kind \in {"like", "repost", "report"}, NEW p \in Posts, CheckReaction(r, m, kind, p)
        PROVE  BlockEndsFollows' /\ PendingFollows'
    <3> DEFINE local == [pc |-> kind, m |-> m, p |-> p]
    <3>1. local.pc # "follow" /\ req' = [req EXCEPT ![r] = local]
      BY <2>4 DEF CheckReaction
    <3> HIDE DEF local
    <3> QED
      BY <2>2, <3>1
  <2>5. ASSUME NEW other \in Members, CheckFollow(r, m, other)
        PROVE  BlockEndsFollows' /\ PendingFollows'
    <3> DEFINE local == [pc |-> "follow", m |-> m, other |-> other]
    <3>1. req' = [req EXCEPT ![r] = local] /\ ~Blocked(m, other)
      BY <2>5 DEF CheckFollow, Sees
    <3>2. \A s \in Requests : req'[s] = IF s = r THEN local ELSE req[s]
      BY <3>1 DEF TypeOK
    <3>3. local.m = m /\ local.other = other
      OBVIOUS
    <3> HIDE DEF local
    <3> QED
      BY <2>1, <3>1, <3>2, <3>3
  <2> QED
    BY <1>2, <2>3, <2>4, <2>5 DEF Start
<1>3. ASSUME NEW r \in Requests, HandlerStep(r)
      PROVE  BlockEndsFollows' /\ PendingFollows'
  <2>1. Done(r) /\ UNCHANGED <<blocks, raced>>
    BY <1>3 DEF HandlerStep, InsertPost, React, WriteReport, WriteFollow, GiveUp
  <2>2. \A s \in Requests : req'[s].pc = "follow" => req'[s] = req[s]
    BY <2>1, DoneTypes DEF Idle
  <2>3. CASE WriteFollow(r)
    <3>1. /\ req[r].pc = "follow" /\ req[r].m \in Members /\ req[r].other \in Members
          /\ follows' \subseteq follows \cup {<<req[r].m, req[r].other>>}
      BY <2>3, Knows DEF WriteFollow
    <3> QED
      BY <2>1, <2>2, <3>1
  <2>4. CASE UNCHANGED follows
    BY <1>1, <2>1, <2>2, <2>4
  <2> QED
    BY <1>3, <2>3, <2>4 DEF HandlerStep, InsertPost, React, WriteReport, GiveUp
<1>4. ASSUME NEW a \in Members, NEW b \in Members, Block(a, b)
      PROVE  BlockEndsFollows' /\ PendingFollows'
  <2>1. /\ blocks' = blocks \cup {<<a, b>>} /\ follows' = follows \ Between(a, b)
        /\ raced' = raced \cup (InFlight \cap Between(a, b)) /\ req' = req
    BY <1>4 DEF Block
  <2>2. BlockEndsFollows'
    BY <2>1 DEF Between
  <2>3. PendingFollows'
    <3> SUFFICES ASSUME NEW s \in Requests, req[s].pc = "follow", Blocked(req[s].m, req[s].other)'
                 PROVE  <<req[s].m, req[s].other>> \in raced'
      BY <2>1
    <3>1. <<req[s].m, req[s].other>> \in InFlight
      BY DEF InFlight
    <3>2. Blocked(req[s].m, req[s].other) \/ <<req[s].m, req[s].other>> \in Between(a, b)
      BY <2>1 DEF Between
    <3> QED
      BY <2>1, <3>1, <3>2
  <2> QED
    BY <2>2, <2>3
<1>5. ASSUME NEW a \in Members, NEW b \in Members, Unblock(a, b) \/ SetMute(a, b)
      PROVE  BlockEndsFollows' /\ PendingFollows'
  BY <1>1, <1>5 DEF Unblock, SetMute
<1>6. ASSUME UNCHANGED <<req, follows, blocks, raced>>
      PROVE  BlockEndsFollows' /\ PendingFollows'
  BY <1>1, <1>6
<1>7. Staff \/ (\E p \in Posts : DeleteOwnPost(p)) \/ UNCHANGED vars
        => UNCHANGED <<req, follows, blocks, raced>>
  BY DEF Staff, Hide, Restore, Remove, DeleteOwnPost, MovePost, ResolveReport, SetStanding, vars
<1> QED
  BY <1>2, <1>3, <1>4, <1>5, <1>6, <1>7 DEF Next

-----------------------------------------------------------------------------
THEOREM Invariance == Spec => []IInv
<1>1. Init => IInv
  <2> SUFFICES ASSUME Init PROVE IInv
    OBVIOUS
  <2>1. Written = {} /\ \A r \in Requests : req[r].pc = "idle"
    BY DEF Init, Written, Idle
  <2>2. TypeOK
    BY <2>1, ThreadsBound DEF Init, TypeOK, Handling, ReportStates, RootsAgree
  <2> QED
    BY <2>1, <2>2 DEF Init, IInv, PendingRoots, PendingFollows, BlockEndsFollows
<1>2. IInv /\ [Next]_vars => IInv'
  BY TypeStep, BlocksStep DEF IInv
<1> QED
  BY <1>1, <1>2, PTL DEF Spec

(* Types; and a reply has the top of its conversation for a root, however deep,
   and whatever is hidden, removed or deleted around it.                      *)
THEOREM TypeCorrect == Spec => []TypeOK
BY Invariance, PTL DEF IInv

(* A follow crosses a block only if it was being written when it was placed. *)
THEOREM BlockTheorem == Spec => []BlockEndsFollows
BY Invariance, PTL DEF IInv

(* The filters of the reads are enough: whatever the tables hold, no read
   but those of one's own block and mute lists names a member the viewer does
   not see.                                                               *)
THEOREM NothingAcrossTheorem == Spec => []NothingAcrossBlock
<1>1. TypeOK => NothingAcrossBlock
  <2> SUFFICES ASSUME TypeOK, NEW v \in Members,
                      NEW read \in DOMAIN Shown(v) \ OwnLists, NEW m \in Shown(v)[read]
               PROVE  Sees(v, m)
    BY DEF NothingAcrossBlock
  <2>1. ASSUME NEW P, \A p \in P : VisiblePost(v, p), NEW x \in AllNamed(v, P)
        PROVE  Sees(v, x)
    <3>1. PICK p \in P : x \in Named(v, p)
      BY <2>1 DEF AllNamed
    <3> QED
      BY <2>1, <3>1 DEF Named, VisiblePost
  <2>2. CASE m \in FeedNames(v)
    <3>1. \A p \in FeedAll(v) \cup FeedOwn(v) \cup {e[1] : e \in FeedShared(v)} : VisiblePost(v, p)
      BY DEF FeedAll, FeedOwn, FeedShared
    <3>2. \A e \in FeedShared(v) : Sees(v, e[2])
      BY DEF FeedShared
    <3> QED
      BY <2>1, <2>2, <3>1, <3>2 DEF FeedNames
  <2>3. CASE m \in AllNamed(v, UNION {TabPosts(v, a) : a \in Members})
    <3>1. \A p \in UNION {TabPosts(v, a) : a \in Members} : VisiblePost(v, p)
      BY DEF TabPosts
    <3> QED
      BY <2>1, <2>3, <3>1
  <2>4. CASE m \in AllNamed(v, UNION {ThreadPosts(v, p) : p \in Posts})
    <3>1. \A p \in UNION {ThreadPosts(v, q) : q \in Posts} : VisiblePost(v, p)
      BY DEF ThreadPosts, Replies, Quotes
    <3> QED
      BY <2>1, <2>4, <3>1
  <2>5. CASE m \in Listed(v)
    BY <2>5 DEF Listed
  <2>6. CASE m \in ActivityNames(v)
    <3>1. \A e \in Activity(v) : Sees(v, e[1]) /\ (e[2] = Nothing \/ VisiblePost(v, e[2]))
      BY DEF Activity
    <3>2. \A p \in {e[2] : e \in Activity(v)} \ {Nothing} : VisiblePost(v, p)
      BY <3>1
    <3> QED
      BY <2>1, <2>6, <3>1, <3>2 DEF ActivityNames
  <2>7. read \in {"feed", "tabs", "thread", "people", "activity"}
    BY DEF Shown, OwnLists
  <2> QED
    BY <2>2, <2>3, <2>4, <2>5, <2>6, <2>7 DEF Shown
<1> QED
  BY <1>1, TypeCorrect, PTL
=============================================================================
