------------------------------ MODULE Threads ------------------------------
(***************************************************************************)
(* Threads: posts, replies, quotes, reactions, follows, blocks, mutes,     *)
(* reports and moderation (src/server/src/modules/threads).                *)
(*                                                                         *)
(* Who may see what is computed on every read, in SQL, from the tables; it *)
(* is never stored.  The writes check visibility first and write           *)
(* afterwards, and at READ COMMITTED nothing holds what was checked: a     *)
(* block, a moderation or a locked account may come in between.            *)
(*                                                                         *)
(* The text of a post, its media, the order of a page and its cursor are   *)
(* left out: who wrote, shared or is named by what a viewer reads is kept. *)
(***************************************************************************)
EXTENDS Naturals, FiniteSets

CONSTANTS
    Members,
    Posts,      \* rows of thread_posts that can be written
    Requests,   \* request handlers that check first and write later, reused
    MaxOps      \* operations in a behaviour (bound)

ASSUME ThreadsBound == MaxOps \in Nat

ASSUME RealPosts == "nothing" \notin Posts

VARIABLES
    standing,   \* members other members may see: active, application approved
    posts,      \* thread_posts with the members each mentions, or NoPost
    likes,      \* thread_likes: <<post, member>>
    reposts,    \* thread_reposts: <<post, member>>
    follows,    \* member_follows: <<follower, followee>>
    blocks,     \* member_blocks: <<blocker, blocked>>
    mutes,      \* member_mutes: <<muter, muted>>
    reports,    \* thread_reports: <<post, reporter>> -> state
    req,
    ops,
    raced       \* history: <<follower, followee>> whose follow was being written
                \* while one of the two blocked the other

vars == <<standing, posts, likes, reposts, follows, blocks, mutes, reports, req,
          ops, raced>>

-----------------------------------------------------------------------------
NoPost == [state |-> "absent"]
Nothing == "nothing"    \* a NULL reference of a post

Ref == Posts \cup {Nothing}

Post ==
    [state: {"visible", "hidden", "removed", "deleted"}, author: Members,
     reply: Ref, root: Ref, quote: Ref, mentions: SUBSET Members]

Written == {p \in Posts : posts[p] # NoPost}

Idle == [pc |-> "idle"]

(* A block hides both from each other, whoever placed it. *)
Blocked(a, b) == <<a, b>> \in blocks \/ <<b, a>> \in blocks

Sees(v, m) == standing[m] /\ ~Blocked(v, m)

VisiblePost(v, p) ==
    /\ p \in Written
    /\ posts[p].state = "visible"
    /\ Sees(v, posts[p].author)

Muted(v, m) == <<v, m>> \in mutes

Following(v) == {m \in Members : <<v, m>> \in follows}

TopLevel(p) == posts[p].reply = Nothing

-----------------------------------------------------------------------------
(* What a member reads. Each read is the set of members it names.          *)

(* The members a post is rendered with: its author, the members it links,
   and the author of the post it quotes unless that is a tombstone.        *)
Named(v, p) ==
    {posts[p].author}
    \cup {m \in posts[p].mentions : Sees(v, m)}
    \cup (IF VisiblePost(v, posts[p].quote)
          THEN {posts[posts[p].quote].author}
               \cup {m \in posts[posts[p].quote].mentions : Sees(v, m)}
          ELSE {})

AllNamed(v, P) == UNION {Named(v, p) : p \in P}

(* "For you": every top-level post. *)
FeedAll(v) ==
    {p \in Written : TopLevel(p) /\ VisiblePost(v, p) /\ ~Muted(v, posts[p].author)}

FeedOwn(v) == {p \in FeedAll(v) : posts[p].author \in Following(v) \cup {v}}

\* Mutant: the filter looks at the author of the post only.
FeedSharedUnfiltered(v) ==
    {e \in reposts :
        /\ e[2] \in Following(v)
        /\ VisiblePost(v, e[1]) /\ ~Muted(v, posts[e[1]].author)}

(* What the members one follows reposted: <<post, reposter>>. *)
FeedShared(v) ==
    {e \in reposts :
        /\ e[2] \in Following(v)
        /\ VisiblePost(v, e[1]) /\ ~Muted(v, posts[e[1]].author)
        /\ Sees(v, e[2]) /\ ~Muted(v, e[2])}

FeedNames(v) ==
    AllNamed(v, FeedAll(v) \cup FeedOwn(v) \cup {e[1] : e \in FeedShared(v)})
    \cup {e[2] : e \in FeedShared(v)}

(* A profile's tabs: threads, replies, reposts; 404 unless the member is seen. *)
TabPosts(v, a) ==
    IF Sees(v, a)
    THEN {p \in Written : VisiblePost(v, p) /\ (posts[p].author = a \/ <<p, a>> \in reposts)}
    ELSE {}

Replies(v, p) == {c \in Written : posts[c].reply = p /\ VisiblePost(v, c)}
Quotes(v, p) == {q \in Written : posts[q].quote = p /\ VisiblePost(v, q)}

(* A post with what it answers, its replies and its quotes. *)
ThreadPosts(v, p) ==
    IF VisiblePost(v, p)
    THEN {p} \cup {q \in {posts[p].reply} : VisiblePost(v, q)} \cup Replies(v, p) \cup Quotes(v, p)
    ELSE {}

(* Likers, followers, following. *)
Listed(v) ==
    {m \in Members : Sees(v, m) /\
        \/ \E p \in Posts : VisiblePost(v, p) /\ <<p, m>> \in likes
        \/ \E s \in Members : Sees(v, s) /\ (<<m, s>> \in follows \/ <<s, m>> \in follows)}

(* Activity: what others did to the viewer, as <<actor, post or Nothing>>. *)
Mine(v, p) == p \in Written /\ posts[p].author = v

Events(v) ==
    {<<e[2], e[1]>> : e \in {x \in likes \cup reposts : Mine(v, x[1]) /\ x[2] # v}}
    \cup {<<posts[p].author, p>> : p \in {c \in Written :
            /\ posts[c].author # v
            /\ \/ Mine(v, posts[c].reply)
               \/ Mine(v, posts[c].quote)
               \/ v \in posts[c].mentions}}
    \cup {<<m, Nothing>> : m \in {f \in Members : <<f, v>> \in follows}}

Activity(v) ==
    {e \in Events(v) : Sees(v, e[1]) /\ (e[2] = Nothing \/ VisiblePost(v, e[2]))}

ActivityNames(v) ==
    {e[1] : e \in Activity(v)} \cup AllNamed(v, {e[2] : e \in Activity(v)} \ {Nothing})

(* Whom the viewer blocked and muted himself, for his privacy settings: the
   tables as they are, with no condition on standing or on other blocks.    *)
BlockList(v) == {m \in Members : <<v, m>> \in blocks}
MuteList(v) == {m \in Members : <<v, m>> \in mutes}

(* The members each read of Threads names to a viewer. *)
Shown(v) ==
    [feed     |-> FeedNames(v),
     tabs     |-> AllNamed(v, UNION {TabPosts(v, a) : a \in Members}),
     thread   |-> AllNamed(v, UNION {ThreadPosts(v, p) : p \in Posts}),
     people   |-> Listed(v),
     activity |-> ActivityNames(v),
     blocks   |-> BlockList(v),
     mutes    |-> MuteList(v)]

OwnLists == {"blocks", "mutes"}

(* reply_count: the replies of members in standing, blocks or not. *)
ReplyCount(v, p) ==
    Cardinality({c \in Written :
        posts[c].reply = p /\ posts[c].state = "visible" /\ standing[posts[c].author]})

-----------------------------------------------------------------------------
ReportStates == {"none", "open", "upheld", "dismissed"}

(* Nobody follows, blocks or mutes himself. *)
Others == {e \in Members \X Members : e[1] # e[2]}

Handling ==
    {Idle}
    \cup {q \in [pc: {"follow"}, m: Members, other: Members] : q.m # q.other}
    \cup [pc: {"like", "repost", "report"}, m: Members, p: Posts]
    \cup [pc: {"post"}, m: Members, reply: Ref, root: Ref, quote: Ref]

(* POST /threads: a reply takes the root of what it answers. *)
RootOf(q) == IF posts[q].root = Nothing THEN q ELSE posts[q].root

(* A reply knows the top of its conversation: the root is a top-level post,
   and the root of what it answers; a post replies or quotes, not both.      *)
RootsAgree ==
    \A p \in Written :
        /\ (posts[p].reply = Nothing) <=> (posts[p].root = Nothing)
        /\ posts[p].reply = Nothing \/ posts[p].quote = Nothing
        /\ posts[p].reply # Nothing =>
            /\ posts[p].reply \in Written
            /\ posts[p].root \in Written
            /\ TopLevel(posts[p].root)
            /\ posts[p].root = RootOf(posts[p].reply)

(* Types, and how replies hang together. *)
TypeOK ==
    /\ standing \in [Members -> BOOLEAN]
    /\ posts \in [Posts -> Post \cup {NoPost}]
    /\ likes \in SUBSET (Posts \X Members)
    /\ reposts \in SUBSET (Posts \X Members)
    /\ follows \in SUBSET Others
    /\ blocks \in SUBSET Others
    /\ mutes \in SUBSET Others
    /\ reports \in [Posts \X Members -> ReportStates]
    /\ req \in [Requests -> Handling]
    /\ ops \in 0..MaxOps
    /\ raced \in SUBSET Others
    /\ RootsAgree

Init ==
    /\ standing = [m \in Members |-> TRUE]
    /\ posts = [p \in Posts |-> NoPost]
    /\ likes = {}
    /\ reposts = {}
    /\ follows = {}
    /\ blocks = {}
    /\ mutes = {}
    /\ reports = [x \in Posts \X Members |-> "none"]
    /\ req = [r \in Requests |-> Idle]
    /\ ops = 0
    /\ raced = {}

(* One more operation of the behaviour. *)
Count == ops < MaxOps /\ ops' = ops + 1

Done(r) == req' = [req EXCEPT ![r] = Idle]

-----------------------------------------------------------------------------
\* Mutant: what is answered is taken for the top of its conversation.
CheckPostUnderParent(r, m, reply, quote) ==
    /\ req[r] = Idle
    /\ reply = Nothing \/ quote = Nothing
    /\ reply # Nothing => VisiblePost(m, reply)
    /\ quote # Nothing => VisiblePost(m, quote)
    /\ req' = [req EXCEPT ![r] =
            [pc |-> "post", m |-> m, reply |-> reply, root |-> reply, quote |-> quote]]
    /\ Count
    /\ UNCHANGED <<standing, posts, likes, reposts, follows, blocks, mutes, reports, raced>>

(* POST /threads. Inside its transaction a reply or a quote must be of a post
   the author sees.                                                         *)
CheckPost(r, m, reply, quote) ==
    /\ req[r] = Idle
    /\ reply = Nothing \/ quote = Nothing
    /\ reply # Nothing => VisiblePost(m, reply)
    /\ quote # Nothing => VisiblePost(m, quote)
    /\ req' = [req EXCEPT ![r] =
            [pc |-> "post", m |-> m, reply |-> reply,
             root |-> IF reply = Nothing THEN Nothing ELSE RootOf(reply),
             quote |-> quote]]
    /\ Count
    /\ UNCHANGED <<standing, posts, likes, reposts, follows, blocks, mutes, reports, raced>>

(* The row and its mentions: of the handles written, those of members the
   author sees at that moment.                                            *)
InsertPost(r, p, handles) ==
    LET q == req[r] IN
    /\ q.pc = "post"
    /\ p \notin Written
    /\ posts' = [posts EXCEPT ![p] =
            [state |-> "visible", author |-> q.m, reply |-> q.reply, root |-> q.root,
             quote |-> q.quote,
             mentions |-> {m \in handles \ {q.m} : Sees(q.m, m)}]]
    /\ Done(r)
    /\ UNCHANGED <<standing, likes, reposts, follows, blocks, mutes, reports, ops, raced>>

(* PUT .../like, PUT .../repost, POST .../report: the check and the write are
   separate statements.                                                     *)
CheckReaction(r, m, kind, p) ==
    /\ req[r] = Idle
    /\ VisiblePost(m, p)
    /\ req' = [req EXCEPT ![r] = [pc |-> kind, m |-> m, p |-> p]]
    /\ Count
    /\ UNCHANGED <<standing, posts, likes, reposts, follows, blocks, mutes, reports, raced>>

React(r) ==
    LET e == <<req[r].p, req[r].m>> IN
    /\ \/ req[r].pc = "like" /\ likes' \in {likes \cup {e}, likes \ {e}} /\ UNCHANGED reposts
       \/ req[r].pc = "repost" /\ reposts' \in {reposts \cup {e}, reposts \ {e}} /\ UNCHANGED likes
    /\ Done(r)
    /\ UNCHANGED <<standing, posts, follows, blocks, mutes, reports, ops, raced>>

(* UNIQUE (post_id, reporter_id): a second report is refused. *)
WriteReport(r) ==
    LET e == <<req[r].p, req[r].m>> IN
    /\ req[r].pc = "report"
    /\ reports' = [reports EXCEPT ![e] = IF @ = "none" THEN "open" ELSE @]
    /\ Done(r)
    /\ UNCHANGED <<standing, posts, likes, reposts, follows, blocks, mutes, ops, raced>>

(* PUT /members/:id/follow: only of a member one sees. *)
CheckFollow(r, m, other) ==
    /\ req[r] = Idle
    /\ m # other
    /\ Sees(m, other)
    /\ req' = [req EXCEPT ![r] = [pc |-> "follow", m |-> m, other |-> other]]
    /\ Count
    /\ UNCHANGED <<standing, posts, likes, reposts, follows, blocks, mutes, reports, raced>>

WriteFollow(r) ==
    LET e == <<req[r].m, req[r].other>> IN
    /\ req[r].pc = "follow"
    /\ follows' \in {follows \cup {e}, follows \ {e}}
    /\ Done(r)
    /\ UNCHANGED <<standing, posts, likes, reposts, blocks, mutes, reports, ops, raced>>

(* The handler's deadline, or a failed statement, rolls the write back. *)
GiveUp(r) ==
    /\ req[r] # Idle
    /\ Done(r)
    /\ UNCHANGED <<standing, posts, likes, reposts, follows, blocks, mutes, reports, ops, raced>>

-----------------------------------------------------------------------------
Between(a, b) == {<<a, b>>, <<b, a>>}

(* Follows checked and not yet committed: the DELETE of a block does not see
   them.                                                                    *)
InFlight == {<<q.m, q.other>> : q \in {req[r] : r \in {s \in Requests : req[s].pc = "follow"}}}

\* Mutant: only the blocker's own follow ends.
BlockOneWay(a, b) ==
    /\ a # b
    /\ standing[b]
    /\ blocks' = blocks \cup {<<a, b>>}
    /\ follows' = follows \ {<<a, b>>}
    /\ raced' = raced \cup (InFlight \cap Between(a, b))
    /\ Count
    /\ UNCHANGED <<standing, posts, likes, reposts, mutes, reports, req>>

(* PUT /members/:id/block: the block, and the end of the follows it can see,
   in one transaction.                                                      *)
Block(a, b) ==
    /\ a # b
    /\ standing[b]
    /\ blocks' = blocks \cup {<<a, b>>}
    /\ follows' = follows \ Between(a, b)
    /\ raced' = raced \cup (InFlight \cap Between(a, b))
    /\ Count
    /\ UNCHANGED <<standing, posts, likes, reposts, mutes, reports, req>>

(* Unblocking restores what is seen, not the follows. *)
Unblock(a, b) ==
    /\ <<a, b>> \in blocks
    /\ blocks' = blocks \ {<<a, b>>}
    /\ Count
    /\ UNCHANGED <<standing, posts, likes, reposts, follows, mutes, reports, req, raced>>

SetMute(a, b) ==
    /\ a # b
    /\ \/ standing[b] /\ mutes' = mutes \cup {<<a, b>>}
       \/ mutes' = mutes \ {<<a, b>>}
    /\ Count
    /\ UNCHANGED <<standing, posts, likes, reposts, follows, blocks, reports, req, raced>>

(* One UPDATE with the states it may come from. *)
MovePost(p, from, to) ==
    /\ p \in Written
    /\ posts[p].state \in from
    /\ posts' = [posts EXCEPT ![p].state = to]
    /\ Count
    /\ UNCHANGED <<standing, likes, reposts, follows, blocks, mutes, reports, req, raced>>

DeleteOwnPost(p) == MovePost(p, {"visible"}, "deleted")
Hide(p) == MovePost(p, {"visible"}, "hidden")
Restore(p) == MovePost(p, {"hidden"}, "visible")
Remove(p) == MovePost(p, {"visible", "hidden"}, "removed")

ResolveReport(x) ==
    /\ reports[x] = "open"
    /\ \E outcome \in {"upheld", "dismissed"} : reports' = [reports EXCEPT ![x] = outcome]
    /\ Count
    /\ UNCHANGED <<standing, posts, likes, reposts, follows, blocks, mutes, req, raced>>

(* Staff lock or reinstate a member. *)
SetStanding(m) ==
    /\ standing' = [standing EXCEPT ![m] = ~@]
    /\ Count
    /\ UNCHANGED <<posts, likes, reposts, follows, blocks, mutes, reports, req, raced>>

-----------------------------------------------------------------------------
HandlerStep(r) ==
    \/ \E p \in Posts, handles \in {{}, Members} : InsertPost(r, p, handles)
    \/ React(r)
    \/ WriteReport(r)
    \/ WriteFollow(r)
    \/ GiveUp(r)

Start(r, m) ==
    \/ \E reply, quote \in Ref : CheckPost(r, m, reply, quote)
    \/ \E kind \in {"like", "repost", "report"}, p \in Posts : CheckReaction(r, m, kind, p)
    \/ \E other \in Members : CheckFollow(r, m, other)

Staff ==
    \/ \E p \in Posts : Hide(p) \/ Restore(p) \/ Remove(p)
    \/ \E x \in Posts \X Members : ResolveReport(x)
    \/ \E m \in Members : SetStanding(m)

Next ==
    \/ \E r \in Requests, m \in Members : Start(r, m)
    \/ \E r \in Requests : HandlerStep(r)
    \/ \E a, b \in Members : Block(a, b) \/ Unblock(a, b) \/ SetMute(a, b)
    \/ \E p \in Posts : DeleteOwnPost(p)
    \/ Staff

Spec == Init /\ [][Next]_vars

-----------------------------------------------------------------------------
(* No read of Threads names a member the viewer does not see, but for the two
   lists of whom he himself blocked and muted: not the author, the reposter, the
   quoted, the mentioned, the liker, the follower or the actor of an Activity
   item, whatever was written before the block.                             *)
NothingAcrossBlock ==
    \A v \in Members : \A read \in DOMAIN Shown(v) \ OwnLists :
        \A m \in Shown(v)[read] : Sees(v, m)

(* A block ends the follows between the two, unless one was being written at
   that very moment.                                                        *)
BlockEndsFollows ==
    \A a, b \in Members : Blocked(a, b) /\ <<a, b>> \in follows => <<a, b>> \in raced

(* In no run, and refuted by a block: "Counts of replies and quotes count only
   what the viewer could open, so a number never promises a post that 404s."
   The counts look at a post's state and its author's standing, not at blocks. *)
CountsOpenable ==
    \A v \in Members, p \in Posts :
        VisiblePost(v, p) => ReplyCount(v, p) = Cardinality(Replies(v, p))

(* In no run, and refuted by a block of the muter, or by staff who lock whom he
   muted or blocked: a block is "enforced wherever Threads reads a post or a
   member", and who is not in standing "cannot be seen there either". The lists
   of listRelation have neither condition (that one's own block list names whom
   one blocked is its purpose).                                              *)
OwnListsVisible ==
    \A v \in Members :
        /\ \A m \in BlockList(v) : standing[m]
        /\ \A m \in MuteList(v) : Sees(v, m)
=============================================================================
