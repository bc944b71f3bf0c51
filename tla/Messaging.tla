----------------------------- MODULE Messaging -----------------------------
(***************************************************************************)
(* Conversations about a listing, and the inquiry that opens them          *)
(* (src/server/src/modules/messaging, called by the marketplace's          *)
(* controller).                                                            *)
(*                                                                         *)
(* One listing and its owner.  A message carries now() of its transaction, *)
(* which is when the transaction began, and is seen when it commits: two   *)
(* messages may commit in the other order.  Reading a conversation and     *)
(* marking it read are two statements.                                     *)
(*                                                                         *)
(* The database counts microseconds.  A stamp that passes through the      *)
(* process is a JavaScript Date, cut to the millisecond: so are the stamp  *)
(* an append writes back as last_message_at, and every cursor.             *)
(*                                                                         *)
(* Bodies are left out.  Nobody is notified of a message yet               *)
(* (notifyMessage is called after the commit, and not registered).         *)
(***************************************************************************)
EXTENDS Naturals, FiniteSets

CONSTANTS
    Inquirers,
    Owner,
    Conversations,  \* rows of conversations that can be inserted
    Requests,       \* request handlers, reused
    PageSize,       \* messages a read is answered with
    Grain,          \* stamps to a millisecond
    MaxStamps       \* transactions and marks that take a time of day (bound)

ASSUME MessagingBound ==
    MaxStamps \in Nat /\ PageSize \in Nat \ {0} /\ Grain \in Nat \ {0}

ASSUME OwnListing == Owner \notin Inquirers   \* SelfInquiryError

ASSUME RealInquirers == "nobody" \notin Inquirers

VARIABLES
    open,       \* the listing is active and its owner in standing
    convs,      \* who inquired in each conversation, or Nobody
    msgs,       \* committed messages
    last,       \* conversations.last_message_at
    readAt,     \* conversation_participants.last_read_at, 0 for NULL
    req,        \* what each request handler is doing
    stamp,      \* the time of day: the latest now()
    shown,      \* history: messages each member was shown
    raced,      \* history: inquirers of whom two requests found no conversation
                \* before either had started one
    overtook,   \* history: conversations two messages were written to at once
    missed      \* history: <<conversation, reader>> where a message was being
                \* written as the reader was reading, or lay outside the page

tables == <<open, convs, msgs, last, readAt>>
history == <<shown, raced, overtook, missed>>
vars == <<tables, req, stamp, history>>

-----------------------------------------------------------------------------
Nobody == "nobody"

Everyone == Inquirers \cup {Owner}

Times == 1..MaxStamps

(* A timestamptz read into the process: the start of its millisecond. *)
AsDate(at) == at - (at % Grain)

Message == [conv: Conversations, from: Everyone, at: Times]

Idle == [pc |-> "idle"]

Participants(c) == IF convs[c] = Nobody THEN {} ELSE {convs[c], Owner}

Of(c) == {x \in msgs : x.conv = c}

With(pc) == {r \in Requests : req[r].pc = pc}

Handling ==
    {Idle}
    \cup [pc: {"find", "begin"}, m: Inquirers]
    \cup [pc: {"start"}, m: Inquirers, at: Times]
    \cup [pc: {"reply", "page", "mark"}, m: Everyone, c: Conversations]
    \cup [pc: {"append"}, m: Everyone, c: Conversations, at: Times]

(* Types; and only who takes part in a conversation writes in it. *)
TypeOK ==
    /\ open \in BOOLEAN
    /\ convs \in [Conversations -> Inquirers \cup {Nobody}]
    /\ msgs \in SUBSET Message
    /\ last \in [Conversations -> 0..MaxStamps]
    /\ readAt \in [Conversations \X Everyone -> 0..MaxStamps]
    /\ req \in [Requests -> Handling]
    /\ stamp \in 0..MaxStamps
    /\ shown \in SUBSET (Message \X Everyone)
    /\ raced \in SUBSET Inquirers
    /\ overtook \in SUBSET Conversations
    /\ missed \in SUBSET (Conversations \X Everyone)
    /\ \A x \in msgs : x.from \in Participants(x.conv)

Init ==
    /\ open = TRUE
    /\ convs = [c \in Conversations |-> Nobody]
    /\ msgs = {}
    /\ last = [c \in Conversations |-> 0]
    /\ readAt = [x \in Conversations \X Everyone |-> 0]
    /\ req = [r \in Requests |-> Idle]
    /\ stamp = 0
    /\ shown = {}
    /\ raced = {}
    /\ overtook = {}
    /\ missed = {}

Goto(r, local) == req' = [req EXCEPT ![r] = local]

Done(r) == Goto(r, Idle)

TakeStamp == stamp < MaxStamps /\ stamp' = stamp + 1

-----------------------------------------------------------------------------
(* The listing is withdrawn, sold, hidden, restored; its owner's standing
   lapses or returns.                                                      *)
ListingMoves ==
    /\ open' = ~open
    /\ UNCHANGED <<convs, msgs, last, readAt, req, stamp, history>>

-----------------------------------------------------------------------------
(* inquire: the listing and its owner accept inquiries, or it is refused. *)
StartInquiry(r, m) ==
    /\ req[r] = Idle
    /\ open
    /\ Goto(r, [pc |-> "find", m |-> m])
    /\ UNCHANGED <<tables, stamp, history>>

(* Other inquiries of the member that found nothing and have not committed. *)
AlsoStarting(r, m) ==
    {s \in With("begin") \cup With("start") : s # r /\ req[s].m = m}

\* Mutant: nobody looks for a conversation.
FindNone(r) ==
    LET m == req[r].m IN
    /\ req[r].pc = "find"
    /\ Goto(r, [pc |-> "begin", m |-> m])
    /\ raced' = IF AlsoStarting(r, m) = {} THEN raced ELSE raced \cup {m}
    /\ UNCHANGED <<tables, stamp, shown, overtook, missed>>

(* A conversation of the two about the listing, LIMIT 1 with no order. *)
FindConversation(r) ==
    LET m == req[r].m
        found == {c \in Conversations : convs[c] = m}
    IN  /\ req[r].pc = "find"
        /\ IF found = {}
           THEN /\ Goto(r, [pc |-> "begin", m |-> m])
                /\ raced' = IF AlsoStarting(r, m) = {} THEN raced ELSE raced \cup {m}
           ELSE /\ \E c \in found : Goto(r, [pc |-> "reply", m |-> m, c |-> c])
                /\ UNCHANGED raced
        /\ UNCHANGED <<tables, stamp, shown, overtook, missed>>

(* startConversation: BEGIN takes the time, COMMIT shows conversation,
   participants and opening message at once.                              *)
BeginStart(r) ==
    /\ req[r].pc = "begin"
    /\ TakeStamp
    /\ Goto(r, [pc |-> "start", m |-> req[r].m, at |-> stamp + 1])
    /\ UNCHANGED <<tables, history>>

CommitStart(r, c) ==
    LET q == req[r] IN
    /\ q.pc = "start"
    /\ convs[c] = Nobody
    /\ convs' = [convs EXCEPT ![c] = q.m]
    /\ msgs' = msgs \cup {[conv |-> c, from |-> q.m, at |-> q.at]}
    /\ last' = [last EXCEPT ![c] = q.at]
    /\ Done(r)
    /\ UNCHANGED <<open, readAt, stamp, history>>

-----------------------------------------------------------------------------
(* POST /conversations/:id/messages, of a conversation one is in or not. *)
StartReply(r, m, c) ==
    /\ req[r] = Idle
    /\ convs[c] # Nobody
    /\ Goto(r, [pc |-> "reply", m |-> m, c |-> c])
    /\ UNCHANGED <<tables, stamp, history>>

(* Readers of c, other than m, between their page and their mark. *)
Reading(c, m) == {s \in With("mark") : req[s].c = c /\ req[s].m # m}

\* Mutant: whoever knows the id may write.
BeginAppendUnchecked(r) ==
    LET q == req[r] IN
    /\ q.pc = "reply"
    /\ TakeStamp
    /\ Goto(r, [pc |-> "append", m |-> q.m, c |-> q.c, at |-> stamp + 1])
    /\ overtook' = IF \E s \in With("append") : req[s].c = q.c
                   THEN overtook \cup {q.c} ELSE overtook
    /\ missed' = missed \cup {<<q.c, req[s].m>> : s \in Reading(q.c, q.m)}
    /\ UNCHANGED <<tables, shown, raced>>

(* appendMessage: who does not take part is told the conversation is not
   there.                                                                *)
BeginAppend(r) ==
    LET q == req[r] IN
    /\ q.pc = "reply"
    /\ q.m \in Participants(q.c)
    /\ TakeStamp
    /\ Goto(r, [pc |-> "append", m |-> q.m, c |-> q.c, at |-> stamp + 1])
    /\ overtook' = IF \E s \in With("append") : req[s].c = q.c
                   THEN overtook \cup {q.c} ELSE overtook
    /\ missed' = missed \cup {<<q.c, req[s].m>> : s \in Reading(q.c, q.m)}
    /\ UNCHANGED <<tables, shown, raced>>

\* Mutant: the ordering key stays where the conversation began.
CommitAppendUnsorted(r) ==
    LET q == req[r] IN
    /\ q.pc = "append"
    /\ msgs' = msgs \cup {[conv |-> q.c, from |-> q.m, at |-> q.at]}
    /\ Done(r)
    /\ UNCHANGED <<open, convs, last, readAt, stamp, history>>

(* The message, and last_message_at stamped with its time as the process read
   it: the row of the conversation is locked from the UPDATE to the commit,
   and takes the stamp of whoever commits last.                             *)
CommitAppend(r) ==
    LET q == req[r] IN
    /\ q.pc = "append"
    /\ msgs' = msgs \cup {[conv |-> q.c, from |-> q.m, at |-> q.at]}
    /\ last' = [last EXCEPT ![q.c] = AsDate(q.at)]
    /\ Done(r)
    /\ UNCHANGED <<open, convs, readAt, stamp, history>>

-----------------------------------------------------------------------------
(* GET /conversations/:id: the conversation of a participant, or 404. *)
StartRead(r, m, c) ==
    /\ req[r] = Idle
    /\ m \in Participants(c)
    /\ Goto(r, [pc |-> "page", m |-> m, c |-> c])
    /\ UNCHANGED <<tables, stamp, history>>

\* Mutant: marked before it is read.
ReadPageNothing(r) ==
    LET q == req[r] IN
    /\ q.pc = "page"
    /\ Goto(r, [q EXCEPT !.pc = "mark"])
    /\ UNCHANGED <<tables, stamp, history>>

(* What is older than a cursor, newest first. *)
Page(c, before) ==
    LET older == {x \in Of(c) : x.at < before}
    IN  {x \in older : Cardinality({y \in older : y.at > x.at}) < PageSize}

(* No cursor, or the time of a message as the process read it.  The id decides
   whether what was written in that very microsecond is before the cursor.    *)
Cursors(c) ==
    {MaxStamps + 1}
    \cup UNION {{b \in {AsDate(x.at), AsDate(x.at) + 1} : b <= x.at} : x \in Of(c)}

Unseen(c, m, page) == {x \in Of(c) \ page : x.from # m /\ <<x, m>> \notin shown}

(* The page that will be the answer. *)
ReadPage(r) ==
    LET q == req[r] IN
    /\ q.pc = "page"
    /\ \E before \in Cursors(q.c) :
        LET page == Page(q.c, before) IN
        /\ shown' = shown \cup (page \X {q.m})
        /\ missed' = IF \/ Unseen(q.c, q.m, page) # {}
                         \/ \E s \in With("append") : req[s].c = q.c /\ req[s].m # q.m
                      THEN missed \cup {<<q.c, q.m>>} ELSE missed
    /\ Goto(r, [q EXCEPT !.pc = "mark"])
    /\ UNCHANGED <<tables, stamp, raced, overtook>>

(* markRead: last_read_at = now(), whatever the page held. *)
MarkRead(r) ==
    LET q == req[r] IN
    /\ q.pc = "mark"
    /\ TakeStamp
    /\ readAt' = [readAt EXCEPT ![<<q.c, q.m>>] = stamp + 1]
    /\ Done(r)
    /\ UNCHANGED <<open, convs, msgs, last, history>>

(* Refused, aborted by the deadline, or rolled back. *)
GiveUp(r) ==
    /\ req[r] # Idle
    /\ Done(r)
    /\ UNCHANGED <<tables, stamp, history>>

-----------------------------------------------------------------------------
Step(r) ==
    \/ FindConversation(r)
    \/ BeginStart(r)
    \/ \E c \in Conversations : CommitStart(r, c)
    \/ BeginAppend(r)
    \/ CommitAppend(r)
    \/ ReadPage(r)
    \/ MarkRead(r)
    \/ GiveUp(r)

Next ==
    \/ ListingMoves
    \/ \E r \in Requests, m \in Inquirers : StartInquiry(r, m)
    \/ \E r \in Requests, m \in Everyone, c \in Conversations :
        StartReply(r, m, c) \/ StartRead(r, m, c)
    \/ \E r \in Requests : Step(r)

Spec == Init /\ [][Next]_vars

-----------------------------------------------------------------------------
(* "Idempotent per (listing, inquirer)": one conversation of a member about a
   listing, unless two of their inquiries looked for it at the same time.   *)
OneThreadUnlessRaced ==
    \A c, d \in Conversations :
        convs[c] = convs[d] /\ convs[c] # Nobody /\ c # d => convs[c] \in raced

(* The inbox is sorted by the newest message: to the millisecond, which is what
   a client is told of either, last_message_at is not before a message, unless
   two were written at once.                                                  *)
InboxFollowsMessages ==
    \A c \in Conversations \ overtook : \A x \in Of(c) : AsDate(x.at) <= last[c]

(* Not so, and no run checks it: that the two "can never disagree"
   (converse.ts:158).  The key is the message's stamp without its microseconds,
   after any append.                                                           *)
OrderingKeyAgrees ==
    \A c \in Conversations \ overtook : \A x \in Of(c) : x.at <= last[c]

(* What counts as read was shown: a message the other wrote does not lose its
   unread mark unseen, unless it was being written during the reading or lay
   outside the page that was read.                                          *)
ReadMeansShown ==
    \A x \in msgs : \A m \in Participants(x.conv) \ {x.from} :
        x.at <= readAt[<<x.conv, m>>] =>
            <<x, m>> \in shown \/ <<x.conv, m>> \in missed
=============================================================================
