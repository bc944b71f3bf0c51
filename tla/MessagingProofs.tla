--------------------------- MODULE MessagingProofs ---------------------------
(***************************************************************************)
(* Proofs about Messaging, for any number of inquirers, conversations,     *)
(* requests and transactions.                                              *)
(*                                                                         *)
(* Each property has an exception, a race the code does not close; the     *)
(* invariants below say that without that race the handlers in flight do   *)
(* not disturb each other: one request of a member starts a conversation,  *)
(* one writes to a conversation, and none writes while another reads.      *)
(***************************************************************************)
EXTENDS Messaging, TLAPS

\* Handlers in a conversation are in one that exists, and take part in it.
Here ==
    \A r \in Requests :
        /\ req[r].pc \in {"reply", "page", "mark", "append"} => convs[req[r].c] # Nobody
        /\ req[r].pc \in {"page", "mark", "append"} => req[r].m \in {convs[req[r].c], Owner}

\* No time is later than now, and nobody has read what does not exist.
InTime ==
    /\ \A x \in msgs : x.at <= stamp
    /\ \A r \in Requests : req[r].pc \in {"start", "append"} => req[r].at <= stamp
    /\ \A c \in Conversations, m \in Everyone :
        /\ readAt[<<c, m>>] <= stamp
        /\ convs[c] = Nobody => readAt[<<c, m>>] = 0

Starting(r, m) == req[r].pc \in {"begin", "start"} /\ req[r].m = m

\* One request starts a conversation, of a member who has none yet.
OneStart(m) ==
    /\ \A r, s \in Requests : Starting(r, m) /\ Starting(s, m) => r = s
    /\ \A r \in Requests : Starting(r, m) => \A c \in Conversations : convs[c] # m
    /\ \A c, d \in Conversations : convs[c] = m /\ convs[d] = m => c = d

StartInv == \A m \in Inquirers : m \notin raced => OneStart(m)

Writing(r, c) == req[r].pc = "append" /\ req[r].c = c

\* One request writes to a conversation, later than what is in it, and the
\* ordering key is not before a message there, to the millisecond.
OneWriter(c) ==
    /\ \A r, s \in Requests : Writing(r, c) /\ Writing(s, c) => r = s
    /\ \A r \in Requests : Writing(r, c) => \A x \in Of(c) : x.at <= req[r].at
    /\ \A x \in Of(c) : AsDate(x.at) <= last[c]

WriterInv == \A c \in Conversations : c \notin overtook => OneWriter(c)

Marking(r, c, m) == req[r].pc = "mark" /\ req[r].c = c /\ req[r].m = m

\* Who is about to mark a conversation read has seen it, nobody else is writing
\* to it, and what is being written is newer than what was read.
CalmReader(c, m) ==
    /\ \A r \in Requests : Marking(r, c, m) =>
        /\ \A x \in Of(c) : x.from # m => <<x, m>> \in shown
        /\ \A s \in Requests : Writing(s, c) => req[s].m = m
    /\ \A s \in Requests : Writing(s, c) /\ req[s].m # m => readAt[<<c, m>>] < req[s].at
    /\ \A x \in Of(c) : x.from # m /\ x.at <= readAt[<<c, m>>] => <<x, m>> \in shown

ReaderInv ==
    \A c \in Conversations, m \in Everyone : <<c, m>> \notin missed => CalmReader(c, m)

IInv == TypeOK /\ Here /\ InTime /\ StartInv /\ WriterInv /\ ReaderInv

-----------------------------------------------------------------------------
(* What a handler knows, by the step it is at, and what a step does to it. *)

LEMMA Knows ==
    ASSUME TypeOK, NEW r \in Requests
    PROVE  /\ req[r] \in Handling
           /\ req[r].pc \in {"find", "begin", "start"} => req[r].m \in Inquirers
           /\ req[r].pc \in {"reply", "page", "mark", "append"} =>
                req[r].m \in Everyone /\ req[r].c \in Conversations
           /\ req[r].pc \in {"start", "append"} => req[r].at \in Times
<1>1. req[r] \in Handling
  BY DEF TypeOK
<1> QED
  BY <1>1 DEF Handling, Idle

LEMMA GotoIs ==
    ASSUME TypeOK, NEW r \in Requests, NEW local, Goto(r, local)
    PROVE  /\ req'[r] = local
           /\ \A s \in Requests : s # r => req'[s] = req[s]
BY DEF Goto, TypeOK

LEMMA GotoTypes ==
    ASSUME TypeOK, NEW r \in Requests, NEW local \in Handling, Goto(r, local)
    PROVE  req' \in [Requests -> Handling]
BY DEF Goto, TypeOK

LEMMA IdleHandling == Idle \in Handling
BY DEF Handling

\* A page, and then a mark.
LEMMA PageToMark ==
    ASSUME TypeOK, NEW r \in Requests, req[r].pc = "page"
    PROVE  [req[r] EXCEPT !.pc = "mark"] = [pc |-> "mark", m |-> req[r].m, c |-> req[r].c]
<1>1. req[r] \in [pc: {"reply", "page", "mark"}, m: Everyone, c: Conversations]
  BY Knows DEF Handling, Idle
<1> QED
  BY <1>1

LEMMA TimeTypes ==
    ASSUME TypeOK, TakeStamp
    PROVE  stamp + 1 \in Times /\ stamp' \in 0..MaxStamps /\ stamp' = stamp + 1 /\ stamp \in Nat
BY MessagingBound DEF TypeOK, TakeStamp, Times

(* A Date is of the millisecond of the stamp, and keeps the order. *)
LEMMA Quotient ==
    ASSUME NEW t \in Nat, NEW g \in Nat \ {0}
    PROVE  /\ t % g \in Nat /\ t % g < g /\ t \div g \in Nat
           /\ t = g * (t \div g) + (t % g)
OBVIOUS

LEMMA DateIs ==
    ASSUME NEW t \in Nat
    PROVE  AsDate(t) \in Nat /\ AsDate(t) <= t
<1>1. Grain \in Nat \ {0}
  BY MessagingBound
<1>2. t % Grain \in Nat /\ t \div Grain \in Nat /\ t = Grain * (t \div Grain) + (t % Grain)
  BY <1>1, Quotient
<1>3. Grain * (t \div Grain) \in Nat
  BY <1>1, <1>2
<1> QED
  BY <1>2, <1>3 DEF AsDate

LEMMA DateOrder ==
    ASSUME NEW s \in Nat, NEW t \in Nat, s <= t
    PROVE  AsDate(s) <= AsDate(t)
<1> DEFINE g == Grain
           a == s \div g
           b == t \div g
<1>1. g \in Nat \ {0}
  BY MessagingBound
<1>2. /\ a \in Nat /\ s % g \in Nat /\ s % g < g /\ s = g * a + (s % g)
      /\ b \in Nat /\ t % g \in Nat /\ t % g < g /\ t = g * b + (t % g)
  BY <1>1, Quotient
<1> HIDE DEF a, b
<1>3. a <= b
  <2> SUFFICES ASSUME b + 1 <= a PROVE FALSE
    BY <1>2
  <2>1. g * (b + 1) <= g * a
    BY <1>1, <1>2
  <2>2. g * (b + 1) = g * b + g
    BY <1>1, <1>2
  <2>3. g * a \in Nat /\ g * b \in Nat
    BY <1>1, <1>2
  <2> QED
    BY <1>1, <1>2, <2>1, <2>2, <2>3
<1>4. g * a <= g * b /\ g * a \in Nat /\ g * b \in Nat
  BY <1>1, <1>2, <1>3
<1>5. AsDate(s) = g * a /\ AsDate(t) = g * b
  BY <1>2, <1>4 DEF AsDate
<1> QED
  BY <1>4, <1>5

LEMMA TypeStep == TypeOK /\ Here /\ [Next]_vars => TypeOK'
<1> SUFFICES ASSUME TypeOK, Here, [Next]_vars PROVE TypeOK'
  OBVIOUS
\* Handlers that only move.
<1>1. ASSUME NEW r \in Requests, NEW local \in Handling, Goto(r, local), UNCHANGED tables,
             stamp' \in 0..MaxStamps, UNCHANGED shown, raced' \in SUBSET Inquirers,
             overtook' \in SUBSET Conversations, missed' \in SUBSET (Conversations \X Everyone)
      PROVE  TypeOK'
  <2>1. req' \in [Requests -> Handling]
    BY <1>1, GotoTypes
  <2> QED
    BY <1>1, <2>1 DEF TypeOK, tables, Participants
<1>2. CASE ListingMoves
  BY <1>2 DEF TypeOK, ListingMoves, history, Participants
<1>3. ASSUME NEW r \in Requests, NEW m \in Inquirers, StartInquiry(r, m)
      PROVE  TypeOK'
  <2>1. [pc |-> "find", m |-> m] \in Handling
    BY DEF Handling
  <2> QED
    BY <1>1, <1>3, <2>1 DEF StartInquiry, history, TypeOK
<1>4. ASSUME NEW r \in Requests, NEW m \in Everyone, NEW c \in Conversations,
             StartReply(r, m, c) \/ StartRead(r, m, c)
      PROVE  TypeOK'
  <2>1. [pc |-> "reply", m |-> m, c |-> c] \in Handling /\ [pc |-> "page", m |-> m, c |-> c] \in Handling
    BY DEF Handling
  <2> QED
    BY <1>1, <1>4, <2>1 DEF StartReply, StartRead, history, TypeOK
<1>5. ASSUME NEW r \in Requests, FindConversation(r)
      PROVE  TypeOK'
  <2>1. req[r].m \in Inquirers
    BY <1>5, Knows DEF FindConversation
  <2>2. [pc |-> "begin", m |-> req[r].m] \in Handling
    BY <2>1 DEF Handling
  <2>3. \A c \in Conversations : [pc |-> "reply", m |-> req[r].m, c |-> c] \in Handling
    BY <2>1 DEF Handling, Everyone
  <2>4. /\ raced' \in SUBSET Inquirers
        /\ UNCHANGED <<tables, stamp, shown, overtook, missed>>
        /\ \E local \in Handling : Goto(r, local)
    BY <1>5, <2>1, <2>2, <2>3 DEF FindConversation, TypeOK
  <2> QED
    BY <1>1, <2>4 DEF TypeOK
<1>6. ASSUME NEW r \in Requests, BeginStart(r)
      PROVE  TypeOK'
  <2>1. req[r].m \in Inquirers /\ stamp + 1 \in Times /\ stamp' \in 0..MaxStamps
    BY <1>6, Knows, TimeTypes DEF BeginStart
  <2>2. [pc |-> "start", m |-> req[r].m, at |-> stamp + 1] \in Handling
    BY <2>1 DEF Handling
  <2> QED
    BY <1>1, <1>6, <2>1, <2>2 DEF BeginStart, history, TypeOK
<1>7. ASSUME NEW r \in Requests, NEW c \in Conversations, CommitStart(r, c)
      PROVE  TypeOK'
  <2> DEFINE q == req[r]
             new == [conv |-> c, from |-> q.m, at |-> q.at]
  <2>1. q.m \in Inquirers /\ q.at \in Times
    BY <1>7, Knows DEF CommitStart
  <2>2. new \in Message
    BY <2>1 DEF Message, Everyone
  <2>3. req' \in [Requests -> Handling]
    BY <1>7, IdleHandling, GotoTypes DEF CommitStart, Done
  <2>4. /\ convs' = [convs EXCEPT ![c] = q.m] /\ msgs' = msgs \cup {new}
        /\ last' = [last EXCEPT ![c] = q.at] /\ convs[c] = Nobody
        /\ UNCHANGED <<open, readAt, stamp, history>>
    BY <1>7 DEF CommitStart
  <2>5. \A x \in msgs' : x.from \in Participants(x.conv)'
    <3>1. ASSUME NEW x \in msgs
          PROVE  x.from \in Participants(x.conv)'
      <4>1. x.from \in Participants(x.conv) /\ x.conv \in Conversations
        BY DEF TypeOK, Message
      <4>2. x.conv # c
        BY <2>4, <4>1 DEF Participants
      <4> QED
        BY <2>4, <4>1, <4>2 DEF Participants, TypeOK
    <3>2. new.from \in Participants(new.conv)'
      BY <2>1, <2>4, RealInquirers DEF Participants, TypeOK, Nobody
    <3> QED
      BY <2>4, <3>1, <3>2
  <2>6. last' \in [Conversations -> 0..MaxStamps]
    BY <2>1, <2>4, MessagingBound DEF TypeOK, Times
  <2> QED
    BY <2>1, <2>2, <2>3, <2>4, <2>5, <2>6 DEF TypeOK, history
<1>8. ASSUME NEW r \in Requests, BeginAppend(r)
      PROVE  TypeOK'
  <2>1. req[r].m \in Everyone /\ req[r].c \in Conversations /\ stamp + 1 \in Times /\ stamp' \in 0..MaxStamps
    BY <1>8, Knows, TimeTypes DEF BeginAppend
  <2>2. [pc |-> "append", m |-> req[r].m, c |-> req[r].c, at |-> stamp + 1] \in Handling
    BY <2>1 DEF Handling
  <2>3. \A s \in Reading(req[r].c, req[r].m) : <<req[r].c, req[s].m>> \in Conversations \X Everyone
    BY <2>1, Knows DEF Reading, With
  <2>4. missed' \in SUBSET (Conversations \X Everyone) /\ overtook' \in SUBSET Conversations
    BY <1>8, <2>1, <2>3 DEF BeginAppend, TypeOK
  <2> QED
    BY <1>1, <1>8, <2>1, <2>2, <2>4 DEF BeginAppend, TypeOK
<1>9. ASSUME NEW r \in Requests, CommitAppend(r)
      PROVE  TypeOK'
  <2> DEFINE q == req[r]
             new == [conv |-> q.c, from |-> q.m, at |-> q.at]
  <2>1. q.m \in Everyone /\ q.c \in Conversations /\ q.at \in Times /\ q.m \in Participants(q.c)
    BY <1>9, Knows DEF CommitAppend, Here, Participants
  <2>2. new \in Message
    BY <2>1 DEF Message
  <2>3. req' \in [Requests -> Handling]
    BY <1>9, IdleHandling, GotoTypes DEF CommitAppend, Done
  <2>4. /\ msgs' = msgs \cup {new} /\ last' = [last EXCEPT ![q.c] = AsDate(q.at)]
        /\ UNCHANGED <<open, convs, readAt, stamp, history>>
    BY <1>9 DEF CommitAppend
  <2>5. \A x \in msgs' : x.from \in Participants(x.conv)'
    <3>1. \A x \in msgs : x.from \in Participants(x.conv)'
      BY <2>4 DEF Participants, TypeOK
    <3>2. ASSUME NEW x, x = new
          PROVE  x.from \in Participants(x.conv)'
      <4>1. x.from = q.m /\ x.conv = q.c
        BY <3>2
      <4> QED
        BY <2>1, <2>4, <4>1 DEF Participants
    <3> QED
      BY <2>4, <3>1, <3>2
  <2>6. last' \in [Conversations -> 0..MaxStamps]
    <3>1. AsDate(q.at) \in Nat /\ AsDate(q.at) <= q.at
      BY <2>1, DateIs DEF Times
    <3>2. AsDate(q.at) \in 0..MaxStamps
      BY <2>1, <3>1, MessagingBound DEF Times
    <3> QED
      BY <2>4, <3>2 DEF TypeOK
  <2> QED
    BY <2>2, <2>3, <2>4, <2>5, <2>6 DEF TypeOK, history
<1>10. ASSUME NEW r \in Requests, ReadPage(r)
       PROVE  TypeOK'
  <2>1. req[r].m \in Everyone /\ req[r].c \in Conversations
    BY <1>10, Knows DEF ReadPage
  <2>2. [pc |-> "mark", m |-> req[r].m, c |-> req[r].c] \in Handling
    BY <2>1 DEF Handling
  <2>3. req' \in [Requests -> Handling]
    BY <1>10, <2>2, PageToMark, GotoTypes DEF ReadPage
  <2>4. shown' \in SUBSET (Message \X Everyone)
    <3>1. PICK before \in Cursors(req[r].c) :
              shown' = shown \cup (Page(req[r].c, before) \X {req[r].m})
      BY <1>10 DEF ReadPage
    <3>2. Page(req[r].c, before) \subseteq Message
      BY DEF Page, Of, TypeOK
    <3> QED
      BY <2>1, <3>1, <3>2 DEF TypeOK
  <2>5. missed' \in SUBSET (Conversations \X Everyone)
    BY <1>10, <2>1 DEF ReadPage, TypeOK
  <2> QED
    BY <1>10, <2>3, <2>4, <2>5 DEF ReadPage, TypeOK, tables, Participants
<1>11. ASSUME NEW r \in Requests, MarkRead(r)
       PROVE  TypeOK'
  <2>1. stamp' \in 0..MaxStamps /\ stamp' = stamp + 1
    BY <1>11, TimeTypes DEF MarkRead
  <2>2. req' \in [Requests -> Handling]
    BY <1>11, IdleHandling, GotoTypes DEF MarkRead, Done
  <2>3. readAt' \in [Conversations \X Everyone -> 0..MaxStamps]
    BY <1>11, <2>1 DEF MarkRead, TypeOK
  <2> QED
    BY <1>11, <2>1, <2>2, <2>3 DEF MarkRead, TypeOK, history, Participants
<1>12. ASSUME NEW r \in Requests, GiveUp(r)
       PROVE  TypeOK'
  BY <1>1, <1>12, IdleHandling DEF GiveUp, Done, history, TypeOK
<1>13. CASE UNCHANGED vars
  BY <1>13 DEF TypeOK, vars, tables, history, Participants
<1> QED
  BY <1>2, <1>3, <1>4, <1>5, <1>6, <1>7, <1>8, <1>9, <1>10, <1>11, <1>12, <1>13 DEF Next, Step

-----------------------------------------------------------------------------
(* The effect of a step on one conversation: what it does to handlers,
   to the conversations there are, and to time.                         *)

\* Conversations stay, with those who take part in them.
LEMMA ConversationsStay ==
    ASSUME TypeOK, [Next]_vars, NEW c \in Conversations, convs[c] # Nobody
    PROVE  convs'[c] = convs[c]
BY DEF TypeOK, Next, Step, ListingMoves, StartInquiry, StartReply, StartRead, FindConversation,
       BeginStart, CommitStart, BeginAppend, CommitAppend, ReadPage, MarkRead, GiveUp, vars, tables

LEMMA TimePasses ==
    ASSUME TypeOK, [Next]_vars
    PROVE  stamp \in Nat /\ stamp' \in Nat /\ stamp <= stamp'
<1>1. stamp \in Nat
  BY MessagingBound DEF TypeOK
<1>2. stamp' = stamp \/ stamp' = stamp + 1
  BY DEF Next, Step, ListingMoves, StartInquiry, StartReply, StartRead, FindConversation,
       BeginStart, CommitStart, BeginAppend, CommitAppend, ReadPage, MarkRead, GiveUp, TakeStamp, vars
<1> QED
  BY <1>1, <1>2

\* A handler is where it was, or one step on.
LEMMA Steps ==
    ASSUME TypeOK, [Next]_vars, NEW s \in Requests, req'[s] # req[s]
    PROVE  \/ req'[s] = Idle
           \/ \E m \in Inquirers : StartInquiry(s, m) /\ req'[s] = [pc |-> "find", m |-> m]
           \/ \E m \in Everyone, c \in Conversations :
                StartReply(s, m, c) /\ req'[s] = [pc |-> "reply", m |-> m, c |-> c]
           \/ \E m \in Everyone, c \in Conversations :
                StartRead(s, m, c) /\ req'[s] = [pc |-> "page", m |-> m, c |-> c]
           \/ FindConversation(s) /\ req'[s] = [pc |-> "begin", m |-> req[s].m]
           \/ FindConversation(s) /\ \E c \in Conversations :
                convs[c] = req[s].m /\ req'[s] = [pc |-> "reply", m |-> req[s].m, c |-> c]
           \/ BeginStart(s) /\ req'[s] = [pc |-> "start", m |-> req[s].m, at |-> stamp + 1]
           \/ BeginAppend(s)
              /\ req'[s] = [pc |-> "append", m |-> req[s].m, c |-> req[s].c, at |-> stamp + 1]
           \/ ReadPage(s) /\ req'[s] = [pc |-> "mark", m |-> req[s].m, c |-> req[s].c]
<1>1. ASSUME NEW r \in Requests, NEW local, Goto(r, local)
      PROVE  s = r /\ req'[s] = local
  BY <1>1, GotoIs
<1>2. CASE UNCHANGED req
  BY <1>2
<1>3. ASSUME NEW r \in Requests, NEW m \in Inquirers, StartInquiry(r, m)
      PROVE  s = r /\ req'[s] = [pc |-> "find", m |-> m]
  BY <1>1, <1>3 DEF StartInquiry
<1>4. ASSUME NEW r \in Requests, NEW m \in Everyone, NEW c \in Conversations, StartReply(r, m, c)
      PROVE  s = r /\ req'[s] = [pc |-> "reply", m |-> m, c |-> c]
  BY <1>1, <1>4 DEF StartReply
<1>5. ASSUME NEW r \in Requests, NEW m \in Everyone, NEW c \in Conversations, StartRead(r, m, c)
      PROVE  s = r /\ req'[s] = [pc |-> "page", m |-> m, c |-> c]
  BY <1>1, <1>5 DEF StartRead
<1>6. ASSUME NEW r \in Requests, FindConversation(r)
      PROVE  /\ s = r
             /\ \/ req'[s] = [pc |-> "begin", m |-> req[s].m]
                \/ \E c \in Conversations :
                     convs[c] = req[s].m /\ req'[s] = [pc |-> "reply", m |-> req[s].m, c |-> c]
  BY <1>1, <1>6 DEF FindConversation
<1>7. ASSUME NEW r \in Requests, BeginStart(r)
      PROVE  s = r /\ req'[s] = [pc |-> "start", m |-> req[s].m, at |-> stamp + 1]
  BY <1>1, <1>7 DEF BeginStart
<1>8. ASSUME NEW r \in Requests, BeginAppend(r)
      PROVE  s = r /\ req'[s] = [pc |-> "append", m |-> req[s].m, c |-> req[s].c, at |-> stamp + 1]
  BY <1>1, <1>8 DEF BeginAppend
<1>9. ASSUME NEW r \in Requests, ReadPage(r)
      PROVE  s = r /\ req'[s] = [pc |-> "mark", m |-> req[s].m, c |-> req[s].c]
  <2>1. req[r].pc = "page" /\ Goto(r, [req[r] EXCEPT !.pc = "mark"])
    BY <1>9 DEF ReadPage
  <2> QED
    BY <1>1, <2>1, PageToMark
<1>10. ASSUME NEW r \in Requests,
              (\E c \in Conversations : CommitStart(r, c)) \/ CommitAppend(r) \/ MarkRead(r) \/ GiveUp(r)
       PROVE  req'[s] = Idle
  BY <1>1, <1>10 DEF CommitStart, CommitAppend, MarkRead, GiveUp, Done
<1>11. CASE ListingMoves \/ UNCHANGED vars
  BY <1>2, <1>11 DEF ListingMoves, vars
<1>12. CASE \E r \in Requests : Step(r)
  BY <1>12, <1>6, <1>7, <1>8, <1>9, <1>10 DEF Step
<1>13. CASE \E r \in Requests, m \in Inquirers : StartInquiry(r, m)
  BY <1>13, <1>3
<1>14. CASE \E r \in Requests, m \in Everyone, c \in Conversations :
              StartReply(r, m, c) \/ StartRead(r, m, c)
  BY <1>14, <1>4, <1>5
<1> QED
  BY <1>11, <1>12, <1>13, <1>14 DEF Next

\* How a handler came to a step.
LEMMA CameFrom ==
    ASSUME TypeOK, [Next]_vars, NEW s \in Requests, req'[s] # req[s]
    PROVE  /\ req'[s].pc = "begin" => FindConversation(s) /\ req'[s].m = req[s].m
           /\ req'[s].pc = "start" =>
                BeginStart(s) /\ req'[s].m = req[s].m /\ req'[s].at = stamp + 1
           /\ req'[s].pc = "append" =>
                BeginAppend(s) /\ req'[s].m = req[s].m /\ req'[s].c = req[s].c /\ req'[s].at = stamp + 1
           /\ req'[s].pc = "mark" => ReadPage(s) /\ req'[s].m = req[s].m /\ req'[s].c = req[s].c
<1>1. CASE req'[s] = Idle
  BY <1>1 DEF Idle
<1>2. ASSUME NEW m \in Inquirers, req'[s] = [pc |-> "find", m |-> m]
      PROVE  req'[s].pc = "find"
  BY <1>2
<1>3. ASSUME NEW m, NEW c, req'[s] = [pc |-> "reply", m |-> m, c |-> c]
      PROVE  req'[s].pc = "reply"
  BY <1>3
<1>4. ASSUME NEW m, NEW c, req'[s] = [pc |-> "page", m |-> m, c |-> c]
      PROVE  req'[s].pc = "page"
  BY <1>4
<1>5. ASSUME req'[s] = [pc |-> "begin", m |-> req[s].m]
      PROVE  req'[s].pc = "begin" /\ req'[s].m = req[s].m
  BY <1>5
<1>6. ASSUME req'[s] = [pc |-> "start", m |-> req[s].m, at |-> stamp + 1]
      PROVE  req'[s].pc = "start" /\ req'[s].m = req[s].m /\ req'[s].at = stamp + 1
  BY <1>6
<1>7. ASSUME req'[s] = [pc |-> "append", m |-> req[s].m, c |-> req[s].c, at |-> stamp + 1]
      PROVE  /\ req'[s].pc = "append" /\ req'[s].m = req[s].m /\ req'[s].c = req[s].c
             /\ req'[s].at = stamp + 1
  BY <1>7
<1>8. ASSUME req'[s] = [pc |-> "mark", m |-> req[s].m, c |-> req[s].c]
      PROVE  req'[s].pc = "mark" /\ req'[s].m = req[s].m /\ req'[s].c = req[s].c
  BY <1>8
<1> QED
  BY <1>1, <1>2, <1>3, <1>4, <1>5, <1>6, <1>7, <1>8, Steps

\* What messages and marks a step leaves behind.
LEMMA MessagesGrow ==
    ASSUME TypeOK, [Next]_vars, NEW x \in msgs', x \notin msgs
    PROVE  \/ \E r \in Requests : CommitAppend(r)
                /\ x = [conv |-> req[r].c, from |-> req[r].m, at |-> req[r].at]
           \/ \E r \in Requests, c \in Conversations : CommitStart(r, c)
                /\ x = [conv |-> c, from |-> req[r].m, at |-> req[r].at]
BY DEF Next, Step, ListingMoves, StartInquiry, StartReply, StartRead, FindConversation,
       BeginStart, CommitStart, BeginAppend, CommitAppend, ReadPage, MarkRead, GiveUp, vars, tables

LEMMA MarksMove ==
    ASSUME TypeOK, [Next]_vars, NEW c \in Conversations, NEW m \in Everyone,
           readAt'[<<c, m>>] # readAt[<<c, m>>]
    PROVE  \E r \in Requests :
                MarkRead(r) /\ Marking(r, c, m) /\ readAt'[<<c, m>>] = stamp + 1 /\ stamp' = stamp + 1
<1>1. ASSUME UNCHANGED readAt PROVE FALSE
  BY <1>1
<1>2. PICK r \in Requests : MarkRead(r)
  BY <1>1 DEF Next, Step, ListingMoves, StartInquiry, StartReply, StartRead, FindConversation,
       BeginStart, CommitStart, BeginAppend, CommitAppend, ReadPage, GiveUp, vars, tables
<1>3. /\ req[r].pc = "mark" /\ stamp' = stamp + 1
      /\ readAt' = [readAt EXCEPT ![<<req[r].c, req[r].m>>] = stamp + 1]
  BY <1>2 DEF MarkRead, TakeStamp
<1>4. <<req[r].c, req[r].m>> = <<c, m>> /\ readAt'[<<c, m>>] = stamp + 1
  BY <1>3 DEF TypeOK
<1> QED
  BY <1>2, <1>3, <1>4 DEF Marking

LEMMA HereStep == TypeOK /\ Here /\ [Next]_vars => Here'
<1> SUFFICES ASSUME TypeOK, Here, [Next]_vars, NEW s \in Requests
             PROVE  /\ req'[s].pc \in {"reply", "page", "mark", "append"} => convs'[req'[s].c] # Nobody
                    /\ req'[s].pc \in {"page", "mark", "append"} => req'[s].m \in {convs'[req'[s].c], Owner}
  BY DEF Here
<1> DEFINE Fine(local) ==
        /\ local.c \in Conversations
        /\ convs[local.c] # Nobody
        /\ local.pc \in {"page", "mark", "append"} => local.m \in {convs[local.c], Owner}
<1>1. ASSUME Fine(req'[s])
      PROVE  /\ convs'[req'[s].c] # Nobody
             /\ req'[s].pc \in {"page", "mark", "append"} => req'[s].m \in {convs'[req'[s].c], Owner}
  <2>1. convs'[req'[s].c] = convs[req'[s].c]
    BY <1>1, ConversationsStay
  <2> QED
    BY <1>1, <2>1
<1>2. CASE req'[s] = req[s]
  <2>1. req[s].pc \in {"reply", "page", "mark", "append"} => Fine(req'[s])
    BY <1>2, Knows DEF Here
  <2> QED
    BY <1>1, <1>2, <2>1
<1>3. CASE req'[s] # req[s]
  <2>1. CASE req'[s] = Idle
    BY <2>1 DEF Idle
  <2>2. ASSUME NEW m, req'[s] = [pc |-> "find", m |-> m] \/ req'[s] = [pc |-> "begin", m |-> m]
        PROVE  req'[s].pc \notin {"reply", "page", "mark", "append"}
    BY <2>2
  <2>3. ASSUME NEW m \in Everyone, NEW c \in Conversations,
               StartReply(s, m, c) /\ req'[s] = [pc |-> "reply", m |-> m, c |-> c]
        PROVE  Fine(req'[s])
    BY <2>3 DEF StartReply
  <2>4. ASSUME NEW m \in Everyone, NEW c \in Conversations,
               StartRead(s, m, c) /\ req'[s] = [pc |-> "page", m |-> m, c |-> c]
        PROVE  Fine(req'[s])
    BY <2>4 DEF StartRead, Participants
  <2>5. ASSUME FindConversation(s), NEW c \in Conversations,
               convs[c] = req[s].m /\ req'[s] = [pc |-> "reply", m |-> req[s].m, c |-> c]
        PROVE  Fine(req'[s])
    <3>1. req[s].m \in Inquirers
      BY <2>5, Knows DEF FindConversation
    <3> QED
      BY <2>5, <3>1, RealInquirers DEF Nobody
  <2>6. CASE req'[s] = [pc |-> "start", m |-> req[s].m, at |-> stamp + 1]
    BY <2>6
  <2>7. CASE BeginAppend(s) /\ req'[s] = [pc |-> "append", m |-> req[s].m, c |-> req[s].c, at |-> stamp + 1]
    <3>1. req[s].c \in Conversations /\ req[s].m \in {convs[req[s].c], Owner} /\ convs[req[s].c] # Nobody
      BY <2>7, Knows DEF BeginAppend, Participants
    <3> QED
      BY <1>1, <2>7, <3>1
  <2>8. CASE ReadPage(s) /\ req'[s] = [pc |-> "mark", m |-> req[s].m, c |-> req[s].c]
    <3>1. req[s].c \in Conversations /\ req[s].m \in {convs[req[s].c], Owner} /\ convs[req[s].c] # Nobody
      BY <2>8, Knows DEF ReadPage, Here
    <3> QED
      BY <1>1, <2>8, <3>1
  <2> QED
    BY <1>1, <1>3, <2>1, <2>2, <2>3, <2>4, <2>5, <2>6, <2>7, <2>8, Steps
<1> QED
  BY <1>2, <1>3

LEMMA InTimeStep == TypeOK /\ Here /\ InTime /\ [Next]_vars => InTime'
<1> SUFFICES ASSUME TypeOK, Here, InTime, [Next]_vars PROVE InTime'
  OBVIOUS
<1>0. stamp \in Nat /\ stamp' \in Nat /\ stamp <= stamp'
  BY TimePasses
<1>1. ASSUME NEW x \in msgs'
      PROVE  x.at <= stamp'
  <2>1. CASE x \in msgs
    <3>1. x.at \in Nat /\ x.at <= stamp
      BY <2>1 DEF InTime, TypeOK, Message, Times
    <3> QED
      BY <1>0, <3>1
  <2>2. CASE x \notin msgs
    <3>1. PICK r \in Requests : req[r].pc \in {"start", "append"} /\ x.at = req[r].at
      BY <2>2, MessagesGrow DEF CommitAppend, CommitStart
    <3>2. req[r].at \in Nat /\ req[r].at <= stamp
      BY <3>1, Knows DEF InTime, Times
    <3> QED
      BY <1>0, <3>1, <3>2
  <2> QED
    BY <2>1, <2>2
<1>2. ASSUME NEW s \in Requests, req'[s].pc \in {"start", "append"}
      PROVE  req'[s].at <= stamp'
  <2>1. CASE req'[s] = req[s]
    <3>1. req[s].at \in Nat /\ req[s].at <= stamp
      BY <1>2, <2>1, Knows DEF InTime, Times
    <3> QED
      BY <1>0, <2>1, <3>1
  <2>2. CASE req'[s] # req[s]
    <3>1. (BeginStart(s) \/ BeginAppend(s)) /\ req'[s].at = stamp + 1
      BY <1>2, <2>2, CameFrom
    <3>2. stamp' = stamp + 1
      BY <3>1 DEF BeginStart, BeginAppend, TakeStamp
    <3> QED
      BY <1>0, <3>1, <3>2
  <2> QED
    BY <2>1, <2>2
<1>3. ASSUME NEW c \in Conversations, NEW m \in Everyone
      PROVE  /\ readAt'[<<c, m>>] <= stamp'
             /\ convs'[c] = Nobody => readAt'[<<c, m>>] = 0
  <2>1. readAt[<<c, m>>] \in Nat /\ readAt[<<c, m>>] <= stamp
    BY MessagingBound DEF InTime, TypeOK
  <2>2. CASE readAt'[<<c, m>>] = readAt[<<c, m>>]
    <3>1. convs'[c] = Nobody => convs[c] = Nobody
      BY ConversationsStay
    <3> QED
      BY <1>0, <2>1, <2>2, <3>1 DEF InTime
  <2>3. CASE readAt'[<<c, m>>] # readAt[<<c, m>>]
    <3>1. PICK r \in Requests : Marking(r, c, m) /\ readAt'[<<c, m>>] = stamp + 1 /\ stamp' = stamp + 1
      BY <2>3, MarksMove
    <3>2. convs'[c] # Nobody
      BY <3>1, ConversationsStay DEF Here, Marking
    <3> QED
      BY <1>0, <3>1, <3>2
  <2> QED
    BY <2>2, <2>3
<1> QED
  BY <1>1, <1>2, <1>3 DEF InTime

LEMMA HistoryGrows ==
    ASSUME [Next]_vars
    PROVE  raced \subseteq raced' /\ overtook \subseteq overtook' /\ missed \subseteq missed' /\ shown \subseteq shown'
BY DEF Next, Step, ListingMoves, StartInquiry, StartReply, StartRead, FindConversation,
       BeginStart, CommitStart, BeginAppend, CommitAppend, ReadPage, MarkRead, GiveUp, vars, history

-----------------------------------------------------------------------------
(* One conversation of a member. *)

\* A request that goes from looking to starting found nothing.
LEMMA FoundNothing ==
    ASSUME TypeOK, NEW r \in Requests, FindConversation(r), req'[r].pc = "begin"
    PROVE  /\ \A c \in Conversations : convs[c] # req[r].m
           /\ Goto(r, [pc |-> "begin", m |-> req[r].m])
           /\ raced' = IF AlsoStarting(r, req[r].m) = {} THEN raced ELSE raced \cup {req[r].m}
           /\ convs' = convs
<1> DEFINE found == {c \in Conversations : convs[c] = req[r].m}
<1>1. found = {}
  <2> SUFFICES ASSUME found # {} PROVE FALSE
    OBVIOUS
  <2>1. PICK c \in found : Goto(r, [pc |-> "reply", m |-> req[r].m, c |-> c])
    BY DEF FindConversation
  <2>2. req'[r] = [pc |-> "reply", m |-> req[r].m, c |-> c]
    BY <2>1, GotoIs
  <2>3. req'[r].pc = "reply"
    BY <2>2
  <2> QED
    BY <2>3
<1> QED
  BY <1>1 DEF FindConversation, tables

LEMMA StartStep == TypeOK /\ Here /\ StartInv /\ [Next]_vars => StartInv'
<1> SUFFICES ASSUME TypeOK, StartInv, [Next]_vars, NEW m \in Inquirers, m \notin raced'
             PROVE  OneStart(m)'
  BY DEF StartInv
<1>0. OneStart(m)
  BY HistoryGrows DEF StartInv
<1>1. CASE \E r \in Requests : FindConversation(r) /\ req'[r].pc = "begin" /\ req[r].m = m
  <2>1. PICK r \in Requests : FindConversation(r) /\ req'[r].pc = "begin" /\ req[r].m = m
    BY <1>1
  <2>2. \A s \in Requests : s # r => req'[s] = req[s]
    BY <2>1, FoundNothing, GotoIs
  <2>3. AlsoStarting(r, m) = {}
    BY <2>1, FoundNothing
  <2>4. \A s \in Requests : Starting(s, m)' => s = r
    BY <2>2, <2>3 DEF Starting, AlsoStarting, With
  <2>5. \A c \in Conversations : convs'[c] # m
    BY <2>1, FoundNothing
  <2> QED
    BY <2>4, <2>5 DEF OneStart
<1>2. CASE \E r \in Requests, c \in Conversations : CommitStart(r, c) /\ req[r].m = m
  <2>1. PICK r \in Requests, c \in Conversations : CommitStart(r, c) /\ req[r].m = m
    BY <1>2
  <2>2. Starting(r, m)
    BY <2>1 DEF CommitStart, Starting
  <2>3. req'[r] = Idle /\ \A s \in Requests : s # r => req'[s] = req[s]
    BY <2>1, GotoIs DEF CommitStart, Done
  <2>4. \A s \in Requests : ~Starting(s, m)'
    BY <1>0, <2>2, <2>3 DEF OneStart, Starting, Idle
  <2>5. \A d \in Conversations : convs'[d] = m => d = c
    <3>1. \A d \in Conversations : convs[d] # m
      BY <1>0, <2>2 DEF OneStart
    <3>2. convs' = [convs EXCEPT ![c] = req[r].m]
      BY <2>1 DEF CommitStart
    <3> QED
      BY <3>1, <3>2 DEF TypeOK
  <2> QED
    BY <2>4, <2>5 DEF OneStart
<1>3. ASSUME ~\E r \in Requests : FindConversation(r) /\ req'[r].pc = "begin" /\ req[r].m = m,
             ~\E r \in Requests, c \in Conversations : CommitStart(r, c) /\ req[r].m = m
      PROVE  OneStart(m)'
  <2>1. ASSUME NEW s \in Requests, Starting(s, m)'
        PROVE  Starting(s, m)
    <3>1. CASE req'[s] = req[s]
      BY <2>1, <3>1 DEF Starting
    <3>2. CASE req'[s] # req[s]
      <4>1. req'[s].pc = "start"
        BY <1>3, <2>1, <3>2, CameFrom DEF Starting
      <4>2. BeginStart(s) /\ req[s].m = m
        BY <2>1, <3>2, <4>1, CameFrom DEF Starting
      <4> QED
        BY <4>2 DEF BeginStart, Starting
    <3> QED
      BY <3>1, <3>2
  <2>2. ASSUME NEW c \in Conversations, convs'[c] = m
        PROVE  convs[c] = m
    BY <1>3, <2>2 DEF TypeOK, Next, Step, ListingMoves, StartInquiry, StartReply, StartRead,
       FindConversation, BeginStart, CommitStart, BeginAppend, CommitAppend, ReadPage, MarkRead,
       GiveUp, vars, tables
  <2> QED
    BY <1>0, <2>1, <2>2 DEF OneStart
<1> QED
  BY <1>1, <1>2, <1>3

-----------------------------------------------------------------------------
(* The inbox. *)

\* A conversation that does not exist has no message.
LEMMA NoMessages ==
    ASSUME TypeOK, NEW c \in Conversations, convs[c] = Nobody
    PROVE  Of(c) = {}
BY DEF Of, TypeOK, Participants

\* Without a commit in it a conversation keeps its messages.
LEMMA MessagesStay ==
    ASSUME TypeOK, [Next]_vars, NEW c \in Conversations,
           ~\E r \in Requests : CommitAppend(r) /\ req[r].c = c,
           ~\E r \in Requests : CommitStart(r, c)
    PROVE  Of(c)' = Of(c)
<1>1. ASSUME NEW x \in msgs', x \notin msgs
      PROVE  x.conv # c
  BY <1>1, MessagesGrow
<1>2. msgs \subseteq msgs'
  BY DEF Next, Step, ListingMoves, StartInquiry, StartReply, StartRead, FindConversation,
     BeginStart, CommitStart, BeginAppend, CommitAppend, ReadPage, MarkRead, GiveUp, vars, tables
<1> QED
  BY <1>1, <1>2 DEF Of

LEMMA WriterStep == TypeOK /\ Here /\ InTime /\ WriterInv /\ [Next]_vars => WriterInv'
<1> SUFFICES ASSUME TypeOK, Here, InTime, WriterInv, [Next]_vars,
                    NEW c \in Conversations, c \notin overtook'
             PROVE  OneWriter(c)'
  BY DEF WriterInv
<1>0. OneWriter(c)
  BY HistoryGrows DEF WriterInv
<1>1. ASSUME NEW r \in Requests, BeginAppend(r), req[r].c = c
      PROVE  OneWriter(c)'
  <2>1. /\ req'[r].at = stamp + 1 /\ \A s \in Requests : s # r => req'[s] = req[s]
        /\ UNCHANGED <<msgs, last>>
        /\ \A s \in With("append") : req[s].c # c
    <3>1. req'[r] = [pc |-> "append", m |-> req[r].m, c |-> req[r].c, at |-> stamp + 1]
      BY <1>1, GotoIs DEF BeginAppend
    <3>2. req'[r].at = stamp + 1
      BY <3>1
    <3> QED
      BY <1>1, <3>2, GotoIs DEF BeginAppend, tables
  <2>2. \A s \in Requests : Writing(s, c)' => s = r
    BY <2>1 DEF Writing, With
  <2>3. Of(c)' = Of(c) /\ last'[c] = last[c]
    BY <2>1 DEF Of
  <2>4. \A x \in Of(c) : x.at <= stamp + 1
    <3>1. \A x \in Of(c) : x.at <= stamp /\ x.at \in Nat
      BY DEF Of, InTime, TypeOK, Message, Times
    <3> QED
      BY <3>1, TimePasses
  <2> QED
    BY <1>0, <2>1, <2>2, <2>3, <2>4 DEF OneWriter
<1>2. ASSUME NEW r \in Requests, CommitAppend(r), req[r].c = c
      PROVE  OneWriter(c)'
  <2>1. /\ req[r].pc = "append" /\ Writing(r, c)
        /\ msgs' = msgs \cup {[conv |-> c, from |-> req[r].m, at |-> req[r].at]}
        /\ last'[c] = AsDate(req[r].at)
        /\ req'[r] = Idle /\ \A s \in Requests : s # r => req'[s] = req[s]
    BY <1>2, GotoIs DEF CommitAppend, Done, Writing, TypeOK
  <2>2. \A s \in Requests : ~Writing(s, c)'
    BY <1>0, <2>1 DEF OneWriter, Writing, Idle
  <2>3. \A x \in Of(c)' : AsDate(x.at) <= last'[c]
    <3>1. req[r].at \in Nat
      BY <2>1, Knows DEF Times
    <3>2. ASSUME NEW x \in Of(c)'
          PROVE  x \in Of(c) \/ x.at = req[r].at
      BY <2>1, <3>2 DEF Of
    <3>3. \A x \in Of(c) : x.at <= req[r].at /\ x.at \in Nat
      BY <1>0, <2>1 DEF OneWriter, Of, TypeOK, Message, Times
    <3>4. AsDate(req[r].at) \in Nat /\ \A x \in Of(c) : AsDate(x.at) <= AsDate(req[r].at)
      BY <3>1, <3>3, DateIs, DateOrder
    <3> QED
      BY <2>1, <3>2, <3>4
  <2> QED
    BY <2>2, <2>3 DEF OneWriter
<1>3. ASSUME NEW r \in Requests, CommitStart(r, c)
      PROVE  OneWriter(c)'
  <2>1. /\ req[r].pc = "start" /\ convs[c] = Nobody
        /\ msgs' = msgs \cup {[conv |-> c, from |-> req[r].m, at |-> req[r].at]}
        /\ last'[c] = req[r].at
        /\ req'[r] = Idle /\ \A s \in Requests : s # r => req'[s] = req[s]
    BY <1>3, GotoIs DEF CommitStart, Done, TypeOK
  <2>2. \A s \in Requests : ~Writing(s, c)'
    BY <2>1 DEF Writing, Here, Idle
  <2>3. \A x \in Of(c)' : AsDate(x.at) <= last'[c]
    <3>1. req[r].at \in Nat
      BY <2>1, Knows DEF Times
    <3>2. ASSUME NEW x \in Of(c)'
          PROVE  x \in Of(c) \/ x.at = req[r].at
      BY <2>1, <3>2 DEF Of
    <3>3. AsDate(req[r].at) <= req[r].at
      BY <3>1, DateIs
    <3> QED
      BY <2>1, <3>2, <3>3, NoMessages
  <2> QED
    BY <2>2, <2>3 DEF OneWriter
<1>4. ASSUME ~\E r \in Requests : BeginAppend(r) /\ req[r].c = c,
             ~\E r \in Requests : CommitAppend(r) /\ req[r].c = c,
             ~\E r \in Requests : CommitStart(r, c)
      PROVE  OneWriter(c)'
  <2>1. \A s \in Requests : Writing(s, c)' => Writing(s, c) /\ req'[s] = req[s]
    BY <1>4, CameFrom DEF Writing
  <2>2. Of(c)' = Of(c)
    BY <1>4, MessagesStay
  <2>3. last'[c] = last[c]
    BY <1>4 DEF TypeOK, Next, Step, ListingMoves, StartInquiry, StartReply, StartRead,
       FindConversation, BeginStart, CommitStart, BeginAppend, CommitAppend, ReadPage, MarkRead,
       GiveUp, vars, tables
  <2> QED
    BY <1>0, <2>1, <2>2, <2>3 DEF OneWriter
<1> QED
  BY <1>1, <1>2, <1>3, <1>4

-----------------------------------------------------------------------------
(* The unread mark. *)

LEMMA ReaderStep == TypeOK /\ Here /\ InTime /\ ReaderInv /\ [Next]_vars => ReaderInv'
<1> SUFFICES ASSUME TypeOK, Here, InTime, ReaderInv, [Next]_vars,
                    NEW c \in Conversations, NEW m \in Everyone, <<c, m>> \notin missed'
             PROVE  CalmReader(c, m)'
  BY DEF ReaderInv
<1>0. CalmReader(c, m) /\ shown \subseteq shown'
  BY HistoryGrows DEF ReaderInv
<1> DEFINE mark == readAt[<<c, m>>]
<1>t. mark \in Nat /\ mark <= stamp /\ stamp \in Nat
  BY TimePasses, MessagingBound DEF InTime, TypeOK
\* A message is begun: nobody is between page and mark, and it is newer.
<1>1. ASSUME NEW r \in Requests, BeginAppend(r), req[r].c = c
      PROVE  CalmReader(c, m)'
  <2>1. req'[r] = [pc |-> "append", m |-> req[r].m, c |-> req[r].c, at |-> stamp + 1]
    BY <1>1, GotoIs DEF BeginAppend
  <2>2. req'[r].pc = "append" /\ req'[r].m = req[r].m /\ req'[r].at = stamp + 1
    BY <2>1
  <2>3. /\ \A s \in Requests : s # r => req'[s] = req[s]
        /\ UNCHANGED <<msgs, readAt, shown>>
        /\ req[r].m # m => \A s \in Requests : ~Marking(s, c, m)
    <3>1. missed' = missed \cup {<<c, req[s].m>> : s \in Reading(c, req[r].m)}
      BY <1>1 DEF BeginAppend
    <3>2. ASSUME req[r].m # m, NEW s \in Requests, Marking(s, c, m)
          PROVE  FALSE
      <4>1. s \in Reading(c, req[r].m) /\ req[s].m = m
        BY <3>2 DEF Marking, Reading, With
      <4> QED
        BY <3>1, <4>1
    <3> QED
      BY <1>1, <3>2, GotoIs DEF BeginAppend, tables
  <2>4. Of(c)' = Of(c)
    BY <2>3 DEF Of
  <2>5. \A s \in Requests : Marking(s, c, m)' => s # r /\ Marking(s, c, m)
    BY <2>2, <2>3 DEF Marking
  <2>6. \A s \in Requests : s # r => (Writing(s, c)' <=> Writing(s, c))
    BY <2>3 DEF Writing
  <2>7. ASSUME NEW q \in Requests, Marking(q, c, m)'
        PROVE  \A s \in Requests : Writing(s, c)' => req'[s].m = m
    BY <1>0, <2>2, <2>3, <2>5, <2>6, <2>7 DEF CalmReader
  <2>8. ASSUME NEW s \in Requests, Writing(s, c)', req'[s].m # m
        PROVE  readAt'[<<c, m>>] < req'[s].at
    BY <1>0, <1>t, <2>2, <2>3, <2>6, <2>8 DEF CalmReader
  <2> QED
    BY <1>0, <2>3, <2>4, <2>5, <2>7, <2>8 DEF CalmReader
\* A message is committed.
<1>2. ASSUME NEW r \in Requests, CommitAppend(r), req[r].c = c
      PROVE  CalmReader(c, m)'
  <2>1. /\ Writing(r, c) /\ req[r].at \in Nat
        /\ msgs' = msgs \cup {[conv |-> c, from |-> req[r].m, at |-> req[r].at]}
        /\ req'[r] = Idle /\ \A s \in Requests : s # r => req'[s] = req[s]
        /\ UNCHANGED <<readAt, shown>>
    BY <1>2, GotoIs, Knows DEF CommitAppend, Done, Writing, history, Times
  <2>2. ASSUME NEW x \in Of(c)'
        PROVE  x \in Of(c) \/ (x.at = req[r].at /\ x.from = req[r].m)
    BY <2>1, <2>2 DEF Of
  <2>3. \A s \in Requests : (Marking(s, c, m)' => Marking(s, c, m)) /\ (Writing(s, c)' => s # r /\ Writing(s, c))
    BY <2>1 DEF Marking, Writing, Idle
  <2>4. ASSUME NEW q \in Requests, Marking(q, c, m)'
        PROVE  /\ \A x \in Of(c)' : x.from # m => <<x, m>> \in shown'
               /\ \A s \in Requests : Writing(s, c)' => req'[s].m = m
    <3>1. req[r].m = m
      BY <1>0, <2>1, <2>3, <2>4 DEF CalmReader
    <3> QED
      BY <1>0, <2>1, <2>2, <2>3, <2>4, <3>1 DEF CalmReader
  <2>5. \A s \in Requests : Writing(s, c)' /\ req'[s].m # m => readAt'[<<c, m>>] < req'[s].at
    BY <1>0, <2>1, <2>3 DEF CalmReader
  <2>6. ASSUME NEW x \in Of(c)', x.from # m, x.at <= readAt'[<<c, m>>]
        PROVE  <<x, m>> \in shown'
    <3>1. CASE x \in Of(c)
      BY <1>0, <2>1, <2>6, <3>1 DEF CalmReader
    <3>2. CASE x.at = req[r].at /\ x.from = req[r].m
      <4>1. mark < req[r].at
        BY <1>0, <2>1, <2>6, <3>2 DEF CalmReader
      <4>2. req[r].at <= mark
        BY <2>1, <2>6, <3>2
      <4> QED
        BY <1>t, <2>1, <4>1, <4>2
    <3> QED
      BY <2>2, <2>6, <3>1, <3>2
  <2> QED
    BY <2>4, <2>5, <2>6 DEF CalmReader
\* A conversation begins: nobody is in it, and nothing of it was read.
<1>3. ASSUME NEW r \in Requests, CommitStart(r, c)
      PROVE  CalmReader(c, m)'
  <2>1. /\ req[r].pc = "start" /\ convs[c] = Nobody /\ req[r].at \in Times
        /\ msgs' = msgs \cup {[conv |-> c, from |-> req[r].m, at |-> req[r].at]}
        /\ req'[r] = Idle /\ \A s \in Requests : s # r => req'[s] = req[s]
        /\ UNCHANGED readAt
    BY <1>3, GotoIs, Knows DEF CommitStart, Done
  <2>2. \A s \in Requests : ~Writing(s, c)' /\ ~Marking(s, c, m)'
    BY <2>1 DEF Writing, Marking, Here, Idle
  <2>3. ASSUME NEW x \in Of(c)'
        PROVE  ~(x.at <= readAt'[<<c, m>>])
    <3>1. x.at = req[r].at
      <4>1. x \notin msgs
        BY <2>1, <2>3, NoMessages DEF Of
      <4> QED
        BY <2>1, <2>3, <4>1 DEF Of
    <3>2. readAt'[<<c, m>>] = 0
      BY <2>1 DEF InTime
    <3> QED
      BY <2>1, <3>1, <3>2 DEF Times
  <2> QED
    BY <2>2, <2>3 DEF CalmReader
\* A page is read: nobody else is writing.
<1>4. ASSUME NEW r \in Requests, ReadPage(r), req[r].c = c, req[r].m = m
      PROVE  CalmReader(c, m)'
  <2>0. PICK before \in Cursors(c) :
            /\ shown' = shown \cup (Page(c, before) \X {m})
            /\ missed' = IF \/ Unseen(c, m, Page(c, before)) # {}
                            \/ \E s \in With("append") : req[s].c = c /\ req[s].m # m
                         THEN missed \cup {<<c, m>>} ELSE missed
    BY <1>4 DEF ReadPage
  <2>1. /\ UNCHANGED <<msgs, readAt>> /\ \A s \in Requests : s # r => req'[s] = req[s]
        /\ \A s \in Requests : Writing(s, c) => req[s].m = m
    BY <1>4, <2>0, GotoIs DEF ReadPage, tables, Writing, With
  <2>2. req'[r].pc # "append"
    <3>1. req'[r] = [pc |-> "mark", m |-> req[r].m, c |-> req[r].c]
      BY <1>4, GotoIs, PageToMark DEF ReadPage
    <3> QED
      BY <3>1
  <2>3. \A s \in Requests : Writing(s, c)' => s # r /\ Writing(s, c) /\ req'[s] = req[s]
    BY <2>1, <2>2 DEF Writing
  <2>4. Of(c)' = Of(c)
    BY <2>1 DEF Of
  <2>5. \A x \in Of(c)' : x.from # m => <<x, m>> \in shown'
    <3>1. Unseen(c, m, Page(c, before)) = {}
      BY <2>0
    <3> QED
      BY <2>0, <2>4, <3>1 DEF Unseen
  <2>6. \A s \in Requests : Writing(s, c)' => req'[s].m = m
    BY <2>1, <2>3
  <2> QED
    BY <2>5, <2>6 DEF CalmReader
\* The mark: everything there was seen.
<1>5. ASSUME NEW r \in Requests, MarkRead(r), Marking(r, c, m)
      PROVE  CalmReader(c, m)'
  <2>1. /\ UNCHANGED msgs /\ \A s \in Requests : s # r => req'[s] = req[s]
        /\ req'[r] = Idle
    BY <1>5, GotoIs DEF MarkRead, Done
  <2>2. \A s \in Requests : (Marking(s, c, m)' => Marking(s, c, m))
                            /\ (Writing(s, c)' => Writing(s, c) /\ req'[s] = req[s])
    BY <2>1 DEF Marking, Writing, Idle
  <2>3. \A x \in Of(c)' : x.from # m => <<x, m>> \in shown'
    <3>1. Of(c)' = Of(c)
      BY <2>1 DEF Of
    <3> QED
      BY <1>0, <1>5, <3>1 DEF CalmReader
  <2>4. \A s \in Requests : Writing(s, c)' => req'[s].m = m
    BY <1>0, <1>5, <2>2 DEF CalmReader
  <2> QED
    BY <2>3, <2>4 DEF CalmReader
\* Nothing that concerns this reader.
<1>6. ASSUME ~\E r \in Requests : BeginAppend(r) /\ req[r].c = c,
             ~\E r \in Requests : CommitAppend(r) /\ req[r].c = c,
             ~\E r \in Requests : CommitStart(r, c),
             ~\E r \in Requests : ReadPage(r) /\ req[r].c = c /\ req[r].m = m,
             ~\E r \in Requests : MarkRead(r) /\ Marking(r, c, m)
      PROVE  CalmReader(c, m)'
  <2>1. \A s \in Requests : Writing(s, c)' => Writing(s, c) /\ req'[s] = req[s]
    BY <1>6, CameFrom DEF Writing
  <2>2. \A s \in Requests : Marking(s, c, m)' => Marking(s, c, m)
    BY <1>6, CameFrom DEF Marking
  <2>3. Of(c)' = Of(c)
    BY <1>6, MessagesStay
  <2>4. readAt'[<<c, m>>] = readAt[<<c, m>>]
    BY <1>6, MarksMove
  <2> QED
    BY <1>0, <2>1, <2>2, <2>3, <2>4 DEF CalmReader
<1> QED
  BY <1>1, <1>2, <1>3, <1>4, <1>5, <1>6

-----------------------------------------------------------------------------
THEOREM Invariance == Spec => []IInv
<1>1. Init => IInv
  <2> SUFFICES ASSUME Init PROVE IInv
    OBVIOUS
  <2>1. TypeOK
    BY MessagingBound DEF Init, TypeOK, Handling
  <2>2. \A r \in Requests : req[r].pc = "idle"
    BY DEF Init, Idle
  <2>3. Here /\ InTime
    BY <2>2 DEF Init, Here, InTime
  <2>4. StartInv
    BY <2>2, RealInquirers DEF Init, StartInv, OneStart, Starting, Nobody
  <2>5. WriterInv
    BY <2>2 DEF Init, WriterInv, OneWriter, Writing, Of
  <2>6. ReaderInv
    BY <2>2 DEF Init, ReaderInv, CalmReader, Writing, Marking, Of
  <2> QED
    BY <2>1, <2>3, <2>4, <2>5, <2>6 DEF IInv
<1>2. IInv /\ [Next]_vars => IInv'
  BY TypeStep, HereStep, InTimeStep, StartStep, WriterStep, ReaderStep DEF IInv
<1> QED
  BY <1>1, <1>2, PTL DEF Spec

(* Types; and a message is only ever by someone who takes part in its
   conversation, whatever requests are sent for it.                      *)
THEOREM TypeCorrect == Spec => []TypeOK
BY Invariance, PTL DEF IInv

(* A member has one conversation about the listing, unless two inquiries of
   theirs were under way before either had begun one.                      *)
THEOREM OneThreadTheorem == Spec => []OneThreadUnlessRaced
<1>1. IInv => OneThreadUnlessRaced
  BY DEF IInv, StartInv, OneStart, OneThreadUnlessRaced, TypeOK
<1> QED
  BY <1>1, Invariance, PTL

(* The inbox's key is not before a message to the millisecond, whatever the
   length of one, for every conversation that no two messages were written to
   at once.                                                                   *)
THEOREM InboxTheorem == Spec => []InboxFollowsMessages
<1>1. IInv => InboxFollowsMessages
  BY DEF IInv, WriterInv, OneWriter, InboxFollowsMessages
<1> QED
  BY <1>1, Invariance, PTL

(* Nobody's unread mark goes without the message having been shown, unless
   it was being written while they read.                                   *)
THEOREM ReadTheorem == Spec => []ReadMeansShown
<1>1. IInv => ReadMeansShown
  <2> SUFFICES ASSUME IInv, NEW x \in msgs, NEW m \in Participants(x.conv), m # x.from,
                      x.at <= readAt[<<x.conv, m>>], <<x.conv, m>> \notin missed
               PROVE  <<x, m>> \in shown
    BY DEF ReadMeansShown
  <2>1. x.conv \in Conversations /\ x \in Of(x.conv)
    BY DEF IInv, TypeOK, Message, Of
  <2>2. m \in Everyone
    BY <2>1 DEF IInv, TypeOK, Participants, Everyone
  <2> QED
    BY <2>1, <2>2 DEF IInv, ReaderInv, CalmReader
<1> QED
  BY <1>1, Invariance, PTL
=============================================================================
