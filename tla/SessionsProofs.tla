--------------------------- MODULE SessionsProofs ---------------------------
(***************************************************************************)
(* Proofs about Sessions, for any number of accounts, sessions, tokens,    *)
(* requests and crashes.                                                   *)
(*                                                                         *)
(* What makes rotation safe is the lock on the token presented: while a    *)
(* request holds it the token stays the one unused token of its session,   *)
(* and a revocation, which needs every token of the lineage, waits.  What  *)
(* makes a revocation safe is that a request about to delete a lineage     *)
(* has locked its session, unless the session is over already.             *)
(***************************************************************************)
EXTENDS Sessions, FiniteSetTheorems, TLAPS

\* A token that is kept belongs to a session.
Owned == \A t \in Tokens :
    token[t] \in Kept => of[t] \in SessionIds /\ session[of[t]] # "none"

\* What a request is about is known to it.
Known == \A r \in Requests :
    /\ pc[r] \in {"supersede", "start"} => acct[r] \in Accounts
    /\ pc[r] \in {"present", "rotate", "revoke", "delete"} =>
          sid[r] \in SessionIds /\ session[sid[r]] # "none"
    /\ pc[r] \in {"present", "rotate"} =>
          tok[r] \in Tokens /\ of[tok[r]] = sid[r] /\ token[tok[r]] # "none"

\* What a request has locked, step by step, and what it may rely on.
Holds == \A r \in Requests :
    /\ pc[r] \in {"idle", "supersede", "present", "revokeAll"} => locked[r] = {}
    /\ pc[r] = "start" => locked[r] \subseteq SessionIds
    /\ pc[r] = "rotate" => tok[r] \in locked[r] /\ token[tok[r]] \in Unused
    /\ pc[r] \in {"rotate", "revoke"} => locked[r] \cap SessionIds = {}
    /\ pc[r] = "delete" =>
          /\ locked[r] \cap SessionIds \subseteq {sid[r]}
          /\ session[sid[r]] = "live" => sid[r] \in locked[r]

\* A row is locked by one request at a time.
OneHolder == \A r, q \in Requests : r # q => locked[r] \cap locked[q] = {}

\* A session has one unused token at most, and while it lives it has one.
OneUnused == \A t, u \in Tokens :
    token[t] \in Unused /\ token[u] \in Unused /\ of[t] = of[u] => t = u
LiveHasUnused == \A s \in SessionIds :
    session[s] = "live" => \E t \in Tokens : of[t] = s /\ token[t] \in Unused

\* An account has one live session at most.
OneLive == \A s, u \in SessionIds :
    session[s] = "live" /\ session[u] = "live" /\ account[s] = account[u] => s = u

Locks == Owned /\ Known /\ Holds /\ OneHolder
OfTokens == OneUnused /\ LiveHasUnused /\ DeadLineage
IInv == TypeOK /\ Locks /\ OfTokens /\ OneLive

\* The ways a request ends with nothing written.
GivesUp(r) == SignInConflict(r) \/ RefuseToken(r) \/ DeadlockVictim(r) \/ Crash(r)

\* The writes of a sign-in and of a rotation, with the new ids named.
Starts(r, s, t) ==
    /\ pc[r] = "start" /\ LiveOf(acct[r]) \subseteq locked[r]
    /\ session[s] = "none" /\ token[t] = "none"
    /\ session' = [Superseded(r) EXCEPT ![s] = "live"]
    /\ account' = [account EXCEPT ![s] = acct[r]]
    /\ token' = [token EXCEPT ![t] = "fresh"]
    /\ of' = [of EXCEPT ![t] = s]
    /\ End(r)
    /\ UNCHANGED crashes

Rotates(r, t) ==
    /\ pc[r] = "rotate" /\ Free(r) /\ token[t] = "none"
    /\ token' = [token EXCEPT ![tok[r]] = "consumed", ![t] = "fresh"]
    /\ of' = [of EXCEPT ![t] = sid[r]]
    /\ End(r)
    /\ UNCHANGED <<sessions, crashes>>

USE DEF Unused, Kept, RevokedReasons, Steps, OrNone

-----------------------------------------------------------------------------
(* Types, owners and locks. *)

\* The ids a sign-in and a rotation take are new.
LEMMA StartDoes ==
    ASSUME NEW r \in Requests, StartSession(r)
    PROVE  \E s \in SessionIds, t \in Tokens : Starts(r, s, t)
BY DEF StartSession, Starts, Left, New

LEMMA RotateDoes ==
    ASSUME NEW r \in Requests, Rotate(r)
    PROVE  \E t \in Tokens : Rotates(r, t)
BY DEF Rotate, Rotates, Left, New

\* Every column and local keeps its type.
LEMMA TypesPreserved == TypeOK /\ Known /\ [Next]_vars => TypeOK'
<1> SUFFICES ASSUME TypeOK, Known, [Next]_vars PROVE TypeOK'
  OBVIOUS
<1> USE SessionsAssumption DEF TypeOK, Known, End, LiveOf, vars, sessions, tokens, locals, Goto
<1>1. CASE UNCHANGED vars
  BY <1>1
<1>2. ASSUME NEW r \in Requests, NEW a \in Accounts, SignIn(r, a) PROVE TypeOK'
  BY <1>2 DEF SignIn
<1>3. ASSUME NEW r \in Requests, NEW a \in Accounts, ResetPassword(r, a) PROVE TypeOK'
  BY <1>3 DEF ResetPassword
<1>4. ASSUME NEW r \in Requests, NEW t \in Tokens, Present(r, t) PROVE TypeOK'
  BY <1>4 DEF Present
<1>5. ASSUME NEW r \in Requests, NEW s \in SessionIds, SignOut(r, s) PROVE TypeOK'
  BY <1>5 DEF SignOut
<1>6. ASSUME NEW r \in Requests, Supersede(r) PROVE TypeOK'
  BY <1>6 DEF Supersede
<1>7. ASSUME NEW r \in Requests, NEW s \in SessionIds, NEW t \in Tokens, Starts(r, s, t) PROVE TypeOK'
  BY <1>7 DEF Starts, Superseded, End, LiveOf
<1>8. ASSUME NEW r \in Requests, LockToken(r) PROVE TypeOK'
  BY <1>8 DEF LockToken, Verdict
<1>9. ASSUME NEW r \in Requests, NEW t \in Tokens, Rotates(r, t) PROVE TypeOK'
  BY <1>9 DEF Rotates, End
<1>10. ASSUME NEW r \in Requests, Revoke(r) PROVE TypeOK'
  BY <1>10 DEF Revoke
<1>11. ASSUME NEW r \in Requests, RevokeAll(r) PROVE TypeOK'
  <2> DEFINE ids == {s \in rows[r] : session[s] = "live"}
             one == CHOOSE s \in ids : TRUE
  <2>1. session' \in [SessionIds -> {"none", "live"} \cup RevokedReasons]
    BY <1>11 DEF RevokeAll
  <2>2. CASE ids = {}
    BY <1>11, <2>1, <2>2 DEF RevokeAll
  <2>3. CASE ids # {}
    <3>1. one \in SessionIds
      BY <2>3
    <3>2. /\ pc' = [pc EXCEPT ![r] = "delete"]
          /\ sid' = [sid EXCEPT ![r] = one]
          /\ UNCHANGED <<acct, tok, rows, locked, account, token, of, crashes>>
      BY <1>11, <2>3 DEF RevokeAll
    <3> QED
      BY <2>1, <3>1, <3>2
  <2> QED
    BY <2>2, <2>3
<1>12. ASSUME NEW r \in Requests, Purge(r) PROVE TypeOK'
  BY <1>12 DEF Purge
<1>13. ASSUME NEW r \in Requests, GivesUp(r) PROVE TypeOK'
  BY <1>13 DEF GivesUp, SignInConflict, RefuseToken, DeadlockVictim, Crash, End
<1>14. ASSUME NEW t \in Tokens, Lapse(t) PROVE TypeOK'
  BY <1>14 DEF Lapse
<1>15. CASE ExpireSessions
  BY <1>15 DEF ExpireSessions
<1> QED
  BY <1>1, <1>2, <1>3, <1>4, <1>5, <1>6, <1>7, <1>8, <1>9, <1>10, <1>11, <1>12, <1>13, <1>14, <1>15,
     StartDoes, RotateDoes DEF Next, Start, Step, GivesUp

\* No step leaves a token without its session.
LEMMA OwnersPreserved == TypeOK /\ Owned /\ Known /\ [Next]_vars => Owned'
<1> SUFFICES ASSUME TypeOK, Owned, Known, [Next]_vars PROVE Owned'
  OBVIOUS
<1> USE SessionsAssumption DEF TypeOK, Owned, Known, vars, sessions, tokens, locals, Goto
<1>1. CASE UNCHANGED vars
  BY <1>1
<1>2. ASSUME NEW r \in Requests, NEW a \in Accounts, SignIn(r, a) PROVE Owned'
  BY <1>2 DEF SignIn
<1>3. ASSUME NEW r \in Requests, NEW a \in Accounts, ResetPassword(r, a) PROVE Owned'
  BY <1>3 DEF ResetPassword
<1>4. ASSUME NEW r \in Requests, NEW t \in Tokens, Present(r, t) PROVE Owned'
  BY <1>4 DEF Present
<1>5. ASSUME NEW r \in Requests, NEW s \in SessionIds, SignOut(r, s) PROVE Owned'
  BY <1>5 DEF SignOut
<1>6. ASSUME NEW r \in Requests, Supersede(r) PROVE Owned'
  BY <1>6 DEF Supersede
<1>7. ASSUME NEW r \in Requests, NEW s \in SessionIds, NEW t \in Tokens, Starts(r, s, t) PROVE Owned'
  BY <1>7 DEF Starts, Superseded, End, LiveOf
<1>8. ASSUME NEW r \in Requests, LockToken(r) PROVE Owned'
  BY <1>8 DEF LockToken
<1>9. ASSUME NEW r \in Requests, NEW t \in Tokens, Rotates(r, t) PROVE Owned'
  BY <1>9 DEF Rotates, End
<1>10. ASSUME NEW r \in Requests, Revoke(r) PROVE Owned'
  BY <1>10 DEF Revoke
<1>11. ASSUME NEW r \in Requests, RevokeAll(r) PROVE Owned'
  BY <1>11 DEF RevokeAll
<1>12. ASSUME NEW r \in Requests, Purge(r) PROVE Owned'
  BY <1>12 DEF Purge
<1>13. ASSUME NEW r \in Requests, GivesUp(r) PROVE Owned'
  BY <1>13 DEF GivesUp, SignInConflict, RefuseToken, DeadlockVictim, Crash, End
<1>14. ASSUME NEW t \in Tokens, Lapse(t) PROVE Owned'
  BY <1>14 DEF Lapse
<1>15. CASE ExpireSessions
  BY <1>15 DEF ExpireSessions
<1> QED
  BY <1>1, <1>2, <1>3, <1>4, <1>5, <1>6, <1>7, <1>8, <1>9, <1>10, <1>11, <1>12, <1>13, <1>14, <1>15,
     StartDoes, RotateDoes DEF Next, Start, Step, GivesUp

\* A request goes on with a session and a token that exist.
LEMMA KnownPreserved == TypeOK /\ Owned /\ Known /\ [Next]_vars => Known'
<1> SUFFICES ASSUME TypeOK, Owned, Known, [Next]_vars PROVE Known'
  OBVIOUS
<1> USE SessionsAssumption DEF TypeOK, Owned, Known, End, LiveOf, vars, sessions, tokens, locals, Goto
<1>1. CASE UNCHANGED vars
  BY <1>1
<1>2. ASSUME NEW r \in Requests, NEW a \in Accounts, SignIn(r, a) PROVE Known'
  BY <1>2 DEF SignIn
<1>3. ASSUME NEW r \in Requests, NEW a \in Accounts, ResetPassword(r, a) PROVE Known'
  BY <1>3 DEF ResetPassword
<1>4. ASSUME NEW r \in Requests, NEW t \in Tokens, Present(r, t) PROVE Known'
  BY <1>4 DEF Present
<1>5. ASSUME NEW r \in Requests, NEW s \in SessionIds, SignOut(r, s) PROVE Known'
  BY <1>5 DEF SignOut
<1>6. ASSUME NEW r \in Requests, Supersede(r) PROVE Known'
  BY <1>6 DEF Supersede
<1>7. ASSUME NEW r \in Requests, NEW s \in SessionIds, NEW t \in Tokens, Starts(r, s, t) PROVE Known'
  BY <1>7 DEF Starts, Superseded, End, LiveOf
<1>8. ASSUME NEW r \in Requests, LockToken(r) PROVE Known'
  BY <1>8 DEF LockToken, Verdict
<1>9. ASSUME NEW r \in Requests, NEW t \in Tokens, Rotates(r, t) PROVE Known'
  BY <1>9 DEF Rotates, End
<1>10. ASSUME NEW r \in Requests, Revoke(r) PROVE Known'
  BY <1>10 DEF Revoke
<1>11. ASSUME NEW r \in Requests, RevokeAll(r) PROVE Known'
  BY <1>11 DEF RevokeAll
<1>12. ASSUME NEW r \in Requests, Purge(r) PROVE Known'
  BY <1>12 DEF Purge
<1>13. ASSUME NEW r \in Requests, GivesUp(r) PROVE Known'
  BY <1>13 DEF GivesUp, SignInConflict, RefuseToken, DeadlockVictim, Crash, End
<1>14. ASSUME NEW t \in Tokens, Lapse(t) PROVE Known'
  BY <1>14 DEF Lapse
<1>15. CASE ExpireSessions
  BY <1>15 DEF ExpireSessions
<1> QED
  BY <1>1, <1>2, <1>3, <1>4, <1>5, <1>6, <1>7, <1>8, <1>9, <1>10, <1>11, <1>12, <1>13, <1>14, <1>15,
     StartDoes, RotateDoes DEF Next, Start, Step, GivesUp

\* A row that is locked is not locked again.
LEMMA HoldersPreserved == TypeOK /\ Known /\ Holds /\ OneHolder /\ [Next]_vars => OneHolder'
<1> SUFFICES ASSUME TypeOK, Known, Holds, OneHolder, [Next]_vars PROVE OneHolder'
  OBVIOUS
<1> USE SessionsAssumption DEF TypeOK, Known, Holds, OneHolder, Free, Needs, End, vars, sessions, tokens, locals, Goto
<1>1. CASE UNCHANGED vars
  BY <1>1
<1>2. ASSUME NEW r \in Requests, NEW a \in Accounts, SignIn(r, a) PROVE OneHolder'
  BY <1>2 DEF SignIn
<1>3. ASSUME NEW r \in Requests, NEW a \in Accounts, ResetPassword(r, a) PROVE OneHolder'
  BY <1>3 DEF ResetPassword
<1>4. ASSUME NEW r \in Requests, NEW t \in Tokens, Present(r, t) PROVE OneHolder'
  BY <1>4 DEF Present
<1>5. ASSUME NEW r \in Requests, NEW s \in SessionIds, SignOut(r, s) PROVE OneHolder'
  BY <1>5 DEF SignOut
<1>6. ASSUME NEW r \in Requests, Supersede(r) PROVE OneHolder'
  BY <1>6 DEF Supersede
<1>7. ASSUME NEW r \in Requests, NEW s \in SessionIds, NEW t \in Tokens, Starts(r, s, t) PROVE OneHolder'
  BY <1>7 DEF Starts, Superseded, End, LiveOf
<1>8. ASSUME NEW r \in Requests, LockToken(r) PROVE OneHolder'
  BY <1>8 DEF LockToken
<1>9. ASSUME NEW r \in Requests, NEW t \in Tokens, Rotates(r, t) PROVE OneHolder'
  BY <1>9 DEF Rotates, End
<1>10. ASSUME NEW r \in Requests, Revoke(r) PROVE OneHolder'
  BY <1>10 DEF Revoke
<1>11. ASSUME NEW r \in Requests, RevokeAll(r) PROVE OneHolder'
  BY <1>11 DEF RevokeAll
<1>12. ASSUME NEW r \in Requests, Purge(r) PROVE OneHolder'
  BY <1>12 DEF Purge
<1>13. ASSUME NEW r \in Requests, GivesUp(r) PROVE OneHolder'
  BY <1>13 DEF GivesUp, SignInConflict, RefuseToken, DeadlockVictim, Crash, End
<1>14. ASSUME NEW t \in Tokens, Lapse(t) PROVE OneHolder'
  BY <1>14 DEF Lapse
<1>15. CASE ExpireSessions
  BY <1>15 DEF ExpireSessions
<1> QED
  BY <1>1, <1>2, <1>3, <1>4, <1>5, <1>6, <1>7, <1>8, <1>9, <1>10, <1>11, <1>12, <1>13, <1>14, <1>15,
     StartDoes, RotateDoes DEF Next, Start, Step, GivesUp

\* What a request relies on stays true while it holds its locks.
LEMMA HoldsPreserved == TypeOK /\ Owned /\ Known /\ Holds /\ OneHolder /\ [Next]_vars => Holds'
<1> SUFFICES ASSUME TypeOK, Owned, Known, Holds, OneHolder, [Next]_vars PROVE Holds'
  OBVIOUS
<1> USE SessionsAssumption DEF TypeOK, Owned, Known, Holds, OneHolder, Free, Needs, End, LiveOf, vars, sessions, tokens, locals, Goto
<1>1. CASE UNCHANGED vars
  BY <1>1
<1>2. ASSUME NEW r \in Requests, NEW a \in Accounts, SignIn(r, a) PROVE Holds'
  BY <1>2 DEF SignIn
<1>3. ASSUME NEW r \in Requests, NEW a \in Accounts, ResetPassword(r, a) PROVE Holds'
  BY <1>3 DEF ResetPassword
<1>4. ASSUME NEW r \in Requests, NEW t \in Tokens, Present(r, t) PROVE Holds'
  BY <1>4 DEF Present
<1>5. ASSUME NEW r \in Requests, NEW s \in SessionIds, SignOut(r, s) PROVE Holds'
  BY <1>5 DEF SignOut
<1>6. ASSUME NEW r \in Requests, Supersede(r) PROVE Holds'
  BY <1>6 DEF Supersede
<1>7. ASSUME NEW r \in Requests, NEW s \in SessionIds, NEW t \in Tokens, Starts(r, s, t) PROVE Holds'
  BY <1>7 DEF Starts, Superseded, End, LiveOf
<1>8. ASSUME NEW r \in Requests, LockToken(r) PROVE Holds'
  BY <1>8 DEF LockToken, Verdict
<1>9. ASSUME NEW r \in Requests, NEW t \in Tokens, Rotates(r, t) PROVE Holds'
  BY <1>9 DEF Rotates, End
<1>10. ASSUME NEW r \in Requests, Revoke(r) PROVE Holds'
  BY <1>10 DEF Revoke
<1>11. ASSUME NEW r \in Requests, RevokeAll(r) PROVE Holds'
  BY <1>11 DEF RevokeAll
<1>12. ASSUME NEW r \in Requests, Purge(r) PROVE Holds'
  BY <1>12 DEF Purge, TokensOf
<1>13. ASSUME NEW r \in Requests, GivesUp(r) PROVE Holds'
  BY <1>13 DEF GivesUp, SignInConflict, RefuseToken, DeadlockVictim, Crash, End
<1>14. ASSUME NEW t \in Tokens, Lapse(t) PROVE Holds'
  BY <1>14 DEF Lapse
<1>15. CASE ExpireSessions
  BY <1>15 DEF ExpireSessions
<1> QED
  BY <1>1, <1>2, <1>3, <1>4, <1>5, <1>6, <1>7, <1>8, <1>9, <1>10, <1>11, <1>12, <1>13, <1>14, <1>15,
     StartDoes, RotateDoes DEF Next, Start, Step, GivesUp

-----------------------------------------------------------------------------
(* The lineage of a session, and the session of an account. *)

\* Rotation and sign-in leave a session with one unused token.
LEMMA OneUnusedPreserved == TypeOK /\ Owned /\ Known /\ Holds /\ OneUnused /\ [Next]_vars => OneUnused'
<1> SUFFICES ASSUME TypeOK, Owned, Known, Holds, OneUnused, [Next]_vars PROVE OneUnused'
  OBVIOUS
<1> USE SessionsAssumption DEF TypeOK, Owned, Known, Holds, OneUnused, vars, sessions, tokens, locals, Goto
<1>1. CASE UNCHANGED vars
  BY <1>1
<1>2. ASSUME NEW r \in Requests, NEW a \in Accounts, SignIn(r, a) PROVE OneUnused'
  BY <1>2 DEF SignIn
<1>3. ASSUME NEW r \in Requests, NEW a \in Accounts, ResetPassword(r, a) PROVE OneUnused'
  BY <1>3 DEF ResetPassword
<1>4. ASSUME NEW r \in Requests, NEW t \in Tokens, Present(r, t) PROVE OneUnused'
  BY <1>4 DEF Present
<1>5. ASSUME NEW r \in Requests, NEW s \in SessionIds, SignOut(r, s) PROVE OneUnused'
  BY <1>5 DEF SignOut
<1>6. ASSUME NEW r \in Requests, Supersede(r) PROVE OneUnused'
  BY <1>6 DEF Supersede
<1>7. ASSUME NEW r \in Requests, NEW s \in SessionIds, NEW t \in Tokens, Starts(r, s, t) PROVE OneUnused'
  BY <1>7 DEF Starts, Superseded, End, LiveOf
<1>8. ASSUME NEW r \in Requests, LockToken(r) PROVE OneUnused'
  BY <1>8 DEF LockToken
<1>9. ASSUME NEW r \in Requests, NEW t \in Tokens, Rotates(r, t) PROVE OneUnused'
  BY <1>9 DEF Rotates, End
<1>10. ASSUME NEW r \in Requests, Revoke(r) PROVE OneUnused'
  BY <1>10 DEF Revoke
<1>11. ASSUME NEW r \in Requests, RevokeAll(r) PROVE OneUnused'
  BY <1>11 DEF RevokeAll
<1>12. ASSUME NEW r \in Requests, Purge(r) PROVE OneUnused'
  BY <1>12 DEF Purge
<1>13. ASSUME NEW r \in Requests, GivesUp(r) PROVE OneUnused'
  BY <1>13 DEF GivesUp, SignInConflict, RefuseToken, DeadlockVictim, Crash, End
<1>14. ASSUME NEW t \in Tokens, Lapse(t) PROVE OneUnused'
  BY <1>14 DEF Lapse
<1>15. CASE ExpireSessions
  BY <1>15 DEF ExpireSessions
<1> QED
  BY <1>1, <1>2, <1>3, <1>4, <1>5, <1>6, <1>7, <1>8, <1>9, <1>10, <1>11, <1>12, <1>13, <1>14, <1>15,
     StartDoes, RotateDoes DEF Next, Start, Step, GivesUp

\* No revocation takes the token of a session it leaves alive.
LEMMA LiveHasUnusedPreserved == TypeOK /\ Owned /\ Known /\ Holds /\ OneHolder /\ LiveHasUnused /\ [Next]_vars => LiveHasUnused'
<1> SUFFICES ASSUME TypeOK, Owned, Known, Holds, OneHolder, LiveHasUnused, [Next]_vars PROVE LiveHasUnused'
  OBVIOUS
<1> USE SessionsAssumption DEF TypeOK, Owned, Known, Holds, OneHolder, LiveHasUnused, vars, sessions, tokens, locals, Goto
<1>1. CASE UNCHANGED vars
  BY <1>1
<1>2. ASSUME NEW r \in Requests, NEW a \in Accounts, SignIn(r, a) PROVE LiveHasUnused'
  BY <1>2 DEF SignIn
<1>3. ASSUME NEW r \in Requests, NEW a \in Accounts, ResetPassword(r, a) PROVE LiveHasUnused'
  BY <1>3 DEF ResetPassword
<1>4. ASSUME NEW r \in Requests, NEW t \in Tokens, Present(r, t) PROVE LiveHasUnused'
  BY <1>4 DEF Present
<1>5. ASSUME NEW r \in Requests, NEW s \in SessionIds, SignOut(r, s) PROVE LiveHasUnused'
  BY <1>5 DEF SignOut
<1>6. ASSUME NEW r \in Requests, Supersede(r) PROVE LiveHasUnused'
  BY <1>6 DEF Supersede
<1>7. ASSUME NEW r \in Requests, NEW s \in SessionIds, NEW t \in Tokens, Starts(r, s, t) PROVE LiveHasUnused'
  BY <1>7 DEF Starts, Superseded, End, LiveOf
<1>8. ASSUME NEW r \in Requests, LockToken(r) PROVE LiveHasUnused'
  BY <1>8 DEF LockToken
<1>9. ASSUME NEW r \in Requests, NEW t \in Tokens, Rotates(r, t) PROVE LiveHasUnused'
  BY <1>9 DEF Rotates, End
<1>10. ASSUME NEW r \in Requests, Revoke(r) PROVE LiveHasUnused'
  BY <1>10 DEF Revoke
<1>11. ASSUME NEW r \in Requests, RevokeAll(r) PROVE LiveHasUnused'
  BY <1>11 DEF RevokeAll
<1>12. ASSUME NEW r \in Requests, Purge(r) PROVE LiveHasUnused'
  BY <1>12 DEF Purge, TokensOf, Free, Needs
<1>13. ASSUME NEW r \in Requests, GivesUp(r) PROVE LiveHasUnused'
  BY <1>13 DEF GivesUp, SignInConflict, RefuseToken, DeadlockVictim, Crash, End
<1>14. ASSUME NEW t \in Tokens, Lapse(t) PROVE LiveHasUnused'
  BY <1>14 DEF Lapse
<1>15. CASE ExpireSessions
  BY <1>15 DEF ExpireSessions
<1> QED
  BY <1>1, <1>2, <1>3, <1>4, <1>5, <1>6, <1>7, <1>8, <1>9, <1>10, <1>11, <1>12, <1>13, <1>14, <1>15,
     StartDoes, RotateDoes DEF Next, Start, Step, GivesUp

\* A lineage that was deleted gets no successor.
LEMMA DeadLineagePreserved == TypeOK /\ Owned /\ Known /\ Holds /\ DeadLineage /\ [Next]_vars => DeadLineage'
<1> SUFFICES ASSUME TypeOK, Owned, Known, Holds, DeadLineage, [Next]_vars PROVE DeadLineage'
  OBVIOUS
<1> USE SessionsAssumption DEF TypeOK, Owned, Known, Holds, DeadLineage, TokensOf, vars, sessions, tokens, locals, Goto
<1>1. CASE UNCHANGED vars
  BY <1>1
<1>2. ASSUME NEW r \in Requests, NEW a \in Accounts, SignIn(r, a) PROVE DeadLineage'
  BY <1>2 DEF SignIn
<1>3. ASSUME NEW r \in Requests, NEW a \in Accounts, ResetPassword(r, a) PROVE DeadLineage'
  BY <1>3 DEF ResetPassword
<1>4. ASSUME NEW r \in Requests, NEW t \in Tokens, Present(r, t) PROVE DeadLineage'
  BY <1>4 DEF Present
<1>5. ASSUME NEW r \in Requests, NEW s \in SessionIds, SignOut(r, s) PROVE DeadLineage'
  BY <1>5 DEF SignOut
<1>6. ASSUME NEW r \in Requests, Supersede(r) PROVE DeadLineage'
  BY <1>6 DEF Supersede
<1>7. ASSUME NEW r \in Requests, NEW s \in SessionIds, NEW t \in Tokens, Starts(r, s, t) PROVE DeadLineage'
  BY <1>7 DEF Starts, Superseded, End, LiveOf
<1>8. ASSUME NEW r \in Requests, LockToken(r) PROVE DeadLineage'
  BY <1>8 DEF LockToken
<1>9. ASSUME NEW r \in Requests, NEW t \in Tokens, Rotates(r, t) PROVE DeadLineage'
  BY <1>9 DEF Rotates, End
<1>10. ASSUME NEW r \in Requests, Revoke(r) PROVE DeadLineage'
  BY <1>10 DEF Revoke
<1>11. ASSUME NEW r \in Requests, RevokeAll(r) PROVE DeadLineage'
  BY <1>11 DEF RevokeAll
<1>12. ASSUME NEW r \in Requests, Purge(r) PROVE DeadLineage'
  BY <1>12 DEF Purge
<1>13. ASSUME NEW r \in Requests, GivesUp(r) PROVE DeadLineage'
  BY <1>13 DEF GivesUp, SignInConflict, RefuseToken, DeadlockVictim, Crash, End
<1>14. ASSUME NEW t \in Tokens, Lapse(t) PROVE DeadLineage'
  BY <1>14 DEF Lapse
<1>15. CASE ExpireSessions
  BY <1>15 DEF ExpireSessions
<1> QED
  BY <1>1, <1>2, <1>3, <1>4, <1>5, <1>6, <1>7, <1>8, <1>9, <1>10, <1>11, <1>12, <1>13, <1>14, <1>15,
     StartDoes, RotateDoes DEF Next, Start, Step, GivesUp

\* A sign-in supersedes the live session, or fails.
LEMMA OneLivePreserved == TypeOK /\ Known /\ Holds /\ OneLive /\ [Next]_vars => OneLive'
<1> SUFFICES ASSUME TypeOK, Known, Holds, OneLive, [Next]_vars PROVE OneLive'
  OBVIOUS
<1> USE SessionsAssumption DEF TypeOK, Known, Holds, OneLive, vars, sessions, tokens, locals, Goto
<1>1. CASE UNCHANGED vars
  BY <1>1
<1>2. ASSUME NEW r \in Requests, NEW a \in Accounts, SignIn(r, a) PROVE OneLive'
  BY <1>2 DEF SignIn
<1>3. ASSUME NEW r \in Requests, NEW a \in Accounts, ResetPassword(r, a) PROVE OneLive'
  BY <1>3 DEF ResetPassword
<1>4. ASSUME NEW r \in Requests, NEW t \in Tokens, Present(r, t) PROVE OneLive'
  BY <1>4 DEF Present
<1>5. ASSUME NEW r \in Requests, NEW s \in SessionIds, SignOut(r, s) PROVE OneLive'
  BY <1>5 DEF SignOut
<1>6. ASSUME NEW r \in Requests, Supersede(r) PROVE OneLive'
  BY <1>6 DEF Supersede
<1>7. ASSUME NEW r \in Requests, NEW s \in SessionIds, NEW t \in Tokens, Starts(r, s, t) PROVE OneLive'
  BY <1>7 DEF Starts, Superseded, End, LiveOf
<1>8. ASSUME NEW r \in Requests, LockToken(r) PROVE OneLive'
  BY <1>8 DEF LockToken
<1>9. ASSUME NEW r \in Requests, NEW t \in Tokens, Rotates(r, t) PROVE OneLive'
  BY <1>9 DEF Rotates, End
<1>10. ASSUME NEW r \in Requests, Revoke(r) PROVE OneLive'
  BY <1>10 DEF Revoke
<1>11. ASSUME NEW r \in Requests, RevokeAll(r) PROVE OneLive'
  BY <1>11 DEF RevokeAll
<1>12. ASSUME NEW r \in Requests, Purge(r) PROVE OneLive'
  BY <1>12 DEF Purge
<1>13. ASSUME NEW r \in Requests, GivesUp(r) PROVE OneLive'
  BY <1>13 DEF GivesUp, SignInConflict, RefuseToken, DeadlockVictim, Crash, End
<1>14. ASSUME NEW t \in Tokens, Lapse(t) PROVE OneLive'
  BY <1>14 DEF Lapse
<1>15. CASE ExpireSessions
  BY <1>15 DEF ExpireSessions
<1> QED
  BY <1>1, <1>2, <1>3, <1>4, <1>5, <1>6, <1>7, <1>8, <1>9, <1>10, <1>11, <1>12, <1>13, <1>14, <1>15,
     StartDoes, RotateDoes DEF Next, Start, Step, GivesUp

-----------------------------------------------------------------------------
(* The theorems. *)

\* A set whose elements are all the same has one at most.
LEMMA AtMostOne ==
    ASSUME NEW S, \A x, y \in S : x = y
    PROVE  Cardinality(S) <= 1
<1>1. CASE S = {}
  BY <1>1, FS_EmptySet
<1>2. ASSUME NEW x \in S PROVE Cardinality(S) <= 1
  <2>1. S = {x}
    BY <1>2
  <2> QED
    BY <2>1, FS_Singleton
<1> QED
  BY <1>1, <1>2

\* One live session, counted.
LEMMA OneLiveCounted == OneLive => OneLiveSession
<1> SUFFICES ASSUME OneLive, NEW a \in Accounts PROVE Cardinality(LiveOf(a)) <= 1
  BY DEF OneLiveSession
<1>1. \A s, u \in LiveOf(a) : s = u
  BY DEF LiveOf, OneLive
<1> QED
  BY <1>1, AtMostOne

\* One unused token, counted.
LEMMA OneFreshCounted == OneUnused /\ LiveHasUnused => OneFreshToken
<1> SUFFICES ASSUME OneUnused, LiveHasUnused, NEW s \in SessionIds
             PROVE  LET fresh == {t \in Tokens : of[t] = s /\ token[t] \in Unused}
                    IN  Cardinality(fresh) <= 1 /\ (session[s] = "live" => fresh # {})
  BY DEF OneFreshToken
<1> DEFINE fresh == {t \in Tokens : of[t] = s /\ token[t] \in Unused}
<1>1. \A t, u \in fresh : t = u
  BY DEF OneUnused
<1>2. Cardinality(fresh) <= 1
  BY ONLY <1>1, AtMostOne
<1>3. session[s] = "live" => fresh # {}
  BY DEF LiveHasUnused
<1> QED
  BY <1>2, <1>3

\* The invariant holds initially.
LEMMA Initially == Init => IInv
<1> SUFFICES ASSUME Init PROVE IInv
  OBVIOUS
<1> USE SessionsAssumption DEF Init
<1>1. TypeOK
  BY DEF TypeOK
<1>2. Locks
  BY DEF Locks, Owned, Known, Holds, OneHolder
<1>3. OfTokens
  BY DEF OfTokens, OneUnused, LiveHasUnused, DeadLineage
<1>4. OneLive
  BY DEF OneLive
<1> QED
  BY <1>1, <1>2, <1>3, <1>4 DEF IInv

\* The inductive invariant.
THEOREM Invariance == Spec => []IInv
<1>1. IInv /\ [Next]_vars => IInv'
  BY TypesPreserved, OwnersPreserved, KnownPreserved, HoldsPreserved, HoldersPreserved,
     OneUnusedPreserved, LiveHasUnusedPreserved, DeadLineagePreserved, OneLivePreserved
     DEF IInv, Locks, OfTokens
<1> QED
  BY <1>1, Initially, PTL DEF Spec

\* Every column and local keeps its type, and the CHECK on revoked_reason holds.
THEOREM TypeCorrect == Spec => []TypeOK
BY Invariance, PTL DEF IInv

\* However sign-ins race, an account has one live session at most.
THEOREM OneLiveTheorem == Spec => []OneLiveSession
BY Invariance, OneLiveCounted, PTL DEF IInv

\* However often a token is presented, its session has one unused token at most,
\* and exactly one while it lives.
THEOREM OneFreshTheorem == Spec => []OneFreshToken
BY Invariance, OneFreshCounted, PTL DEF IInv, OfTokens

\* A session ended by sign-out or replay has no refresh token, now or later.
THEOREM DeadLineageTheorem == Spec => []DeadLineage
BY Invariance, PTL DEF IInv, OfTokens

\* An account has one live session at most, with exactly one token to rotate, and
\* an ended lineage has none.
THEOREM OneLineageTheorem == Spec => []OneLineage
BY OneLiveTheorem, OneFreshTheorem, DeadLineageTheorem, PTL DEF OneLineage

-----------------------------------------------------------------------------
(* The refinement.  Two facts make the writes of a transaction single moves of  *)
(* the lineage: what it holds locked is still live when it commits, and a reset *)
(* finds one session at most.                                                   *)

LockedStands == \A r \in Requests : \A s \in locked[r] \cap SessionIds :
    session[s] = "live" /\ (pc[r] = "start" => account[s] = acct[r])

ResetsOne == \A r \in Requests : pc[r] = "revokeAll" => \A s, u \in rows[r] : s = u

\* A locked session is only ended by who holds it.
LEMMA LockedPreserved ==
    TypeOK /\ Known /\ Holds /\ OneHolder /\ LockedStands /\ [Next]_vars => LockedStands'
<1> SUFFICES ASSUME TypeOK, Known, Holds, OneHolder, LockedStands, [Next]_vars PROVE LockedStands'
  OBVIOUS
<1> USE SessionsAssumption DEF TypeOK, Known, Holds, OneHolder, LockedStands, vars, sessions, tokens, locals, Goto
<1>1. CASE UNCHANGED vars
  BY <1>1
<1>2. ASSUME NEW r \in Requests, NEW a \in Accounts, SignIn(r, a) PROVE LockedStands'
  BY <1>2 DEF SignIn
<1>3. ASSUME NEW r \in Requests, NEW a \in Accounts, ResetPassword(r, a) PROVE LockedStands'
  BY <1>3 DEF ResetPassword
<1>4. ASSUME NEW r \in Requests, NEW t \in Tokens, Present(r, t) PROVE LockedStands'
  BY <1>4 DEF Present
<1>5. ASSUME NEW r \in Requests, NEW s \in SessionIds, SignOut(r, s) PROVE LockedStands'
  BY <1>5 DEF SignOut
<1>6. ASSUME NEW r \in Requests, Supersede(r) PROVE LockedStands'
  BY <1>6 DEF Supersede, LiveOf
<1>7. ASSUME NEW r \in Requests, NEW s \in SessionIds, NEW t \in Tokens, Starts(r, s, t)
      PROVE  LockedStands'
  BY <1>7 DEF Starts, Superseded, End
<1>8. ASSUME NEW r \in Requests, LockToken(r) PROVE LockedStands'
  BY <1>8 DEF LockToken, Verdict
<1>9. ASSUME NEW r \in Requests, NEW t \in Tokens, Rotates(r, t) PROVE LockedStands'
  BY <1>9 DEF Rotates, End
<1>10. ASSUME NEW r \in Requests, Revoke(r) PROVE LockedStands'
  BY <1>10 DEF Revoke
<1>11. ASSUME NEW r \in Requests, RevokeAll(r) PROVE LockedStands'
  BY <1>11 DEF RevokeAll, Free, Needs, End
<1>12. ASSUME NEW r \in Requests, Purge(r) PROVE LockedStands'
  BY <1>12 DEF Purge, End
<1>13. ASSUME NEW r \in Requests, GivesUp(r) PROVE LockedStands'
  BY <1>13 DEF GivesUp, SignInConflict, RefuseToken, DeadlockVictim, Crash, End
<1>14. ASSUME NEW t \in Tokens, Lapse(t) PROVE LockedStands'
  BY <1>14 DEF Lapse
<1>15. CASE ExpireSessions
  BY <1>15 DEF ExpireSessions
<1> QED
  BY <1>1, <1>2, <1>3, <1>4, <1>5, <1>6, <1>7, <1>8, <1>9, <1>10, <1>11, <1>12, <1>13, <1>14, <1>15,
     StartDoes, RotateDoes DEF Next, Start, Step, GivesUp

\* What a reset is about to end was the live session of one account.
LEMMA ResetsPreserved == TypeOK /\ OneLive /\ ResetsOne /\ [Next]_vars => ResetsOne'
<1> SUFFICES ASSUME TypeOK, OneLive, ResetsOne, [Next]_vars,
                    NEW q \in Requests, pc'[q] = "revokeAll"
             PROVE  \A s, u \in rows'[q] : s = u
  BY DEF ResetsOne
<1> USE DEF TypeOK, vars, sessions, tokens, locals, Goto
<1>1. CASE pc[q] = "revokeAll" /\ rows'[q] = rows[q]
  BY <1>1 DEF ResetsOne
<1>2. ASSUME NEW a \in Accounts, ResetPassword(q, a) PROVE \A s, u \in rows'[q] : s = u
  BY <1>2 DEF ResetPassword, LiveOf, OneLive
<1>3. CASE UNCHANGED vars \/ ExpireSessions \/ \E t \in Tokens : Lapse(t)
  BY <1>1, <1>3 DEF ExpireSessions, Lapse
<1>4. ASSUME NEW r \in Requests, Start(r) \/ Step(r) \/ Crash(r)
      PROVE  \/ pc[q] = "revokeAll" /\ rows'[q] = rows[q]
             \/ \E a \in Accounts : ResetPassword(q, a)
  <2>1. ASSUME NEW a \in Accounts, SignIn(r, a) \/ ResetPassword(r, a)
        PROVE  \/ pc[q] = "revokeAll" /\ rows'[q] = rows[q]
               \/ \E b \in Accounts : ResetPassword(q, b)
    BY <2>1 DEF SignIn, ResetPassword
  <2>2. ASSUME NEW t \in Tokens, Present(r, t)
        PROVE  pc[q] = "revokeAll" /\ rows'[q] = rows[q]
    BY <2>2 DEF Present
  <2>3. ASSUME NEW s \in SessionIds, SignOut(r, s)
        PROVE  pc[q] = "revokeAll" /\ rows'[q] = rows[q]
    BY <2>3 DEF SignOut
  <2>4. ASSUME Step(r) \/ Crash(r)
        PROVE  pc[q] = "revokeAll" /\ rows'[q] = rows[q]
    <3>1. CASE r = q
      BY <2>4, <3>1
         DEF Step, Supersede, StartSession, SignInConflict, LockToken, Verdict, RefuseToken,
             Rotate, Revoke, RevokeAll, Purge, DeadlockVictim, Crash, End
    <3>2. CASE r # q
      BY <2>4, <3>2
         DEF Step, Supersede, StartSession, SignInConflict, LockToken, RefuseToken,
             Rotate, Revoke, RevokeAll, Purge, DeadlockVictim, Crash, End
    <3> QED
      BY <3>1, <3>2
  <2> QED
    BY <1>4, <2>1, <2>2, <2>3, <2>4 DEF Start
<1> QED
  BY <1>1, <1>2, <1>3, <1>4 DEF Next

RInv == IInv /\ LockedStands /\ ResetsOne

\* A step that leaves the rows alone leaves the lineage alone.
LEMMA SameRows ==
    ASSUME UNCHANGED <<session, account, token, of>>
    PROVE  UNCHANGED Lineage!lineage
BY DEF Lineage!lineage, Stage, Usable, Issued

\* A sign-in ends what it locked, which is the live session of its account.
LEMMA StartMoves ==
    ASSUME RInv, NEW r \in Requests, NEW s \in SessionIds, NEW t \in Tokens, Starts(r, s, t)
    PROVE  Lineage!SignIn(acct[r], s, t)
<1> USE DEF RInv, IInv, Locks, TypeOK
<1>1. pc[r] = "start" /\ acct[r] \in Accounts /\ locked[r] \subseteq SessionIds
  BY DEF Starts, Known, Holds
<1>2. \A x \in SessionIds : x \in locked[r] <=> session[x] = "live" /\ account[x] = acct[r]
  BY <1>1 DEF Starts, LockedStands, LiveOf
<1>3. session[s] = "none" /\ token[t] = "none"
  BY DEF Starts
<1>4. Stage' = [x \in SessionIds |->
            IF x = s THEN "live"
            ELSE IF Stage[x] = "live" /\ account[x] = acct[r] THEN "over" ELSE Stage[x]]
  <2>1. \A x \in SessionIds :
            session'[x] = IF x = s THEN "live"
                          ELSE IF session[x] = "live" /\ account[x] = acct[r] THEN "superseded"
                          ELSE session[x]
    BY <1>2 DEF Starts, Superseded
  <2> QED
    BY <2>1 DEF Stage, Ended
<1>5. Usable' = [Usable EXCEPT ![s] = {t}]
  <2>1. \A x \in SessionIds : Usable'[x] = IF x = s THEN {t} ELSE Usable[x]
    BY <1>3 DEF Starts, Usable, Owned
  <2> QED
    BY <2>1 DEF Usable
<1>6. Issued' = Issued \cup {t} /\ t \notin Issued
  BY <1>3 DEF Starts, Issued
<1>7. Stage[s] = "none" /\ account' = [account EXCEPT ![s] = acct[r]]
  BY <1>3 DEF Starts, Stage
<1> QED
  BY <1>4, <1>5, <1>6, <1>7 DEF Lineage!SignIn, Lineage!Issue

\* A rotation exchanges the one token its session has.
LEMMA RotateMoves ==
    ASSUME RInv, NEW r \in Requests, NEW t \in Tokens, Rotates(r, t)
    PROVE  Lineage!Rotate(sid[r], tok[r], t)
<1> DEFINE s == sid[r]
           u == tok[r]
<1> USE DEF RInv, IInv, Locks, TypeOK
<1>1. /\ pc[r] = "rotate" /\ s \in SessionIds /\ session[s] # "none"
      /\ u \in Tokens /\ of[u] = s /\ token[u] \in Unused /\ token[t] = "none"
  BY DEF Rotates, Known, Holds
<1>2. Usable[s] = {u}
  BY <1>1 DEF Usable, OfTokens, OneUnused
<1>3. Stage[s] \in {"live", "over"}
  BY <1>1 DEF Stage, Ended, OfTokens, DeadLineage, TokensOf
<1>4. Usable' = [Usable EXCEPT ![s] = {t}]
  <2>1. \A x \in SessionIds : Usable'[x] = IF x = s THEN {t} ELSE Usable[x]
    <3>1. ASSUME NEW x \in SessionIds, x # s PROVE Usable'[x] = Usable[x]
      BY <1>1, <3>1 DEF Rotates, Usable
    <3>2. Usable'[s] = {t}
      BY <1>1 DEF Rotates, Usable, OfTokens, OneUnused
    <3> QED
      BY <3>1, <3>2
  <2> QED
    BY <2>1 DEF Usable
<1>5. Issued' = Issued \cup {t} /\ t \notin Issued
  BY <1>1 DEF Rotates, Issued
<1>6. Stage' = Stage /\ account' = account
  BY DEF Rotates, Stage, sessions
<1> QED
  BY <1>2, <1>3, <1>4, <1>5, <1>6 DEF Lineage!Rotate, Lineage!Issue

\* A reset ends the session it finds.
LEMMA RevokeAllMoves ==
    ASSUME RInv, NEW r \in Requests, RevokeAll(r)
    PROVE  (\E s \in SessionIds : Lineage!End(s)) \/ UNCHANGED Lineage!lineage
<1> DEFINE ids == {s \in rows[r] : session[s] = "live"}
<1> USE DEF RInv, IInv, TypeOK
<1>1. /\ session' = [s \in SessionIds |-> IF s \in ids THEN "password_reset" ELSE session[s]]
      /\ UNCHANGED <<account, token, of>>
      /\ pc[r] = "revokeAll"
  BY DEF RevokeAll, tokens
<1>2. CASE ids = {}
  <2>1. session' = session
    BY <1>1, <1>2
  <2> QED
    BY <1>1, <2>1, SameRows
<1>3. ASSUME NEW s \in ids PROVE Lineage!End(s)
  <2>1. ids = {s} /\ s \in SessionIds /\ session[s] = "live"
    BY <1>1 DEF ResetsOne
  <2>2. Stage[s] = "live" /\ Stage' = [Stage EXCEPT ![s] = "over"]
    <3>1. \A x \in SessionIds : Stage'[x] = IF x = s THEN "over" ELSE Stage[x]
      BY <1>1, <2>1 DEF Stage, Ended
    <3> QED
      BY <2>1, <3>1 DEF Stage
  <2>3. Usable' = Usable /\ Issued' = Issued
    BY <1>1 DEF Usable, Issued
  <2> QED
    BY <1>1, <2>2, <2>3 DEF Lineage!End
<1> QED
  BY <1>2, <1>3

\* A revocation ends a live session with its lineage; of one that is over, it
\* deletes what is left.
LEMMA PurgeMoves ==
    ASSUME RInv, NEW r \in Requests, Purge(r)
    PROVE  \/ \E s \in SessionIds : Lineage!Kill(s) \/ Lineage!Forget(s)
           \/ UNCHANGED Lineage!lineage
<1> DEFINE s == sid[r]
<1> USE DEF RInv, IInv, Locks, TypeOK
<1>1. /\ pc[r] = "delete" /\ s \in SessionIds /\ session[s] # "none"
      /\ locked[r] \cap SessionIds \subseteq {s}
      /\ s \in locked[r] <=> session[s] = "live"
  BY DEF Purge, Known, Holds, LockedStands
<1>2. /\ account' = account
      /\ \A x \in SessionIds : x # s => session'[x] = session[x]
      /\ session[s] = "live" => session'[s] \in Ended
      /\ session[s] # "live" => session'[s] = session[s]
  BY <1>1 DEF Purge, Ended
<1>3. Usable' = [Usable EXCEPT ![s] = {}] /\ Issued' = Issued
  <2>1. \A x \in SessionIds : Usable'[x] = IF x = s THEN {} ELSE Usable[x]
    BY <1>1 DEF Purge, Usable, TokensOf
  <2>2. Issued' = Issued
    BY DEF Purge, Issued, TokensOf
  <2>3. /\ Usable = [x \in SessionIds |-> Usable[x]]
        /\ Usable' = [x \in SessionIds |-> Usable'[x]]
    BY DEF Usable
  <2> QED
    BY <2>1, <2>2, <2>3
<1>4. CASE session[s] = "live"
  <2>1. Stage[s] = "live" /\ Stage' = [Stage EXCEPT ![s] = "dead"]
    <3>1. \A x \in SessionIds : Stage'[x] = IF x = s THEN "dead" ELSE Stage[x]
      BY <1>1, <1>2, <1>4 DEF Stage, Ended
    <3> QED
      BY <1>1, <1>4, <3>1 DEF Stage
  <2> QED
    BY <1>1, <1>2, <1>3, <2>1 DEF Lineage!Kill
<1>5. CASE session[s] # "live"
  <2>1. Stage' = Stage
    BY <1>2, <1>5 DEF Stage
  <2>2. CASE Stage[s] = "over"
    BY <1>1, <1>2, <1>3, <2>1, <2>2 DEF Lineage!Forget
  <2>3. CASE Stage[s] # "over"
    <3>1. session[s] \in Ended
      BY <1>1, <1>5, <2>3 DEF Stage, Ended
    <3>2. Usable[s] = {}
      BY <1>1, <3>1 DEF Usable, OfTokens, DeadLineage, TokensOf, Ended
    <3>3. Usable' = Usable
      BY <1>1, <1>3, <3>2 DEF Usable
    <3> QED
      BY <1>2, <1>3, <2>1, <3>3 DEF Lineage!lineage
  <2> QED
    BY <2>2, <2>3
<1> QED
  BY <1>4, <1>5

\* A token that lapsed is still the one its session has: it is refused when shown.
LEMMA LapseMoves ==
    ASSUME RInv, NEW t \in Tokens, Lapse(t)
    PROVE  UNCHANGED Lineage!lineage
<1>1. /\ UNCHANGED <<session, account, of>>
      /\ \A u \in Tokens : (token'[u] \in Unused <=> token[u] \in Unused)
                           /\ (token'[u] = "none" <=> token[u] = "none")
  BY DEF Lapse, RInv, IInv, TypeOK, sessions
<1>2. Usable' = Usable /\ Issued' = Issued /\ Stage' = Stage
  BY <1>1 DEF Usable, Issued, Stage
<1> QED
  BY <1>1, <1>2 DEF Lineage!lineage

\* Every step of the code is a move of the lineage, or leaves it alone.
LEMMA StepMoves == RInv /\ [Next]_vars => [Lineage!Next]_Lineage!lineage
<1> SUFFICES ASSUME RInv, [Next]_vars PROVE Lineage!Next \/ UNCHANGED Lineage!lineage
  OBVIOUS
<1>1. CASE UNCHANGED vars
  BY <1>1, SameRows DEF vars, sessions, tokens
<1>2. ASSUME NEW r \in Requests, Start(r) PROVE UNCHANGED Lineage!lineage
  BY <1>2, SameRows DEF Start, SignIn, ResetPassword, Present, SignOut, sessions, tokens
<1>3. ASSUME NEW r \in Requests, StartSession(r) PROVE Lineage!Next
  <2>1. acct[r] \in Accounts
    BY <1>3 DEF StartSession, RInv, IInv, Locks, Known
  <2> QED
    BY <1>3, <2>1, StartDoes, StartMoves DEF Lineage!Next
<1>4. ASSUME NEW r \in Requests, Rotate(r) PROVE Lineage!Next
  <2>1. sid[r] \in SessionIds /\ tok[r] \in Tokens
    BY <1>4 DEF Rotate, RInv, IInv, Locks, Known
  <2> QED
    BY <1>4, <2>1, RotateDoes, RotateMoves DEF Lineage!Next
<1>5. ASSUME NEW r \in Requests, RevokeAll(r) PROVE Lineage!Next \/ UNCHANGED Lineage!lineage
  BY <1>5, RevokeAllMoves DEF Lineage!Next
<1>6. ASSUME NEW r \in Requests, Purge(r) PROVE Lineage!Next \/ UNCHANGED Lineage!lineage
  BY <1>6, PurgeMoves DEF Lineage!Next
<1>7. ASSUME NEW r \in Requests, Supersede(r) \/ LockToken(r) \/ Revoke(r) \/ GivesUp(r)
      PROVE  UNCHANGED Lineage!lineage
  BY <1>7, SameRows DEF Supersede, LockToken, Revoke, GivesUp, SignInConflict, RefuseToken,
                        DeadlockVictim, Crash, sessions, tokens
<1>8. ASSUME NEW t \in Tokens, Lapse(t) PROVE UNCHANGED Lineage!lineage
  BY <1>8, LapseMoves
<1>9. CASE ExpireSessions
  <2>1. UNCHANGED <<session, account, token, of>>
    BY <1>9 DEF ExpireSessions, tokens
  <2> QED
    BY <2>1, SameRows
<1> QED
  BY <1>1, <1>2, <1>3, <1>4, <1>5, <1>6, <1>7, <1>8, <1>9, Zenon DEF Next, Step, GivesUp

\* However the statements of sign-ins, rotations, replays, sign-outs and resets
\* interleave (sessions.ts), the sessions and their tokens move as if each were one step.
THEOREM LineageRefinement == Spec => KeepsLineage
<1>1. Init => Lineage!Init
  BY DEF Init, Lineage!Init, Stage, Usable, Issued
<1>2. Init => LockedStands /\ ResetsOne
  BY DEF Init, LockedStands, ResetsOne
<1>3. IInv /\ LockedStands /\ ResetsOne /\ [Next]_vars => (LockedStands /\ ResetsOne)'
  BY LockedPreserved, ResetsPreserved DEF IInv, Locks
<1>4. Spec => []RInv
  BY <1>2, <1>3, Invariance, PTL DEF Spec, RInv
<1> QED
  BY <1>1, <1>4, StepMoves, PTL DEF Spec, KeepsLineage, Lineage!Spec
=============================================================================
