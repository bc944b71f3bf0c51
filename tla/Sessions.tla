------------------------------ MODULE Sessions ------------------------------
(***************************************************************************)
(* Sessions and refresh tokens                                             *)
(* (server/src/modules/auth/sessions.ts, the handlers that call it, the    *)
(* sessions.expire job and the tables of migration 007).                   *)
(*                                                                         *)
(* Sign-in, rotation, replay, sign-out and password reset are transactions *)
(* of several statements that lock sessions and refresh_tokens rows in     *)
(* different orders.  A statement that may wait for a row is an action     *)
(* guarded by Free; what a transaction writes is applied when it commits,  *)
(* so others read the old values until then.  When two of them wait for    *)
(* each other PostgreSQL aborts one.                                       *)
(***************************************************************************)
EXTENDS Integers, FiniteSets

CONSTANTS
    Accounts,    \* (account_id, account_kind)
    SessionIds,  \* ids of sessions rows; an id is used once
    Tokens,      \* refresh tokens; one is generated once
    Requests,    \* request handlers that may run together
    MaxCrashes   \* bound: processes or connections lost in mid-transaction

ASSUME SessionsAssumption ==
    /\ SessionIds \cap Tokens = {}
    /\ MaxCrashes \in Nat

VARIABLES
    session,  \* "none", "live", or the revoked_reason of a revoked session
    account,  \* its account
    token,    \* "none", "fresh", "lapsed" (past expires_at), "consumed", "deleted"
    of,       \* the session of a token
    pc,       \* the statement a request is at
    acct, sid, tok,  \* the account, session and presented token it is about
    seen,     \* what it read of the session
    rows,     \* sessions its UPDATE has matched
    locked,   \* rows it holds locked
    crashes

sessions == <<session, account>>
tokens == <<token, of>>
locals == <<pc, acct, sid, tok, seen, rows, locked>>
vars == <<sessions, tokens, locals, crashes>>

RevokedReasons == {"superseded", "logout", "staff_action", "token_reuse",
                   "status_change", "password_reset"}   \* CHECK of migration 007
Unused == {"fresh", "lapsed"}
Kept == Unused \cup {"consumed"}
LiveOf(a) == {s \in SessionIds : session[s] = "live" /\ account[s] = a}
TokensOf(s) == {t \in Tokens : of[t] = s /\ token[t] \in Kept}
Steps == {"idle", "supersede", "start", "present", "rotate", "revoke", "revokeAll",
          "delete"}

Init ==
    /\ session = [s \in SessionIds |-> "none"]
    /\ account = [s \in SessionIds |-> "none"]
    /\ token = [t \in Tokens |-> "none"]
    /\ of = [t \in Tokens |-> "none"]
    /\ pc = [r \in Requests |-> "idle"]
    /\ acct = [r \in Requests |-> "none"]
    /\ sid = [r \in Requests |-> "none"]
    /\ tok = [r \in Requests |-> "none"]
    /\ seen = [r \in Requests |-> "none"]
    /\ rows = [r \in Requests |-> {}]
    /\ locked = [r \in Requests |-> {}]
    /\ crashes = 0

\* The rows the next statement of r has to lock.
Needs(r) ==
    CASE pc[r] = "present" -> {tok[r]}
      [] pc[r] \in {"rotate", "revoke"} -> {sid[r]}
      [] pc[r] \in {"supersede", "revokeAll"} -> rows[r]
      [] pc[r] = "delete" -> TokensOf(sid[r])
      [] OTHER -> {}

\* Mutant: the statement runs on another connection than the transaction.
FreeOfAll(r) == \A q \in Requests : Needs(r) \cap locked[q] = {}

Free(r) == \A q \in Requests \ {r} : Needs(r) \cap locked[q] = {}

Goto(r, step) == pc' = [pc EXCEPT ![r] = step]

\* Bounds: a request that may need a new id starts only while one is left.
Spare(ids, f, steps) ==
    Cardinality({r \in Requests : pc[r] \in steps}) < Cardinality({i \in ids : f[i] = "none"})
SpareToken == Spare(Tokens, token, {"supersede", "start", "present", "rotate"})
SpareSession == Spare(SessionIds, session, {"supersede", "start"})

\* A new id, of which Spare leaves one.  Ids are only compared, so which one is
\* taken makes no difference.
Left(ids, f) == \E i \in ids : f[i] = "none"
New(ids, f) == CHOOSE i \in ids : f[i] = "none"

\* The end of a transaction, or of the request: its locks are gone.
End(r) ==
    /\ Goto(r, "idle")
    /\ acct' = [acct EXCEPT ![r] = "none"]
    /\ sid' = [sid EXCEPT ![r] = "none"]
    /\ tok' = [tok EXCEPT ![r] = "none"]
    /\ seen' = [seen EXCEPT ![r] = "none"]
    /\ rows' = [rows EXCEPT ![r] = {}]
    /\ locked' = [locked EXCEPT ![r] = {}]

-----------------------------------------------------------------------------
(* startSession: supersede, insert the session and its first token. *)

SignIn(r, a) ==
    /\ pc[r] = "idle" /\ SpareSession /\ SpareToken
    /\ Goto(r, "supersede")
    /\ acct' = [acct EXCEPT ![r] = a]
    /\ rows' = [rows EXCEPT ![r] = LiveOf(a)]
    /\ UNCHANGED <<sessions, tokens, crashes, sid, tok, seen, locked>>

\* The UPDATE looks again at each row it had to wait for.
Supersede(r) ==
    /\ pc[r] = "supersede" /\ Free(r)
    /\ Goto(r, "start")
    /\ locked' = [locked EXCEPT ![r] = rows[r] \cap LiveOf(acct[r])]
    /\ UNCHANGED <<sessions, tokens, crashes, acct, sid, tok, seen, rows>>

Superseded(r) ==
    [s \in SessionIds |-> IF s \in locked[r] THEN "superseded" ELSE session[s]]

StartSession(r) ==
    LET s == New(SessionIds, session)
        t == New(Tokens, token) IN
    /\ pc[r] = "start"
    /\ Left(SessionIds, session) /\ Left(Tokens, token)
    /\ LiveOf(acct[r]) \subseteq locked[r]   \* one_active_session_per_account
    /\ session' = [Superseded(r) EXCEPT ![s] = "live"]
    /\ account' = [account EXCEPT ![s] = acct[r]]
    /\ token' = [token EXCEPT ![t] = "fresh"]
    /\ of' = [of EXCEPT ![t] = s]
    /\ End(r)
    /\ UNCHANGED crashes

\* Another sign-in of the account committed first.
SignInConflict(r) ==
    /\ pc[r] = "start" /\ ~(LiveOf(acct[r]) \subseteq locked[r])
    /\ End(r)
    /\ UNCHANGED <<sessions, tokens, crashes>>

-----------------------------------------------------------------------------
(* rotateRefreshToken. *)

\* The SELECT joins the session as it is now, and then waits for the token.
Present(r, t) ==
    /\ pc[r] = "idle" /\ token[t] \in Kept /\ SpareToken
    /\ Goto(r, "present")
    /\ tok' = [tok EXCEPT ![r] = t]
    /\ sid' = [sid EXCEPT ![r] = of[t]]
    /\ seen' = [seen EXCEPT ![r] = session[of[t]]]
    /\ UNCHANGED <<sessions, tokens, crashes, acct, rows, locked>>

\* What the row of token t, once locked, makes of the request.
Verdict(t, read) ==
    CASE token[t] = "consumed" -> "revoke"                    \* a replay
      [] token[t] = "fresh" /\ read = "live" -> "rotate"
      [] OTHER -> "idle"           \* UNKNOWN, SESSION_REVOKED, EXPIRED

\* Mutant: SELECT without FOR UPDATE.
ReadToken(r) ==
    /\ pc[r] = "present"
    /\ Verdict(tok[r], seen[r]) # "idle"
    /\ Goto(r, Verdict(tok[r], seen[r]))
    /\ UNCHANGED <<sessions, tokens, crashes, acct, sid, tok, seen, rows, locked>>

LockToken(r) ==
    /\ pc[r] = "present" /\ Free(r)
    /\ Verdict(tok[r], seen[r]) # "idle"
    /\ Goto(r, Verdict(tok[r], seen[r]))
    /\ locked' = [locked EXCEPT ![r] = {tok[r]}]
    /\ UNCHANGED <<sessions, tokens, crashes, acct, sid, tok, seen, rows>>

RefuseToken(r) ==
    /\ pc[r] = "present" /\ Free(r)
    /\ Verdict(tok[r], seen[r]) = "idle"
    /\ End(r)
    /\ UNCHANGED <<sessions, tokens, crashes>>

\* The token is consumed and its successor inserted without waiting for
\* anybody; last_seen_at then needs the session row.
Rotate(r) ==
    LET t == New(Tokens, token) IN
    /\ pc[r] = "rotate" /\ Free(r) /\ Left(Tokens, token)
    /\ token' = [token EXCEPT ![tok[r]] = "consumed", ![t] = "fresh"]
    /\ of' = [of EXCEPT ![t] = sid[r]]
    /\ End(r)
    /\ UNCHANGED <<sessions, crashes>>

-----------------------------------------------------------------------------
(* revokeSession, for a sign-out or for a replay; revokeAllSessions. *)

\* An access token of the session was accepted.
SignOut(r, s) ==
    /\ pc[r] = "idle" /\ session[s] = "live"
    /\ Goto(r, "revoke")
    /\ sid' = [sid EXCEPT ![r] = s]
    /\ UNCHANGED <<sessions, tokens, crashes, acct, tok, seen, rows, locked>>

\* UPDATE ... WHERE revoked_at IS NULL: locks the row if it still matches.
Revoke(r) ==
    /\ pc[r] = "revoke" /\ Free(r)
    /\ Goto(r, "delete")
    /\ locked' = [locked EXCEPT ![r] =
                      @ \cup {s \in {sid[r]} : session[s] = "live"}]
    /\ UNCHANGED <<sessions, tokens, crashes, acct, sid, tok, seen, rows>>

\* A password was reset: the account's session, by a statement of its own.
ResetPassword(r, a) ==
    /\ pc[r] = "idle" /\ LiveOf(a) # {}
    /\ Goto(r, "revokeAll")
    /\ rows' = [rows EXCEPT ![r] = LiveOf(a)]
    /\ UNCHANGED <<sessions, tokens, crashes, acct, sid, tok, seen, locked>>

\* It returns the ids it revoked, at most one of an account.
RevokeAll(r) ==
    LET ids == {s \in rows[r] : session[s] = "live"} IN
    /\ pc[r] = "revokeAll" /\ Free(r)
    /\ session' = [s \in SessionIds |-> IF s \in ids THEN "password_reset" ELSE session[s]]
    /\ IF ids = {}
       THEN End(r)
       ELSE /\ Goto(r, "delete")
            /\ sid' = [sid EXCEPT ![r] = CHOOSE s \in ids : TRUE]
            /\ UNCHANGED <<acct, tok, seen, rows, locked>>
    /\ UNCHANGED <<account, tokens, crashes>>

\* Mutant: what is left of the lineage is only the rows a rotation consumed.
PurgeConsumed(r) ==
    /\ pc[r] = "delete" /\ Free(r)
    /\ token' = [t \in Tokens |->
                   IF t \in TokensOf(sid[r]) /\ token[t] = "consumed"
                   THEN "deleted" ELSE token[t]]
    /\ session' = [s \in SessionIds |->
                     IF s \notin locked[r] THEN session[s]
                     ELSE IF tok[r] = "none" THEN "logout" ELSE "token_reuse"]
    /\ End(r)
    /\ UNCHANGED <<account, of, crashes>>

\* The DELETE and, with the revocation, the COMMIT.  A successor that a rotation
\* commits while it waits is a child of a row it matched: the cascade on
\* parent_id takes it too.
Purge(r) ==
    /\ pc[r] = "delete" /\ Free(r)
    /\ token' = [t \in Tokens |->
                   IF t \in TokensOf(sid[r]) THEN "deleted" ELSE token[t]]
    /\ session' = [s \in SessionIds |->
                     IF s \notin locked[r] THEN session[s]
                     ELSE IF tok[r] = "none" THEN "logout" ELSE "token_reuse"]
    /\ End(r)
    /\ UNCHANGED <<account, of, crashes>>

-----------------------------------------------------------------------------
(* Failures, time and the job. *)

\* Each waits for a row the other holds: the deadlock detector aborts one.
DeadlockVictim(r) ==
    /\ \E q \in Requests \ {r} :
          Needs(r) \cap locked[q] # {} /\ Needs(q) \cap locked[r] # {}
    /\ End(r)
    /\ UNCHANGED <<sessions, tokens, crashes>>

\* The process or its connection is lost; PostgreSQL rolls back.
Crash(r) ==
    /\ pc[r] # "idle" /\ crashes < MaxCrashes
    /\ crashes' = crashes + 1
    /\ End(r)
    /\ UNCHANGED <<sessions, tokens>>

Lapse(t) ==
    /\ token[t] = "fresh"
    /\ token' = [token EXCEPT ![t] = "lapsed"]
    /\ UNCHANGED <<sessions, of, locals, crashes>>

Overdue ==
    {s \in SessionIds : /\ session[s] = "live"
                        /\ \E t \in Tokens : of[t] = s /\ token[t] = "lapsed"}

\* Mutant: the table accepts any reason.
ExpireUnchecked ==
    /\ \A r \in Requests : Overdue \cap locked[r] = {}
    /\ session' = [s \in SessionIds |-> IF s \in Overdue THEN "expired" ELSE session[s]]
    /\ UNCHANGED <<account, tokens, locals, crashes>>

\* One UPDATE that gives every overdue session the reason 'expired', or fails.
ExpireSessions ==
    /\ \A r \in Requests : Overdue \cap locked[r] = {}
    /\ session' = IF "expired" \in RevokedReasons
                  THEN [s \in SessionIds |-> IF s \in Overdue THEN "expired" ELSE session[s]]
                  ELSE session
    /\ UNCHANGED <<account, tokens, locals, crashes>>

-----------------------------------------------------------------------------
Step(r) ==
    \/ Supersede(r) \/ StartSession(r) \/ SignInConflict(r)
    \/ LockToken(r) \/ RefuseToken(r) \/ Rotate(r)
    \/ Revoke(r) \/ RevokeAll(r) \/ Purge(r)
    \/ DeadlockVictim(r)

Start(r) ==
    \/ \E a \in Accounts : SignIn(r, a) \/ ResetPassword(r, a)
    \/ \E t \in Tokens : Present(r, t)
    \/ \E s \in SessionIds : SignOut(r, s)

Next ==
    \/ \E r \in Requests : Start(r) \/ Step(r) \/ Crash(r)
    \/ \E t \in Tokens : Lapse(t)
    \/ ExpireSessions

Spec == Init /\ [][Next]_vars

\* Handlers run on; a row lock is granted in the order it was asked for, so
\* nobody is passed over for ever; the job runs every 15 minutes.
Fairness ==
    /\ \A r \in Requests : SF_vars(Step(r))
    /\ WF_vars(ExpireSessions)

FairSpec == Spec /\ Fairness

-----------------------------------------------------------------------------
(* What the module checks. *)

OrNone(S) == S \cup {"none"}

\* Every column and every local of a request holds one of its values; a
\* revoked session has one of the reasons the table allows.
TypeOK ==
    /\ session \in [SessionIds -> {"none", "live"} \cup RevokedReasons]
    /\ account \in [SessionIds -> OrNone(Accounts)]
    /\ token \in [Tokens -> OrNone(Kept) \cup {"deleted"}]
    /\ of \in [Tokens -> OrNone(SessionIds)]
    /\ pc \in [Requests -> Steps]
    /\ acct \in [Requests -> OrNone(Accounts)]
    /\ sid \in [Requests -> OrNone(SessionIds)]
    /\ tok \in [Requests -> OrNone(Tokens)]
    /\ rows \in [Requests -> SUBSET SessionIds]
    /\ locked \in [Requests -> SUBSET (SessionIds \cup Tokens)]
    /\ crashes \in 0..MaxCrashes

\* Whatever sign-ins race each other, sign-outs and resets, an account has one
\* live session at most (sessions.ts rule 1).
OneLiveSession == \A a \in Accounts : Cardinality(LiveOf(a)) <= 1

\* However often a token is presented at once, a session has one fresh token
\* at most, and while it lives exactly one: rotation forks no lineage, and no
\* revocation takes the token of a session it leaves alive (rule 2).
OneFreshToken ==
    \A s \in SessionIds :
        LET fresh == {t \in Tokens : of[t] = s /\ token[t] \in Unused} IN
        /\ Cardinality(fresh) <= 1
        /\ session[s] = "live" => fresh # {}

\* A session that ended by sign-out or by a replay has no refresh token left,
\* not even the successor a rotation under way at that moment was inserting
\* ("delete the lineage").
DeadLineage ==
    \A s \in SessionIds : session[s] \in {"logout", "token_reuse"} => TokensOf(s) = {}

\* One account, one lineage: at most one live session, with exactly one token that
\* can be rotated, and nothing left of a lineage that was ended (rules 1 to 3).
OneLineage == OneLiveSession /\ OneFreshToken /\ DeadLineage

\* What the rows say of a session, in the terms of SessionLineage.
Ended == {"logout", "token_reuse"}
Stage ==
    [s \in SessionIds |-> IF session[s] \in {"none", "live"} THEN session[s]
                          ELSE IF session[s] \in Ended THEN "dead" ELSE "over"]
Usable == [s \in SessionIds |-> {t \in Tokens : of[t] = s /\ token[t] \in Unused}]
Issued == {t \in Tokens : token[t] # "none"}

Lineage == INSTANCE SessionLineage
    WITH stage <- Stage, owner <- account, usable <- Usable, issued <- Issued

\* However the statements of several requests interleave, the lineage moves as if
\* every operation were one step: no token is usable again once it was exchanged or
\* deleted, and no session lives again.
KeepsLineage == Lineage!Spec

\* No order of row locks leaves a request waiting for ever.
RequestsEnd == \A r \in Requests : pc[r] # "idle" ~> pc[r] = "idle"

\* In no run, and refuted by DeadlockVictim: once a request has found a replay
\* the session ends ("the safe action is to end the lineage", rule 3).  The
\* request may be the victim of a deadlock with a rotation of the same lineage.
ReplayEndsSession ==
    \A s \in SessionIds :
        (\E r \in Requests : pc[r] = "revoke" /\ tok[r] # "none" /\ sid[r] = s)
            ~> session[s] # "live"

\* In no run, and refuted by ExpireSessions: a session whose refresh lineage has
\* expired is revoked (sessions.expire, jobs.ts).  The reason the job writes is
\* not one the table accepts: its UPDATE fails on every run that finds one.
LapsedSessionsEnd ==
    \A s \in SessionIds : s \in Overdue ~> session[s] # "live"

=============================================================================
