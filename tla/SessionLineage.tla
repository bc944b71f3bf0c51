--------------------------- MODULE SessionLineage ---------------------------
(***************************************************************************)
(* What the session rules promise (sessions.ts, rules 1 to 3), as if every *)
(* operation were one step: a sign-in ends the account's session as it     *)
(* opens the next, a rotation exchanges the one usable token for a new     *)
(* one, and a session that was signed out, or whose token was replayed,    *)
(* ends with its lineage.  Nothing that ended comes back, and no token is  *)
(* usable twice.                                                           *)
(***************************************************************************)
CONSTANTS Accounts, SessionIds, Tokens

VARIABLES
    stage,   \* "none", "live", "over" (superseded or reset), "dead" (its lineage too)
    owner,   \* the account of a session
    usable,  \* the refresh tokens of a session that were not used yet
    issued   \* the tokens there ever were

lineage == <<stage, owner, usable, issued>>

Init ==
    /\ stage = [s \in SessionIds |-> "none"]
    /\ owner = [s \in SessionIds |-> "none"]
    /\ usable = [s \in SessionIds |-> {}]
    /\ issued = {}

Issue(s, t) ==
    /\ t \notin issued
    /\ issued' = issued \cup {t}
    /\ usable' = [usable EXCEPT ![s] = {t}]

SignIn(a, s, t) ==
    /\ stage[s] = "none"
    /\ stage' = [x \in SessionIds |->
            IF x = s THEN "live"
            ELSE IF stage[x] = "live" /\ owner[x] = a THEN "over" ELSE stage[x]]
    /\ owner' = [owner EXCEPT ![s] = a]
    /\ Issue(s, t)

\* A session that is over may still rotate: the request had passed its check before.
Rotate(s, t, u) ==
    /\ stage[s] \in {"live", "over"} /\ usable[s] = {t}
    /\ Issue(s, u)
    /\ UNCHANGED <<stage, owner>>

End(s) ==
    /\ stage[s] = "live" /\ stage' = [stage EXCEPT ![s] = "over"]
    /\ UNCHANGED <<owner, usable, issued>>

Kill(s) ==
    /\ stage[s] = "live" /\ stage' = [stage EXCEPT ![s] = "dead"]
    /\ usable' = [usable EXCEPT ![s] = {}]
    /\ UNCHANGED <<owner, issued>>

Forget(s) ==
    /\ stage[s] = "over" /\ usable' = [usable EXCEPT ![s] = {}]
    /\ UNCHANGED <<stage, owner, issued>>

Next ==
    \E s \in SessionIds :
        \/ \E a \in Accounts, t \in Tokens : SignIn(a, s, t)
        \/ \E t, u \in Tokens : Rotate(s, t, u)
        \/ End(s) \/ Kill(s) \/ Forget(s)

Spec == Init /\ [][Next]_lineage
=============================================================================
