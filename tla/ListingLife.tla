---------------------------- MODULE ListingLife ----------------------------
(***************************************************************************)
(* The life of a marketplace listing as the members are promised it, as if *)
(* every handler and every row of the expiry job ran alone: it is          *)
(* published within its owner's quota, hidden and restored while it is     *)
(* live, closed by its owner or expired by the clock once, and removed at  *)
(* any time; and no two publications use the same place in a quota.        *)
(***************************************************************************)
EXTENDS Naturals

CONSTANTS Members, Listings, Limit

VARIABLES
    stage,    \* "none", "active", "hidden", "closed", "expired", "removed"
    owner,    \* who published the listing
    overdue,  \* the listings whose expiry is past
    spent     \* how much of a member's quota is used up

life == <<stage, owner, overdue, spent>>

Init ==
    /\ stage = [l \in Listings |-> "none"]
    /\ owner = [l \in Listings |-> "none"]
    /\ overdue = {}
    /\ spent = [m \in Members |-> 0]

Publish(m, l) ==
    /\ stage[l] = "none" /\ stage' = [stage EXCEPT ![l] = "active"]
    /\ owner' = [owner EXCEPT ![l] = m]
    /\ spent[m] < Limit /\ spent' = [spent EXCEPT ![m] = @ + 1]
    /\ UNCHANGED overdue

Moves == {<<"active", "closed">>, <<"active", "hidden">>, <<"hidden", "active">>}

Move(l, s) ==
    /\ <<stage[l], s>> \in Moves
    /\ stage' = [stage EXCEPT ![l] = s]
    /\ UNCHANGED <<owner, overdue, spent>>

Expire(l) ==
    /\ stage[l] = "active" /\ l \in overdue
    /\ stage' = [stage EXCEPT ![l] = "expired"]
    /\ UNCHANGED <<owner, overdue, spent>>

Remove(l) ==
    /\ stage[l] \notin {"none", "removed"}
    /\ stage' = [stage EXCEPT ![l] = "removed"]
    /\ UNCHANGED <<owner, overdue, spent>>

\* The clock, or the owner, dates a listing, in whatever stage it is.
Lapse(l) ==
    /\ stage[l] # "none"
    /\ overdue' = overdue \cup {l}
    /\ UNCHANGED <<stage, owner, spent>>

Prolong(l) ==
    /\ stage[l] # "none"
    /\ overdue' = overdue \ {l}
    /\ UNCHANGED <<stage, owner, spent>>

Next ==
    \E l \in Listings :
        \/ \E m \in Members : Publish(m, l)
        \/ \E s \in {"closed", "hidden", "active"} : Move(l, s)
        \/ Expire(l) \/ Remove(l) \/ Lapse(l) \/ Prolong(l)

Spec == Init /\ [][Next]_life
=============================================================================
