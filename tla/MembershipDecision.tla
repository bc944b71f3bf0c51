------------------------- MODULE MembershipDecision -------------------------
(***************************************************************************)
(* What an applicant is promised, whoever decides: the application is      *)
(* decided once, only when it is complete, and the mail that was queued    *)
(* says what was decided.                                                  *)
(***************************************************************************)
CONSTANT Members
VARIABLES
    stage,   \* "none", "open", "waiting" (for staff), "approved", "denied"
    mailed   \* the mails queued about it

Verdicts == {"approved", "denied"}

Init ==
    /\ stage = [m \in Members |-> "none"]
    /\ mailed = [m \in Members |-> {}]

Move(m, from, to) ==
    /\ stage[m] = from
    /\ stage' = [stage EXCEPT ![m] = to]

Mail(m, template) == mailed' = [mailed EXCEPT ![m] = @ \cup {template}]

Open(m) == Move(m, "none", "open") /\ UNCHANGED mailed
Submit(m) == Move(m, "open", "waiting") /\ Mail(m, "thank-you")
Refuse(m) == Move(m, "open", "denied") /\ Mail(m, "denied")
Decide(m, verdict) == Move(m, "waiting", verdict) /\ Mail(m, verdict)

Next ==
    \E m \in Members :
        \/ Open(m) \/ Submit(m) \/ Refuse(m)
        \/ \E v \in Verdicts : Decide(m, v)

Spec == Init /\ [][Next]_<<stage, mailed>>
=============================================================================
