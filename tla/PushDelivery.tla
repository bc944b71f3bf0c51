---------------------------- MODULE PushDelivery ----------------------------
(***************************************************************************)
(* What the push outbox promises of each delivery, whoever carries it out: *)
(* it is owed, handed to a provider at most once with an unknown result,   *)
(* and settled.  A message goes back to being owed only when the provider  *)
(* is known not to have taken it, and nothing reaches the phone after the  *)
(* delivery was dropped.  stage[x] is where delivery x stands, reached[x]  *)
(* how often a provider took its message.                                  *)
(***************************************************************************)
EXTENDS Naturals

CONSTANT Messages

VARIABLES stage, reached

promise == <<stage, reached>>

Init ==
    /\ stage = [x \in Messages |-> "none"]
    /\ reached = [x \in Messages |-> 0]

Stages(from, to, x) == stage[x] = from /\ stage'[x] = to
Same(x) == stage'[x] = stage[x] /\ reached'[x] = reached[x]

Owe(x) == Stages("none", "owed", x) /\ reached'[x] = reached[x]
Drop(x) == Stages("owed", "dropped", x) /\ reached'[x] = reached[x]
Hand(x) == Stages("owed", "handed", x) /\ reached'[x] = reached[x]
TakeBack(x) == Stages("handed", "owed", x) /\ reached[x] = 0 /\ reached'[x] = 0
Settle(x) == Stages("handed", "settled", x) /\ reached'[x] = reached[x]

\* The message may reach the phone after the delivery was given up as unknown.
Reach(x) ==
    /\ stage[x] \in {"handed", "settled"} /\ stage'[x] = stage[x]
    /\ reached[x] = 0 /\ reached'[x] = 1

Move(x) == Owe(x) \/ Drop(x) \/ Hand(x) \/ TakeBack(x) \/ Settle(x) \/ Reach(x)

Next == \A x \in Messages : Move(x) \/ Same(x)

Spec == Init /\ [][Next]_promise
=============================================================================
