---------------------------- MODULE MCOnboarding ----------------------------
(***************************************************************************)
(* Onboarding for TLC: members, addresses, numbers and handlers are only   *)
(* compared, so any renaming of them gives an equivalent state.            *)
(***************************************************************************)
EXTENDS Onboarding, TLC

Symmetry ==
    Permutations(Members) \cup Permutations(Emails) \cup Permutations(Mobiles)
        \cup Permutations(Requests)
=============================================================================
