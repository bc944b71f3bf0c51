---------------------------- MODULE MCMessaging ----------------------------
(***************************************************************************)
(* Messaging for TLC: inquirers, conversations and handlers are only       *)
(* compared, so any renaming of them gives an equivalent state.            *)
(***************************************************************************)
EXTENDS Messaging, TLC

Symmetry ==
    Permutations(Inquirers) \cup Permutations(Conversations) \cup Permutations(Requests)
=============================================================================
