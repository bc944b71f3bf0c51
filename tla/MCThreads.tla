----------------------------- MODULE MCThreads -----------------------------
(***************************************************************************)
(* Threads for TLC: members, posts and handlers are only compared, so any  *)
(* renaming of them gives an equivalent state.                             *)
(***************************************************************************)
EXTENDS Threads, TLC

Symmetry ==
    Permutations(Members) \cup Permutations(Posts) \cup Permutations(Requests)
=============================================================================
