---------------------------- MODULE MCEventRsvp ----------------------------
(***************************************************************************)
(* EventRsvp for TLC: members and handlers are only compared, so any       *)
(* renaming of them gives an equivalent state.                             *)
(***************************************************************************)
EXTENDS EventRsvp, TLC

Symmetry == Permutations(Members) \cup Permutations(Requests)
=============================================================================
