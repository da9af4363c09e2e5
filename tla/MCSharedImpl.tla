---------------------------- MODULE MCSharedImpl ----------------------------
(***************************************************************************)
(* ValueTypes for TLC: threads, heap places and handles of a kind are      *)
(* alike.                                                                  *)
(***************************************************************************)
EXTENDS ValueTypes, TLC

Symmetry ==
    Permutations(Threads) \cup Permutations(Impls) \cup Permutations(Plain)
      \cup Permutations(Maybes) \cup Permutations(Variants)
=============================================================================
