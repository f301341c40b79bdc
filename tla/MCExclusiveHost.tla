-------------------------- MODULE MCExclusiveHost ---------------------------
(***************************************************************************)
(* Instances of ExclusiveHost for TLC.                                     *)
(***************************************************************************)
EXTENDS ExclusiveHost, TLC

\* Threads, structs, addresses and images are interchangeable.
Symmetry ==
  Permutations(Threads) \cup Permutations(Slots)
    \cup Permutations(Addrs) \cup Permutations(Images)
=============================================================================
