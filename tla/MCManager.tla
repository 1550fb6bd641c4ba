----------------------------- MODULE MCManager -----------------------------
(***************************************************************************)
(* Manager for TLC: services, objects and threads are interchangeable.     *)
(***************************************************************************)
EXTENDS Manager, TLC

Symmetry ==
    Permutations(Services) \union Permutations(Objects) \union Permutations(Threads)
=============================================================================
