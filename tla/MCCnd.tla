--------------------------------- MODULE MCCnd ---------------------------------
(* Small instances of TinyCnd, with the mutex of TinyMtx. *)
EXTENDS TinyCnd, TLC

(* Every type that mtx_init takes. *)
AllTypes == SUBSET {"timed", "recursive"}

(* Threads that wait are alike, and so are threads that do not. *)
Symmetry == Permutations(Waiters) \union Permutations(Threads \ Waiters)
===============================================================================
