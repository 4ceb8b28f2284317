-------------------------------- MODULE MCTiny ---------------------------------
(* Small instances of TinyThreads. *)
EXTENDS TinyThreads, TLC

(* Threads and keys are only ever compared. *)
Symmetry == Permutations(Threads) \union Permutations(Keys)
===============================================================================
