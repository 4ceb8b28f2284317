------------------------------- MODULE MCThreads -------------------------------
(* Small instances of ThreadsBackend. *)
EXTENDS ThreadsBackend, TLC

(* Handles are only ever compared, and so are workers and addresses. *)
Symmetry ==
  Permutations(Koros) \union Permutations(Workers) \union Permutations(Ctxs)
===============================================================================
