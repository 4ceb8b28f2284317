-------------------------------- MODULE MCGuard --------------------------------
(* Small instances of StackGuard. *)
EXTENDS StackGuard, TLC

(* Too small; of five words of stack; of three, off the words; with its
   stack below it. *)
SmallPlaces ==
  {[mem |-> 64, size |-> 3], [mem |-> 68, size |-> 22],
   [mem |-> 102, size |-> 11], [mem |-> 140, size |-> 4]}

Registers == 0..1

(* What make_fcontext writes, of a context of three words. *)
MadeWords == {1, 3}

Symmetry == Permutations(Koros) \union Permutations(Watched)
===============================================================================
