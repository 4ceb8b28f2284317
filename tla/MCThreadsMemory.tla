---------------------------- MODULE MCThreadsMemory ----------------------------
(* Small instances of ThreadsMemory. *)
EXTENDS ThreadsMemory

===============================================================================
