-------------------------------- MODULE MCContext --------------------------------
(* Small instances of ContextBackend. *)
EXTENDS ContextBackend, TLC

===============================================================================
