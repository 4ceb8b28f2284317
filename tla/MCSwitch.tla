-------------------------------- MODULE MCSwitch --------------------------------
(* Small instances of SwitchBackend. *)
EXTENDS SwitchBackend, TLC

===============================================================================
