------------------------- MODULE MCProcessSupervisor -------------------------
(* Two calls of stop and a process with up to two children. *)
EXTENDS ProcessSupervisor
==============================================================================
