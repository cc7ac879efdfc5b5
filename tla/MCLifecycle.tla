---------------------------- MODULE MCLifecycle ----------------------------
(* Lifecycle for TLC: its constants are numbers, given in the .cfg files. *)
EXTENDS Lifecycle
============================================================================
