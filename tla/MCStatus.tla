------------------------------ MODULE MCStatus ------------------------------
(* Status for TLC: its constants are numbers, given in the .cfg files. *)
EXTENDS Status
=============================================================================
