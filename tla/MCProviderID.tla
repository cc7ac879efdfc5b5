---------------------------- MODULE MCProviderID ----------------------------
(* ProviderID for TLC: the last Machine may get the first one's address. *)
EXTENDS ProviderID

MCAddress == [m \in Machine |-> IF m = 2 THEN "10.0.0.2" ELSE "10.0.0.1"]
=============================================================================
