------------------------ MODULE MCReconcileMachines ------------------------
(* Values of the constants of ReconcileMachines for TLC. *)
EXTENDS ReconcileMachines

S(n, v, how) == [replicas |-> n, version |-> v, strategy |-> how]

MCVersion == {"v1.25.3", "v1.25.4", "v1.26.0", "v1.26.1"}
MCMajorMinor == [v \in MCVersion |->
                   IF v \in {"v1.26.0", "v1.26.1"} THEN "v1.26" ELSE "v1.25"]

Old3  == S(3, "v1.25.3", "")
New3  == S(3, "v1.26.0", "RollingUpgrade")
New4  == S(4, "v1.26.0", "RollingUpgrade")
Back3 == S(3, "v1.26.1", "RollingUpgrade")
Patch5 == S(5, "v1.25.4", "SmartUpgrade")
Old1  == S(1, "v1.25.3", "")
New1  == S(1, "v1.26.0", "SmartUpgrade")
Omitted == S(NoReplicas, "v1.25.3", "")
In3   == S(3, "v1.26.0", "InPlaceUpgrade")
In2   == S(2, "v1.26.0", "InPlaceUpgrade")

\* an upgrade is started and taken back, or goes on in place, with a fourth
\* Machine to remove after the loop; and three Machines are one too many
ChurnSpecs == {Old3, New3, Old1, In3}
ChurnEdits == {<<Old3, New3>>, <<New3, Old3>>, <<New3, Old1>>, <<New3, In3>>}

\* one Machine, for a while without replicas, upgraded in place, with or without
\* a second one; or three, a rolling upgrade, a fourth Machine, and back to three
UpgradeSpecs == {Old1, Omitted, New1, In2, Old3, New3, New4, Back3}
UpgradeEdits == {<<Old1, New1>>, <<Old1, Omitted>>, <<Omitted, New1>>, <<Old1, In2>>,
                 <<Old1, Old3>>, <<Old3, New3>>, <<New3, New4>>, <<New4, Back3>>}

\* the rolling upgrade, abandoned half-way
RollbackSpecs == {Old3, New3}
RollbackEdits == {<<Old3, New3>>, <<New3, Old3>>}

\* four Machines, of which three are to stay
FloorSpecs == {New4, Back3}
FloorEdits == {<<New4, Back3>>}

\* growing by two within one minor version, and shrinking back
ResizeSpecs == {Old3, Patch5}
ResizeEdits == {<<Old3, Patch5>>, <<Patch5, Old3>>}
============================================================================
