--------------------------- MODULE CurrentListProofs ---------------------------
(***************************************************************************)
(* What reconcileMachines is sure of when the list of a pass is what the   *)
(* API server has (CacheLags is FALSE): while the pass goes on, Machines   *)
(* may join, be deleted and go, but none is created behind its back.       *)
(***************************************************************************)
EXTENDS ReconcileMachinesProofs

Existing == {m \in Machine : Exists(machine[m])}

\* the pass is going to create a Machine
Boots == pc \in {"boot", "config", "create"} \/ after = "boot"

\* the specs under which a Machine replaces nothing
NeverRolls(s) == s.strategy # "RollingUpgrade" /\ (s.strategy = "InPlaceUpgrade" \/ s.replicas < 3)

\* from the decision to create a Machine on, there is room for it
Room == Boots =>
  /\ Cardinality(Existing) <= req.replicas
  /\ NeverRolls(req) => Cardinality(Existing) < req.replicas

\* from the decision to delete a Machine on, no Machine is still joining
AllJoined == Chosen => \A n \in Machine : machine[n].st = "live" => machine[n].ref

-----------------------------------------------------------------------------
(* Scaling down.                                                            *)

LEMMA AllJoinedStep ==
  ASSUME ~CacheLags, TypeOK, OrderInv, AllJoined, [Next]_vars
  PROVE  AllJoined'
<1> SUFFICES ASSUME Chosen', NEW n \in Machine, machine'[n].st = "live" PROVE machine'[n].ref
  BY DEF AllJoined
<1>1. CASE Chosen /\ UNCHANGED <<target, req, made, second>>
  <2>1. ~CreateMachine
    BY <1>1 DEF CreateMachine, TypeOK, ApiTypeOK
  <2>2. Moves(machine[n], machine'[n])
    BY <2>1, EachMoves DEF OrderInv
  <2> QED
    BY <1>1, <2>2 DEF Moves, AllJoined
<1>2. ASSUME UNCHANGED <<apiVars, cache>>, cache = machine,
             NEW first, first \in Oldest(Owned) \/ Owned = {},
             NEW plan \in Switch(first), plan[1] = "delete"
      PROVE  machine'[n].ref
  <2>1. Blocking = {}
    BY <1>2, ChoiceFromList
  <2> QED
    BY <1>2, <2>1 DEF Blocking, Owned, Exists, apiVars
<1> QED
  BY <1>1, <1>2, WhoChooses

\* "do not allow scaling down until all nodes have nodeRefs" (scaleDownControlPlane):
\* with a current list no Machine is joining when the controller deletes one, however
\* long the in-place loop between the list and the deletion took.
THEOREM ScaleDownWaits == ASSUME ~CacheLags PROVE Spec => ScaleDownWaitsForNodeRefs
<1> DEFINE NoneJoining == \A m \in Machine : OwnDelete(m) =>
             \A n \in Machine : machine[n].st = "live" => machine[n].ref
<1>1. Init => AllJoined
  BY DEF Init, AllJoined, Chosen
<1>2. TypeOK /\ OrderInv /\ AllJoined /\ [Next]_vars => AllJoined'
  BY AllJoinedStep
<1>3. TypeOK /\ OrderInv /\ AllJoined /\ [Next]_vars => [NoneJoining]_vars
  BY DeletesChosen DEF AllJoined
<1> QED
  BY <1>1, <1>2, <1>3, TypeCorrect, OrderCorrect, PTL DEF Spec, ScaleDownWaitsForNodeRefs

-----------------------------------------------------------------------------
(* Creating Machines.                                                       *)

\* A pass that is going to create a Machine has decided so before, or decides now on
\* what it lists: to surge, or to make up for a Machine that is missing.
LEMMA WhoBoots ==
  ASSUME TypeOK, [Next]_vars, Boots'
  PROVE  \/ Boots /\ UNCHANGED <<req, made>>
         \/ /\ UNCHANGED <<apiVars, cache>> /\ req' = spec /\ (CacheLags \/ cache = machine)
            /\ \/ RollingSurge
               \/ \E first : /\ first \in Oldest(Owned) \/ Owned = {}
                             /\ \E plan \in Switch(first) : plan[1] = "boot"
<1>1. CASE PanicOnReplicas
  BY <1>1 DEF PanicOnReplicas, Enter, Rest, Boots
<1>2. CASE RollingSurge
  BY <1>2 DEF RollingSurge, BeginPass, Enter
<1>3. CASE InPlaceBegin
  <2>1. PICK first \in Oldest(Owned) : \E plan \in Switch(first) : after' = plan[1]
    BY <1>3 DEF InPlaceBegin
  <2>2. /\ UNCHANGED <<apiVars, cache>> /\ req' = spec /\ (CacheLags \/ cache = machine)
        /\ after' = "boot"
    BY <1>3 DEF InPlaceBegin, BeginPass, Boots
  <2> QED
    BY <2>1, <2>2
<1>4. CASE Resize
  <2>1. /\ pc = "idle" /\ after = "idle" /\ UNCHANGED <<apiVars, cache>>
        /\ CacheLags \/ cache = machine
    BY <1>4 DEF Resize, BeginPass, TypeOK, PassTypeOK
  <2>2. PICK first : (first \in Oldest(Owned) \/ Owned = {})
                     /\ \E plan \in Switch(first) : Enter(plan)
    BY <1>4 DEF Resize
  <2>3. PICK plan \in Switch(first) : Enter(plan)
    BY <2>2
  <2>4. plan[1] = "boot" /\ req' = spec
    BY <2>1, <2>2, <2>3, SwitchType DEF Enter, Rest, loopVars, Boots
  <2> QED
    BY <2>1, <2>2, <2>4
<1>5. CASE CloneInfra \/ GenerateConfig
  BY <1>5 DEF CloneInfra, GenerateConfig, Boots
<1>6. CASE DeleteMachine
  BY <1>6 DEF DeleteMachine, loopVars, Boots
<1>7. CASE CloneRefused \/ CreateMachine \/ DeleteNotFound \/ DeleteNode \/ UpgradeNoNode
           \/ Restart \/ Interrupt
  BY <1>7 DEF CloneRefused, CreateMachine, DeleteNotFound, DeleteNode, UpgradeNoNode, Restart,
     Interrupt, Return, Rest, Boots
<1>8. CASE UpgradePanic \/ UpgradeNoPod
  BY <1>8 DEF UpgradePanic, UpgradeNoPod, Rest, Boots
<1>9. CASE UpgradeMachine \/ UpgradeLost
  BY <1>9 DEF UpgradeMachine, UpgradeLost, Visiting, NextMachine, Rest, Boots, apiVars,
     TypeOK, PassTypeOK
<1>10. CASE Edit \/ (\E m \in Machine : Observe(m) \/ Join(m) \/ Finish(m) \/ Take(m))
            \/ UNCHANGED vars
  BY <1>10 DEF Edit, Observe, Join, Finish, Take, vars, apiVars, passVars, loopVars, Boots
<1> QED
  BY <1>1, <1>2, <1>3, <1>4, <1>5, <1>6, <1>7, <1>8, <1>9, <1>10 DEF Next, Controller

LEMMA ExistingFinite == IsFiniteSet(Existing) /\ Cardinality(Existing) \in Nat
<1>1. IsFiniteSet(Machine)
  BY FS_Interval, BoundsAssumption DEF Machine, BoundsAssumption
<1> QED
  BY <1>1, FS_Subset, FS_CardinalityType DEF Existing

\* only CreateMachine adds to the Machines that exist
LEMMA ExistingShrinks ==
  ASSUME TypeOK, OrderInv, [Next]_vars, ~CreateMachine
  PROVE  Cardinality(Existing') \in Nat /\ Cardinality(Existing') <= Cardinality(Existing)
<1>1. Existing' \subseteq Existing
  BY EachMoves DEF OrderInv, Moves, Existing, Exists
<1> QED
  BY <1>1, ExistingFinite, FS_Subset, FS_CardinalityType

LEMMA RoomStep ==
  ASSUME ~CacheLags, TypeOK, OrderInv, Room, [Next]_vars
  PROVE  Room'
<1> SUFFICES ASSUME Boots'
             PROVE  /\ Cardinality(Existing') <= req'.replicas
                    /\ NeverRolls(req') => Cardinality(Existing') < req'.replicas
  BY DEF Room
<1>0. /\ spec.replicas \in Int /\ req.replicas \in Int /\ Cardinality(Existing) \in Nat
  BY SpecsAssumption, ExistingFinite
  DEF SpecsAssumption, Spec3, NoReplicas, TypeOK, ApiTypeOK, PassTypeOK
<1>1. CASE Boots /\ UNCHANGED <<req, made>>
  <2>1. ~CreateMachine
    BY <1>1 DEF CreateMachine, TypeOK, ApiTypeOK
  <2>2. Cardinality(Existing') \in Nat /\ Cardinality(Existing') <= Cardinality(Existing)
    BY <2>1, ExistingShrinks
  <2> QED
    BY <1>0, <1>1, <2>2 DEF Room
<1>2. CASE /\ UNCHANGED <<apiVars, cache>> /\ req' = spec /\ cache = machine
           /\ \/ RollingSurge
              \/ \E first : /\ first \in Oldest(Owned) \/ Owned = {}
                            /\ \E plan \in Switch(first) : plan[1] = "boot"
  <2>1. Owned = Existing /\ Existing' = Existing
    BY <1>2 DEF Owned, Existing, apiVars
  <2>2. CASE RollingSurge
    <3>1. Cardinality(Existing) = spec.replicas /\ Rolling(spec, spec.replicas)
      BY <2>1, <2>2 DEF RollingSurge
    <3>2. \/ spec.strategy = "RollingUpgrade"
          \/ spec.strategy # "InPlaceUpgrade" /\ spec.replicas >= 3
      BY <3>1, Zenon DEF Rolling, Selected
    <3>3. ~NeverRolls(spec)
      BY <1>0, <3>2 DEF NeverRolls
    <3> QED
      BY <1>0, <1>2, <2>1, <3>1, <3>3
  <2>3. ASSUME NEW first, first \in Oldest(Owned) \/ Owned = {},
               NEW plan \in Switch(first), plan[1] = "boot"
        PROVE  Cardinality(Owned) < spec.replicas
    BY <2>3 DEF Switch, ScaleDown, StopAt
  <2> QED
    BY <1>0, <1>2, <2>1, <2>2, <2>3
<1> QED
  BY <1>1, <1>2, WhoBoots

LEMMA RoomIsKept == ASSUME ~CacheLags PROVE Spec => []Room
<1>1. Init => Room
  BY DEF Init, Room, Boots
<1>2. TypeOK /\ OrderInv /\ Room /\ [Next]_vars => Room'
  BY RoomStep
<1> QED
  BY <1>1, <1>2, TypeCorrect, OrderCorrect, PTL DEF Spec

\* only a pass that decided so creates a Machine
LEMMA CreatesAsDecided == ASSUME TypeOK, [Next]_vars, made' > made PROVE Boots
<1>1. CreateMachine
  BY WhoChanges DEF TypeOK, ApiTypeOK
<1> QED
  BY <1>1 DEF CreateMachine, Boots

\* "increase the number of machines to one more than the desired number"
\* (reconcileMachines): with current lists, whatever happens between the list and the
\* creation, the Machines exceed the number asked for by one at most.
THEOREM SurgesByOne == ASSUME ~CacheLags PROVE Spec => SurgeAtMostOne
<1> DEFINE HasRoom == made' > made =>
             Cardinality({m \in Machine : Exists(machine[m])}) <= req.replicas
<1>1. TypeOK /\ Room /\ [Next]_vars => [HasRoom]_vars
  BY CreatesAsDecided DEF Room, Existing
<1> QED
  BY <1>1, TypeCorrect, RoomIsKept, PTL DEF Spec, SurgeAtMostOne

\* UpgradeStrategyType, "performs an in-place upgrade of the control plane": with
\* current lists, under a spec that upgrades in place Machines are only created to
\* replace missing ones.
THEOREM InPlaceReplacesNothing == ASSUME ~CacheLags PROVE Spec => InPlaceNeverSurges
<1> DEFINE NotInPlace ==
      (/\ made' > made
       /\ req.strategy # "RollingUpgrade"
       /\ req.strategy = "InPlaceUpgrade" \/ req.replicas < 3)
      => Cardinality({m \in Machine : Exists(machine[m])}) < req.replicas
<1>1. TypeOK /\ Room /\ [Next]_vars => [NotInPlace]_vars
  BY CreatesAsDecided DEF Room, Existing, NeverRolls
<1> QED
  BY <1>1, TypeCorrect, RoomIsKept, PTL DEF Spec, InPlaceNeverSurges

AtMostOneOver(N) == Cardinality(Existing) <= N + 1

\* Hence a bound for all time: if no spec asks for more than N Machines, there are
\* never more than N + 1, whatever is edited, fails or is deleted by others.
THEOREM OneSurplusAtMost ==
  ASSUME ~CacheLags, NEW N \in Nat, Initial <= N + 1, \A s \in Specs : s.replicas <= N
  PROVE  Spec => []AtMostOneOver(N)
<1>1. Init => AtMostOneOver(N)
  <2> SUFFICES ASSUME Init PROVE Cardinality(Existing) <= N + 1
    BY DEF AtMostOneOver
  <2>1. Existing = 1 .. Initial
    BY BoundsAssumption DEF Init, Existing, Exists, Missing, Machine, BoundsAssumption
  <2>2. Cardinality(1 .. Initial) = Initial
    BY FS_Interval, BoundsAssumption DEF BoundsAssumption
  <2> QED
    BY <2>1, <2>2
<1>2. TypeOK /\ OrderInv /\ Room /\ AtMostOneOver(N) /\ [Next]_vars => AtMostOneOver(N)'
  <2> SUFFICES ASSUME TypeOK, OrderInv, Room, Cardinality(Existing) <= N + 1, [Next]_vars
               PROVE  Cardinality(Existing') <= N + 1
    BY DEF AtMostOneOver
  <2>0. Cardinality(Existing) \in Nat /\ req.replicas \in Int /\ req.replicas <= N
    BY SpecsAssumption, ExistingFinite
    DEF SpecsAssumption, Spec3, NoReplicas, TypeOK, PassTypeOK
  <2>1. CASE CreateMachine
    <3>1. Cardinality(Existing) <= N
      BY <2>0, <2>1 DEF CreateMachine, Room, Boots
    <3>2. Existing' = Existing \cup {made + 1}
      <4>1. /\ made + 1 \in Machine
            /\ machine' = [machine EXCEPT ![made + 1] =
                             [st |-> "live", ref |-> FALSE, ver |-> req.version]]
        BY <2>1, BoundsAssumption DEF CreateMachine, TypeOK, ApiTypeOK, Machine, BoundsAssumption
      <4>2. /\ machine'[made + 1].st = "live"
            /\ \A m \in Machine : m # made + 1 => machine'[m] = machine[m]
        BY <4>1 DEF TypeOK, ApiTypeOK
      <4> QED
        BY <4>1, <4>2 DEF Existing, Exists
    <3>3. \/ Cardinality(Existing') = Cardinality(Existing)
          \/ Cardinality(Existing') = Cardinality(Existing) + 1
      BY <3>2, ExistingFinite, FS_AddElement
    <3> QED
      BY <2>0, <3>1, <3>3
  <2>2. CASE ~CreateMachine
    BY <2>0, <2>2, ExistingShrinks
  <2> QED
    BY <2>1, <2>2
<1> QED
  BY <1>1, <1>2, TypeCorrect, OrderCorrect, RoomIsKept, PTL DEF Spec
=============================================================================
