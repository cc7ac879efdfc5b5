----------------------- MODULE ReconcileMachinesProofs -----------------------
(* Theorems about ReconcileMachines, for every value of its constants.      *)
EXTENDS ReconcileMachines, FiniteSetTheorems, TLAPS

USE DEF None

-----------------------------------------------------------------------------
(* Type correctness.                                                        *)

LEMMA OwnedAreMachines == Owned \subseteq Machine
BY DEF Owned

LEMMA FirstIsMachine == \A S \in SUBSET Machine : Oldest(S) \subseteq Machine /\ Newest(S) \subseteq Machine
BY DEF Oldest, Newest

\* whatever scaleDownControlPlane decides, a call that needs a Machine has one
LEMMA ScaleDownType ==
  ASSUME NEW first \in Oldest(Owned), NEW plan \in ScaleDown(first)
  PROVE  /\ plan[1] \in {"idle", "panic", "delete", "node"}
         /\ plan[2] \in Machine \cup {None}
         /\ plan[1] \in {"delete", "node"} => plan[2] \in Machine
<1>1. first \in Machine
  BY OwnedAreMachines, FirstIsMachine
<1>2. CASE Blocking = {}
  <2>1. DeleteMachines(first) \subseteq Machine
    BY <1>1, OwnedAreMachines, FirstIsMachine DEF DeleteMachines
  <2>2. PICK m \in DeleteMachines(first) : plan = <<"delete", m>>
    BY <1>2 DEF ScaleDown
  <2> QED
    BY <2>1, <2>2
<1>3. CASE Blocking # {}
  <2>1. PICK m \in Newest(Blocking) : plan = StopAt(m)
    BY <1>3 DEF ScaleDown
  <2>2. m \in Machine
    BY <2>1, OwnedAreMachines DEF Newest, Blocking
  <2> QED
    BY <2>1, <2>2 DEF StopAt
<1> QED
  BY <1>2, <1>3

LEMMA SwitchType ==
  ASSUME NEW first, first \in Oldest(Owned) \/ Owned = {}, NEW plan \in Switch(first)
  PROVE  /\ plan[1] \in {"idle", "panic", "boot", "delete", "node"}
         /\ plan[2] \in Machine \cup {None}
         /\ plan[1] \in {"delete", "node"} => plan[2] \in Machine
<1> DEFINE n == Cardinality(Owned)
<1>1. CASE n < spec.replicas
  BY <1>1 DEF Switch
<1>2. CASE ~(n < spec.replicas) /\ n > spec.replicas /\ n >= 4
  <2>1. plan \in ScaleDown(first)
    BY <1>2 DEF Switch
  <2>2. Owned # {}
    BY <1>2, FS_EmptySet
  <2> QED
    BY <2>1, <2>2, ScaleDownType
<1>3. CASE ~(n < spec.replicas) /\ ~(n > spec.replicas /\ n >= 4)
  BY <1>3 DEF Switch
<1> QED
  BY <1>1, <1>2, <1>3

LEMMA RestType ==
  ASSUME SpecsAssumption, Rest, pc' \in {"idle", "panic"}
  PROVE  PassTypeOK'
BY DEF SpecsAssumption, Rest, PassTypeOK, Call

LEMMA EnterType ==
  ASSUME TypeOK, SpecsAssumption, pc = "idle", NEW plan,
         plan[1] \in {"idle", "panic", "boot", "delete", "node"},
         plan[2] \in Machine \cup {None},
         plan[1] \in {"delete", "node"} => plan[2] \in Machine,
         Enter(plan)
  PROVE  PassTypeOK'
<1>1. CASE plan[1] \in {"idle", "panic"}
  <2>1. pc' \in {"idle", "panic"} /\ Rest
    BY <1>1 DEF Enter
  <2> QED
    BY <2>1, RestType
<1>2. CASE plan[1] \notin {"idle", "panic"}
  <2>1. pc' = plan[1] /\ target' = plan[2] /\ req' = spec /\ UNCHANGED loopVars
    BY <1>2 DEF Enter
  <2> QED
    BY <1>2, <2>1 DEF TypeOK, ApiTypeOK, PassTypeOK, Call, loopVars, Machine
<1> QED
  BY <1>1, <1>2

LEMMA NextMachineType ==
  ASSUME TypeOK, SpecsAssumption, pc = "upgrade", NextMachine
  PROVE  PassTypeOK'
<1>1. CASE todo # {} /\ next' \in Oldest(todo) /\ todo' = todo \ {next'}
           /\ UNCHANGED <<pc, req, target, after, unref>>
  <2>1. next' \in Machine
    BY <1>1, FirstIsMachine DEF TypeOK, PassTypeOK
  <2> QED
    BY <1>1, <2>1 DEF TypeOK, PassTypeOK, Call, Machine
<1>2. CASE after \in {"idle", "panic"} /\ pc' = after /\ Rest
  BY <1>2, RestType
<1>3. CASE /\ todo = {} /\ after \notin {"idle", "panic"}
           /\ pc' = after /\ after' = "idle" /\ next' = None /\ unref' = {}
           /\ UNCHANGED <<req, target, todo>>
  BY <1>3 DEF TypeOK, PassTypeOK, Call
<1> QED
  BY <1>1, <1>2, <1>3 DEF NextMachine

LEMMA MarkVersionType ==
  ASSUME TypeOK, SpecsAssumption, pc = "upgrade", MarkVersion
  PROVE  machine' \in [Machine -> MachineObject]
<1>1. req.version \in Version
  BY DEF TypeOK, PassTypeOK, SpecsAssumption, Spec3
<1>2. next \in Machine
  BY DEF TypeOK, PassTypeOK
<1>3. [machine[next] EXCEPT !.ver = req.version] \in MachineObject
  BY <1>1, <1>2 DEF TypeOK, ApiTypeOK, MachineObject
<1> QED
  BY <1>2, <1>3 DEF TypeOK, ApiTypeOK, MarkVersion

LEMMA InitType == Init => TypeOK
<1>0. SUFFICES ASSUME Init PROVE TypeOK
  OBVIOUS
<1>1. [st |-> "live", ref |-> TRUE, ver |-> FirstSpec.version] \in MachineObject
  BY SpecsAssumption DEF SpecsAssumption, Spec3, MachineObject, Stage
<1>2. Missing("none") \in MachineObject
  BY DEF Missing, MachineObject, Stage
<1>3. machine \in [Machine -> MachineObject] /\ cache = machine
  BY <1>0, <1>1, <1>2 DEF Init
<1>4. Initial \in Nat /\ 1 .. Initial \subseteq Machine
  BY BoundsAssumption DEF BoundsAssumption, Machine
<1>5. PassTypeOK
  BY <1>0, SpecsAssumption DEF Init, PassTypeOK, Call, SpecsAssumption
<1>6. second \in [Machine -> Machine]
  BY <1>0 DEF Init
<1>7. made \in 0 .. MaxMachines /\ infra \in Nat /\ configs \in Nat /\ faults \in 0 .. MaxFaults
  BY <1>0, <1>4, BoundsAssumption DEF Init, BoundsAssumption
<1>8. spec \in Specs /\ nodes \subseteq Machine /\ taken \subseteq Machine
  BY <1>0, <1>4, SpecsAssumption DEF Init, SpecsAssumption
<1> QED
  BY <1>3, <1>5, <1>6, <1>7, <1>8 DEF TypeOK, ApiTypeOK

LEMMA NextType == ASSUME TypeOK, [Next]_vars PROVE TypeOK'
<1> USE SpecsAssumption, BoundsAssumption
<1>1. ASSUME PanicOnReplicas PROVE TypeOK'
  <2>1. pc = "idle" /\ Enter(<<"panic", None>>) /\ UNCHANGED <<apiVars, cache, faults>>
    BY <1>1 DEF PanicOnReplicas, BeginPass
  <2>2. PassTypeOK'
    BY <2>1, EnterType
  <2> QED
    BY <2>1, <2>2 DEF TypeOK, ApiTypeOK, apiVars
<1>2. ASSUME RollingSurge PROVE TypeOK'
  <2>1. pc = "idle" /\ Enter(<<"boot", None>>) /\ UNCHANGED <<apiVars, cache, faults>>
    BY <1>2 DEF RollingSurge, BeginPass
  <2>2. PassTypeOK'
    BY <2>1, EnterType
  <2> QED
    BY <2>1, <2>2 DEF TypeOK, ApiTypeOK, apiVars
<1>3. ASSUME InPlaceBegin PROVE TypeOK'
  <2>1. PICK first \in Oldest(Owned) :
          /\ next' = first /\ todo' = Owned \ {first}
          /\ unref' = {m \in Owned : ~cache[m].ref}
          /\ \E plan \in Switch(first) : after' = plan[1] /\ target' = plan[2]
    BY <1>3 DEF InPlaceBegin
  <2>2. PICK plan \in Switch(first) : after' = plan[1] /\ target' = plan[2]
    BY <2>1
  <2>3. first \in Machine /\ Owned \subseteq Machine
    BY OwnedAreMachines, FirstIsMachine
  <2>4. /\ plan[1] \in {"idle", "panic", "boot", "delete", "node"}
        /\ plan[2] \in Machine \cup {None}
        /\ plan[1] \in {"delete", "node"} => plan[2] \in Machine
    BY SwitchType
  <2>5. pc' = "upgrade" /\ req' = spec /\ UNCHANGED <<apiVars, cache, faults>>
    BY <1>3 DEF InPlaceBegin, BeginPass
  <2>6. next' \in Machine /\ todo' \subseteq Machine /\ unref' \subseteq Machine
    BY <2>1, <2>3
  <2>7. /\ after' \in {"idle", "panic", "boot", "delete", "node"}
        /\ target' \in Machine \cup {None}
        /\ after' \in {"delete", "node"} => target' # None
    BY <2>2, <2>4 DEF Machine
  <2>8. PassTypeOK'
    BY <2>5, <2>6, <2>7 DEF TypeOK, ApiTypeOK, PassTypeOK, Call, Machine
  <2> QED
    BY <2>5, <2>8 DEF TypeOK, ApiTypeOK, apiVars
<1>4. ASSUME Resize PROVE TypeOK'
  <2>1. pc = "idle" /\ UNCHANGED <<apiVars, cache, faults>>
    BY <1>4 DEF Resize, BeginPass
  <2>2. PICK first : (first \in Oldest(Owned) \/ Owned = {})
                     /\ \E plan \in Switch(first) : Enter(plan)
    BY <1>4 DEF Resize
  <2>3. PICK plan \in Switch(first) : Enter(plan)
    BY <2>2
  <2>4. PassTypeOK'
    BY <2>1, <2>2, <2>3, SwitchType, EnterType
  <2> QED
    BY <2>1, <2>4 DEF TypeOK, ApiTypeOK, apiVars
<1>5. ASSUME CloneInfra PROVE TypeOK'
  BY <1>5 DEF CloneInfra, TypeOK, ApiTypeOK, PassTypeOK, Call, loopVars
<1>6. ASSUME CloneRefused PROVE TypeOK'
  BY <1>6, RestType DEF CloneRefused, Return, TypeOK, ApiTypeOK, apiVars
<1>7. ASSUME GenerateConfig PROVE TypeOK'
  BY <1>7 DEF GenerateConfig, TypeOK, ApiTypeOK, PassTypeOK, Call, loopVars
<1>8. ASSUME CreateMachine PROVE TypeOK'
  <2>1. made + 1 \in Machine /\ made' \in 0 .. MaxMachines /\ (made > 0 => made \in Machine)
    BY <1>8 DEF CreateMachine, TypeOK, ApiTypeOK, Machine
  <2>2. req.version \in Version
    BY DEF TypeOK, PassTypeOK, SpecsAssumption, Spec3
  <2>3. machine' \in [Machine -> MachineObject]
    BY <1>8, <2>1, <2>2 DEF CreateMachine, TypeOK, ApiTypeOK, MachineObject, Stage
  <2>4. second' \in [Machine -> Machine]
    BY <1>8, <2>1 DEF CreateMachine, TypeOK, ApiTypeOK
  <2>5. PassTypeOK'
    BY <1>8, RestType DEF CreateMachine, Return
  <2> QED
    BY <1>8, <2>1, <2>3, <2>4, <2>5 DEF CreateMachine, TypeOK, ApiTypeOK
<1>9. ASSUME DeleteMachine PROVE TypeOK'
  <2>1. target \in Machine
    BY <1>9 DEF DeleteMachine, TypeOK, PassTypeOK
  <2>2. machine' \in [Machine -> MachineObject]
    BY <1>9, <2>1 DEF DeleteMachine, TypeOK, ApiTypeOK, MachineObject, Stage
  <2>3. PassTypeOK'
    BY <1>9 DEF DeleteMachine, TypeOK, PassTypeOK, Call, loopVars
  <2> QED
    BY <1>9, <2>2, <2>3 DEF DeleteMachine, TypeOK, ApiTypeOK
<1>10. ASSUME DeleteNotFound PROVE TypeOK'
  BY <1>10, RestType DEF DeleteNotFound, Return, TypeOK, ApiTypeOK, apiVars
<1>11. ASSUME DeleteNode PROVE TypeOK'
  BY <1>11, RestType DEF DeleteNode, Return, TypeOK, ApiTypeOK
<1>12. ASSUME UpgradeMachine PROVE TypeOK'
  BY <1>12, NextMachineType, MarkVersionType DEF UpgradeMachine, Visiting, TypeOK, ApiTypeOK
<1>13. ASSUME UpgradeNoNode PROVE TypeOK'
  BY <1>13, RestType DEF UpgradeNoNode, Return, TypeOK, ApiTypeOK, apiVars
<1>14. ASSUME UpgradePanic PROVE TypeOK'
  BY <1>14, RestType DEF UpgradePanic, TypeOK, ApiTypeOK, apiVars
<1>15. ASSUME Restart PROVE TypeOK'
  BY <1>15, RestType DEF Restart, Return, TypeOK, ApiTypeOK, apiVars
<1>16. ASSUME UpgradeLost PROVE TypeOK'
  BY <1>16, NextMachineType DEF UpgradeLost, Visiting, TypeOK, ApiTypeOK, apiVars
<1>17. ASSUME UpgradeNoPod PROVE TypeOK'
  BY <1>17, RestType, MarkVersionType DEF UpgradeNoPod, Visiting, TypeOK, ApiTypeOK
<1>18. ASSUME Interrupt PROVE TypeOK'
  BY <1>18, RestType DEF Interrupt, Return, TypeOK, ApiTypeOK, apiVars
<1>19. ASSUME Edit PROVE TypeOK'
  <2>1. spec' \in Specs
    BY <1>19 DEF Edit, SpecsAssumption
  <2> QED
    BY <1>19, <2>1 DEF Edit, TypeOK, ApiTypeOK, PassTypeOK, passVars, loopVars
<1>20. ASSUME NEW m \in Machine, Observe(m) PROVE TypeOK'
  BY <1>20 DEF Observe, TypeOK, ApiTypeOK, PassTypeOK, apiVars, passVars, loopVars
<1>21. ASSUME NEW m \in Machine, Join(m) \/ Finish(m) \/ Take(m) PROVE TypeOK'
  <2>1. machine' \in [Machine -> MachineObject] /\ nodes' \subseteq Machine /\ taken' \subseteq Machine
    <3>1. machine[m] \in MachineObject
      BY DEF TypeOK, ApiTypeOK
    <3>2. /\ [machine[m] EXCEPT !.ref = TRUE] \in MachineObject
          /\ [machine[m] EXCEPT !.st = "deleting"] \in MachineObject
          /\ Missing("gone") \in MachineObject
      BY <3>1 DEF MachineObject, Stage, Missing
    <3>3. ASSUME Join(m) PROVE machine' \in [Machine -> MachineObject]
      BY <3>2, <3>3 DEF Join, TypeOK, ApiTypeOK
    <3>4. ASSUME Finish(m) PROVE machine' \in [Machine -> MachineObject]
      BY <3>2, <3>4 DEF Finish, TypeOK, ApiTypeOK
    <3>5. ASSUME Take(m) PROVE machine' \in [Machine -> MachineObject]
      BY <3>2, <3>5 DEF Take, TypeOK, ApiTypeOK
    <3>6. nodes' \subseteq Machine /\ taken' \subseteq Machine
      BY <1>21 DEF Join, Finish, Take, TypeOK, ApiTypeOK
    <3> QED
      BY <1>21, <3>3, <3>4, <3>5, <3>6
  <2>2. PassTypeOK'
    BY <1>21 DEF Join, Finish, Take, TypeOK, PassTypeOK, passVars, loopVars
  <2> QED
    BY <1>21, <2>1, <2>2 DEF Join, Finish, Take, TypeOK, ApiTypeOK
<1>22. CASE UNCHANGED vars
  BY <1>22 DEF vars, apiVars, passVars, loopVars, TypeOK, ApiTypeOK, PassTypeOK
<1> QED
  BY <1>1, <1>2, <1>3, <1>4, <1>5, <1>6, <1>7, <1>8, <1>9, <1>10, <1>11, <1>12, <1>13,
     <1>14, <1>15, <1>16, <1>17, <1>18, <1>19, <1>20, <1>21, <1>22 DEF Next, Controller

\* Every variable keeps its type and a call that needs a Machine has one,
\* whatever the bounds, the specs and the edits (reconcileMachines).
THEOREM TypeCorrect == Spec => []TypeOK
<1>1. TypeOK /\ [Next]_vars => TypeOK'
  BY NextType
<1> QED
  BY InitType, <1>1, PTL DEF Spec

-----------------------------------------------------------------------------
(* How one step moves the Machines, the cache and the chosen Machine.       *)

\* a Machine that was created goes from a to b in one step
Moves(a, b) ==
  \/ b = a
  \/ a.st = "live" /\ b.st = "live" /\ (a.ref => b.ref)
  \/ a.st = "live" /\ b.st = "deleting"
  \/ a.st = "deleting" /\ b.st \in {"deleting", "gone"}

LEMMA MarkVersionMoves ==
  ASSUME TypeOK, pc = "upgrade", MarkVersion, NEW m \in Machine
  PROVE  /\ Moves(machine[m], machine'[m])
         /\ machine'[m].st = machine[m].st
<1>1. next \in Machine /\ machine[m] \in MachineObject /\ machine[next] \in MachineObject
  BY DEF TypeOK, ApiTypeOK, PassTypeOK
<1>2. CASE machine' = machine
  BY <1>2 DEF Moves
<1>3. CASE machine' = [machine EXCEPT ![next].ver = req.version] /\ Exists(machine[next])
  BY <1>1, <1>3 DEF TypeOK, ApiTypeOK, Moves, MachineObject, Exists
<1> QED
  BY <1>2, <1>3 DEF MarkVersion

LEMMA EachMoves ==
  ASSUME TypeOK, MadeExactly, [Next]_vars, NEW m \in Machine
  PROVE  \/ Moves(machine[m], machine'[m])
         \/ CreateMachine /\ m = made + 1 /\ machine[m].st = "none" /\ machine'[m].st = "live"
<1>1. machine[m] \in MachineObject
  BY DEF TypeOK, ApiTypeOK
<1>2. CASE UNCHANGED machine
  BY <1>2 DEF Moves
<1>3. CASE CreateMachine
  <2>0. made + 1 \in Machine /\ made + 1 > made
    BY <1>3, BoundsAssumption DEF CreateMachine, TypeOK, ApiTypeOK, Machine, BoundsAssumption
  <2>1. made + 1 \in Machine /\ machine[made + 1].st = "none"
    BY <2>0 DEF MadeExactly
  <2>2. CASE m = made + 1
    BY <1>3, <2>1, <2>2 DEF CreateMachine, TypeOK, ApiTypeOK
  <2>3. CASE m # made + 1
    BY <1>3, <2>1, <2>3 DEF CreateMachine, TypeOK, ApiTypeOK, Moves
  <2> QED
    BY <2>2, <2>3
<1>4. CASE DeleteMachine
  <2>1. target \in Machine /\ machine[target] \in MachineObject
    BY <1>4 DEF DeleteMachine, TypeOK, ApiTypeOK, PassTypeOK
  <2>2. machine' = [machine EXCEPT ![target].st = "deleting"] /\ Exists(machine[target])
    BY <1>4 DEF DeleteMachine
  <2>3. CASE m = target
    <3>1. machine'[m].st = "deleting" /\ machine[m].st \in {"live", "deleting"}
      BY <2>1, <2>2, <2>3 DEF TypeOK, ApiTypeOK, MachineObject, Exists
    <3> QED
      BY <3>1 DEF Moves
  <2>4. CASE m # target
    BY <2>2, <2>4 DEF TypeOK, ApiTypeOK, Moves
  <2> QED
    BY <2>3, <2>4
<1>5. CASE UpgradeMachine \/ UpgradeNoPod
  BY <1>5, MarkVersionMoves DEF UpgradeMachine, UpgradeNoPod, Visiting
<1>6. ASSUME NEW n \in Machine, Join(n) PROVE Moves(machine[m], machine'[m])
  <2>1. machine[n] \in MachineObject
    BY DEF TypeOK, ApiTypeOK
  <2> QED
    BY <1>6, <1>1, <2>1 DEF Join, TypeOK, ApiTypeOK, Moves, MachineObject
<1>7. ASSUME NEW n \in Machine, Finish(n) PROVE Moves(machine[m], machine'[m])
  BY <1>7, <1>1 DEF Finish, TypeOK, ApiTypeOK, Moves, Missing
<1>8. ASSUME NEW n \in Machine, Take(n) PROVE Moves(machine[m], machine'[m])
  <2>1. machine[n] \in MachineObject
    BY DEF TypeOK, ApiTypeOK
  <2> QED
    BY <1>8, <1>1, <2>1 DEF Take, TypeOK, ApiTypeOK, Moves, MachineObject
<1>9. CASE Controller /\ ~CreateMachine /\ ~DeleteMachine /\ ~UpgradeMachine
  <2>1. UNCHANGED machine
    BY <1>9 DEF Controller, PanicOnReplicas, RollingSurge, InPlaceBegin, Resize, BeginPass, CloneInfra,
       CloneRefused, GenerateConfig, DeleteNotFound, DeleteNode, UpgradeNoNode, UpgradePanic, Restart, apiVars
  <2> QED
    BY <2>1, <1>2
<1>10. CASE UpgradeLost \/ Interrupt \/ Edit \/ (\E n \in Machine : Observe(n)) \/ UNCHANGED vars
  <2>1. UNCHANGED machine
    BY <1>10 DEF UpgradeLost, Interrupt, Edit, Observe, vars, apiVars
  <2> QED
    BY <2>1, <1>2
<1> QED
  BY <1>3, <1>4, <1>5, <1>6, <1>7, <1>8, <1>9, <1>10 DEF Next

\* only CreateMachine touches made and second, only Observe the cache
LEMMA WhoChanges ==
  ASSUME [Next]_vars
  PROVE  /\ UNCHANGED <<made, second>> \/ CreateMachine
         /\ UNCHANGED cache \/ \E m \in Machine : Observe(m)
<1>1. CASE Controller
  BY <1>1 DEF Controller, PanicOnReplicas, RollingSurge, InPlaceBegin, Resize, BeginPass, CloneInfra,
     CloneRefused, GenerateConfig, CreateMachine, DeleteMachine, DeleteNotFound, DeleteNode,
     UpgradeMachine, UpgradeNoNode, UpgradePanic, Restart, apiVars
<1>2. CASE UpgradeLost \/ UpgradeNoPod \/ Interrupt \/ Edit \/ UNCHANGED vars
  BY <1>2 DEF UpgradeLost, UpgradeNoPod, Interrupt, Edit, vars, apiVars
<1>3. CASE \E m \in Machine : Observe(m) \/ Join(m) \/ Finish(m) \/ Take(m)
  BY <1>3 DEF Observe, Join, Finish, Take, apiVars
<1> QED
  BY <1>1, <1>2, <1>3 DEF Next

\* what stays of the pass while it has a Machine chosen, and how it gets one
LEMMA WhoChooses ==
  ASSUME TypeOK, [Next]_vars, Chosen'
  PROVE  \/ Chosen /\ UNCHANGED <<target, req, made, second>>
         \/ /\ UNCHANGED <<apiVars, cache>> /\ req' = spec /\ (CacheLags \/ cache = machine)
            /\ \E first : /\ first \in Oldest(Owned) \/ Owned = {}
                          /\ \E plan \in Switch(first) :
                               plan[1] = "delete" /\ target' = plan[2]
<1>2. CASE PanicOnReplicas \/ RollingSurge
  BY <1>2 DEF PanicOnReplicas, RollingSurge, Enter, Rest, Chosen
<1>3. CASE InPlaceBegin
  <2>1. PICK first \in Oldest(Owned) :
          \E plan \in Switch(first) : after' = plan[1] /\ target' = plan[2]
    BY <1>3 DEF InPlaceBegin
  <2>2. /\ pc' = "upgrade" /\ req' = spec /\ UNCHANGED <<apiVars, cache>>
        /\ CacheLags \/ cache = machine
    BY <1>3 DEF InPlaceBegin, BeginPass
  <2>3. after' = "delete"
    BY <2>2 DEF Chosen
  <2> QED
    BY <2>1, <2>2, <2>3
<1>4. CASE Resize
  <2>1. pc = "idle" /\ UNCHANGED <<apiVars, cache>> /\ (CacheLags \/ cache = machine)
    BY <1>4 DEF Resize, BeginPass
  <2>2. PICK first : (first \in Oldest(Owned) \/ Owned = {})
                     /\ \E plan \in Switch(first) : Enter(plan)
    BY <1>4 DEF Resize
  <2>3. PICK plan \in Switch(first) : Enter(plan)
    BY <2>2
  <2>4. plan[1] = "delete" /\ target' = plan[2] /\ req' = spec
    BY <2>1, <2>2, <2>3, SwitchType DEF Enter, Chosen, Rest
  <2> QED
    BY <2>1, <2>2, <2>4
<1>5. CASE CloneInfra \/ GenerateConfig \/ DeleteMachine
  BY <1>5 DEF CloneInfra, GenerateConfig, DeleteMachine, Chosen
<1>6. CASE CloneRefused \/ CreateMachine \/ DeleteNotFound \/ DeleteNode \/ UpgradeNoNode \/ Restart
            \/ Interrupt
  BY <1>6 DEF CloneRefused, CreateMachine, DeleteNotFound, DeleteNode, UpgradeNoNode, Restart, Interrupt,
     Return, Chosen
<1>7. CASE UpgradePanic \/ UpgradeNoPod
  BY <1>7 DEF UpgradePanic, UpgradeNoPod, Chosen
<1>8. CASE UpgradeMachine \/ UpgradeLost
  <2>1. pc = "upgrade" /\ NextMachine /\ UNCHANGED <<made, second>>
    BY <1>8 DEF UpgradeMachine, UpgradeLost, Visiting, apiVars
  <2> QED
    BY <2>1 DEF NextMachine, Chosen, Rest
<1>9. CASE Edit \/ (\E m \in Machine : Observe(m) \/ Join(m) \/ Finish(m) \/ Take(m)) \/ UNCHANGED vars
  BY <1>9 DEF Edit, Observe, Join, Finish, Take, vars, apiVars, passVars, loopVars, Chosen
<1> QED
  BY <1>2, <1>3, <1>4, <1>5, <1>6, <1>7, <1>8, <1>9 DEF Next, Controller

\* a choice is the oldest of a list with nothing to wait for
LEMMA ChoiceFromList ==
  ASSUME TypeOK, NEW first, first \in Oldest(Owned) \/ Owned = {},
         NEW plan \in Switch(first), plan[1] = "delete"
  PROVE  /\ plan[2] \in Oldest(Owned)
         /\ Blocking = {}
         /\ Cardinality(Owned) > spec.replicas /\ Cardinality(Owned) >= 4
<1>1. /\ Cardinality(Owned) > spec.replicas /\ Cardinality(Owned) >= 4
      /\ plan \in ScaleDown(first)
  BY DEF Switch
<1>2. first \in Oldest(Owned)
  BY <1>1, FS_EmptySet
<1>3. Blocking = {}
  BY <1>1 DEF ScaleDown, StopAt
<1>4. plan[2] \in DeleteMachines(first)
  BY <1>1, <1>3 DEF ScaleDown
<1> QED
  BY <1>1, <1>2, <1>3, <1>4 DEF DeleteMachines

\* the oldest Machine of the list is older than any that is not gone
LEMMA OldestOfList ==
  ASSUME TypeOK, OrderInv, NEW m \in Oldest(Owned)
  PROVE  /\ m \in Machine /\ m <= made
         /\ \A k \in 1 .. made : second[k] < second[m] => machine[k].st = "gone"
<1>1. m \in Machine /\ m \in Owned
  BY OwnedAreMachines DEF Oldest
<1>2. cache[m].st \in {"live", "deleting"}
  BY <1>1 DEF Owned, Exists
<1>3. machine[m].st # "none"
  BY <1>1, <1>2 DEF OrderInv, CacheBehind, Past
<1>4. m <= made /\ made \in 0 .. MaxMachines
  BY <1>1, <1>3 DEF OrderInv, MadeExactly, TypeOK, ApiTypeOK, Machine
<1>5. ASSUME NEW k \in 1 .. made, second[k] < second[m] PROVE machine[k].st = "gone"
  <2>0. k \in Machine
    BY <1>1, <1>4, BoundsAssumption DEF Machine, BoundsAssumption
  <2>1. k \in Machine /\ second[k] \in Nat /\ second[m] \in Nat
    BY <1>1, <2>0 DEF Machine, TypeOK, ApiTypeOK
  <2>2. k < m
    <3>1. SUFFICES ASSUME m <= k PROVE FALSE
      BY <1>1, <2>1 DEF Machine
    <3>2. second[m] <= second[k]
      BY <1>1, <1>4, <2>1, <3>1 DEF OrderInv, SecondsGrow, Machine
    <3> QED
      BY <1>5, <2>1, <3>2
  <2>3. cache[k].st # "none"
    BY <1>1, <1>2, <2>1, <2>2 DEF OrderInv, SeenInOrder, Machine
  <2>4. k \notin Owned
    BY <1>5, <2>1 DEF Oldest
  <2>5. cache[k].st = "gone"
    BY <2>1, <2>3, <2>4 DEF Owned, Exists, TypeOK, MachineObject, Stage
  <2> QED
    BY <2>1, <2>5 DEF OrderInv, CacheBehind, Past, TypeOK, ApiTypeOK, MachineObject, Stage
<1> QED
  BY <1>1, <1>4, <1>5

-----------------------------------------------------------------------------
(* The order of deletions.                                                  *)

LEMMA MadeExactlyStep ==
  ASSUME TypeOK, OrderInv, [Next]_vars
  PROVE  MadeExactly'
<1>0. MadeExactly
  BY DEF OrderInv
<1> SUFFICES ASSUME NEW m \in Machine PROVE machine'[m].st = "none" <=> m > made'
  BY DEF MadeExactly
<1>1. CASE CreateMachine
  <2>1. made' = made + 1 /\ made \in Nat /\ m \in Nat
    BY <1>1 DEF CreateMachine, TypeOK, ApiTypeOK, Machine
  <2>2. CASE m = made + 1
    BY <1>1, <2>1, <2>2 DEF CreateMachine, TypeOK, ApiTypeOK
  <2>3. CASE m # made + 1
    BY <1>0, <1>1, <2>1, <2>3 DEF CreateMachine, TypeOK, ApiTypeOK, MadeExactly
  <2> QED
    BY <2>2, <2>3
<1>2. CASE ~CreateMachine
  BY <1>0, <1>2, EachMoves, WhoChanges DEF Moves, MadeExactly
<1> QED
  BY <1>1, <1>2

LEMMA CacheBehindStep ==
  ASSUME TypeOK, OrderInv, [Next]_vars
  PROVE  CacheBehind'
<1>0. MadeExactly /\ CacheBehind
  BY DEF OrderInv
<1> SUFFICES ASSUME NEW m \in Machine
             PROVE  /\ cache'[m].st \in Past(machine'[m].st)
                    /\ machine'[m].st = "live" /\ cache'[m].st = "live" /\ cache'[m].ref => machine'[m].ref
  BY DEF CacheBehind
<1>1. machine[m] \in MachineObject /\ cache[m] \in MachineObject
  BY DEF TypeOK, ApiTypeOK
<1>2. CASE UNCHANGED cache
  <2>1. /\ cache[m].st \in Past(machine[m].st)
        /\ machine[m].st = "live" /\ cache[m].st = "live" /\ cache[m].ref => machine[m].ref
    BY <1>0 DEF CacheBehind
  <2>2. CASE Moves(machine[m], machine'[m])
    BY <1>1, <1>2, <2>1, <2>2 DEF Moves, Past, MachineObject, Stage
  <2>3. CASE machine[m].st = "none" /\ machine'[m].st = "live"
    BY <1>2, <2>1, <2>3 DEF Past
  <2> QED
    BY <1>0, <2>2, <2>3, EachMoves
<1>3. ASSUME NEW n \in Machine, Observe(n)
      PROVE  /\ cache'[m].st \in Past(machine'[m].st)
             /\ machine'[m].st = "live" /\ cache'[m].st = "live" /\ cache'[m].ref => machine'[m].ref
  <2>1. machine' = machine /\ cache' = [cache EXCEPT ![n] = machine[n]]
    BY <1>3 DEF Observe, apiVars
  <2>2. CASE m = n
    BY <1>1, <2>1, <2>2 DEF TypeOK, Past, MachineObject, Stage
  <2>3. CASE m # n
    BY <1>0, <2>1, <2>3 DEF TypeOK, CacheBehind
  <2> QED
    BY <2>2, <2>3
<1> QED
  BY <1>2, <1>3, WhoChanges

LEMMA SeenInOrderStep ==
  ASSUME TypeOK, OrderInv, [Next]_vars
  PROVE  SeenInOrder'
<1>0. SeenInOrder /\ MadeExactly /\ CacheBehind
  BY DEF OrderInv
<1>1. CASE UNCHANGED cache
  BY <1>0, <1>1 DEF SeenInOrder
<1>2. ASSUME NEW n \in Machine, Observe(n) PROVE SeenInOrder'
  <2>1. SUFFICES ASSUME NEW m \in Machine, cache'[m].st # "none", NEW k \in 1 .. m - 1
                 PROVE  cache'[k].st # "none"
    BY DEF SeenInOrder
  <2>2. cache' = [cache EXCEPT ![n] = machine[n]]
    BY <1>2 DEF Observe
  <2>3. k \in Machine /\ k # m
    BY BoundsAssumption DEF Machine, BoundsAssumption
  <2>4. cache[k].st # "none" => cache'[k].st # "none"
    <3>1. cache[n].st # "none" => machine[n].st # "none"
      BY <1>0 DEF CacheBehind, Past
    <3> QED
      BY <2>2, <2>3, <3>1 DEF TypeOK
  <2>5. CASE cache[m].st # "none"
    BY <1>0, <2>4, <2>5 DEF SeenInOrder
  <2>6. CASE cache[m].st = "none"
    <3>1. m = n
      BY <2>1, <2>2, <2>6 DEF TypeOK
    <3>2. cache[k].st # "none"
      BY <1>2, <2>6, <3>1 DEF Observe
    <3> QED
      BY <2>4, <3>2
  <2> QED
    BY <2>5, <2>6
<1> QED
  BY <1>1, <1>2, WhoChanges

LEMMA SecondsGrowStep ==
  ASSUME TypeOK, OrderInv, [Next]_vars
  PROVE  SecondsGrow'
<1>0. SecondsGrow
  BY DEF OrderInv
<1>1. CASE UNCHANGED <<made, second>>
  BY <1>0, <1>1 DEF SecondsGrow
<1>2. CASE CreateMachine
  <2> SUFFICES ASSUME NEW m \in Machine
               PROVE  /\ second'[m] <= m
                      /\ m > made' => second'[m] = m
                      /\ m <= made' => \A k \in 1 .. m : second'[k] <= second'[m]
    BY DEF SecondsGrow
  <2> DEFINE new == made + 1
  <2>1. new \in Machine /\ made' = new /\ made \in Nat /\ m \in Nat /\ m >= 1
    BY <1>2, BoundsAssumption DEF CreateMachine, TypeOK, ApiTypeOK, Machine, BoundsAssumption
  <2>2. second \in [Machine -> Nat]
    BY DEF TypeOK, ApiTypeOK, Machine
  <2>3. \A k \in Machine : k # new => second'[k] = second[k]
    BY <1>2, <2>2 DEF CreateMachine
  <2>4. second'[new] = new \/ (made \in Machine /\ second'[new] = second[made])
    <3>0. new > made
      BY <2>1
    <3>1. CASE UNCHANGED second
      BY <1>0, <2>1, <3>0, <3>1 DEF SecondsGrow
    <3>2. CASE made > 0 /\ second' = [second EXCEPT ![new] = second[made]]
      <4>1. made \in Machine
        BY <2>1, <3>2, BoundsAssumption DEF Machine, BoundsAssumption
      <4> QED
        BY <2>1, <2>2, <3>2, <4>1
    <3> QED
      BY <1>2, <3>1, <3>2 DEF CreateMachine
  <2>5. \A k \in 1 .. m : k \in Machine
    BY BoundsAssumption DEF Machine, BoundsAssumption
  <2>6. CASE m = new
    <3>1. second'[m] <= m
      BY <1>0, <2>1, <2>2, <2>4, <2>6 DEF SecondsGrow
    <3>2. ASSUME NEW k \in 1 .. m PROVE second'[k] <= second'[m]
      <4>1. CASE k = new
        BY <2>1, <2>2, <2>4, <2>6, <4>1
      <4>2. CASE k # new
        <5>1. k \in Machine /\ k \in 1 .. made /\ second'[k] = second[k]
          BY <2>1, <2>3, <2>5, <2>6, <4>2
        <5>2. second[k] <= k /\ (made \in Machine => second[k] <= second[made])
          BY <1>0, <2>1, <5>1 DEF SecondsGrow
        <5> QED
          BY <2>1, <2>2, <2>4, <2>6, <5>1, <5>2
      <4> QED
        BY <4>1, <4>2
    <3> QED
      BY <2>1, <2>6, <3>1, <3>2
  <2>7. CASE m # new
    <3>1. second'[m] = second[m]
      BY <2>3, <2>7
    <3>2. m <= made' => m <= made
      BY <2>1, <2>7
    <3>3. m <= made => \A k \in 1 .. m : second'[k] = second[k]
      BY <2>1, <2>3, <2>5
    <3> QED
      BY <1>0, <2>1, <3>1, <3>2, <3>3 DEF SecondsGrow
  <2> QED
    BY <2>6, <2>7
<1> QED
  BY <1>1, <1>2, WhoChanges

LEMMA GoneStays ==
  ASSUME TypeOK, OrderInv, [Next]_vars, NEW k \in Machine, machine[k].st = "gone"
  PROVE  machine'[k].st = "gone"
BY EachMoves DEF OrderInv, Moves

LEMMA ChosenIsOldestStep ==
  ASSUME TypeOK, OrderInv, [Next]_vars
  PROVE  ChosenIsOldest'
<1> SUFFICES ASSUME Chosen'
             PROVE  /\ target' <= made'
                    /\ \A k \in 1 .. made' : second'[k] < second'[target'] => machine'[k].st = "gone"
  BY DEF ChosenIsOldest
<1>1. CASE Chosen /\ UNCHANGED <<target, req, made, second>>
  <2>1. 1 .. made \subseteq Machine
    BY BoundsAssumption DEF TypeOK, ApiTypeOK, Machine, BoundsAssumption
  <2> QED
    BY <1>1, <2>1, GoneStays DEF OrderInv, ChosenIsOldest
<1>2. ASSUME UNCHANGED <<apiVars, cache>>,
             NEW first, first \in Oldest(Owned) \/ Owned = {},
             NEW plan \in Switch(first), plan[1] = "delete", target' = plan[2]
      PROVE  /\ target' <= made'
             /\ \A k \in 1 .. made' : second'[k] < second'[target'] => machine'[k].st = "gone"
  <2>1. target' \in Oldest(Owned)
    BY <1>2, ChoiceFromList
  <2> QED
    BY <1>2, <2>1, OldestOfList DEF apiVars
<1> QED
  BY <1>1, <1>2, WhoChooses

LEMMA OrderInit == Init => OrderInv
<1>0. SUFFICES ASSUME Init PROVE OrderInv
  OBVIOUS
<1>1. TypeOK
  BY <1>0, InitType
<1>2. \A m \in Machine : machine[m].st = IF m <= Initial THEN "live" ELSE "none"
  BY <1>0 DEF Init, Missing
<1>3. cache = machine /\ made = Initial /\ pc = "idle" /\ Initial \in Nat
  BY <1>0, BoundsAssumption DEF Init, BoundsAssumption
<1>4. MadeExactly
  BY <1>2, <1>3 DEF MadeExactly, Machine
<1>5. CacheBehind
  BY <1>2, <1>3 DEF CacheBehind, Past
<1>6. SeenInOrder
  <2>1. SUFFICES ASSUME NEW m \in Machine, m <= Initial, NEW k \in 1 .. m - 1 PROVE k \in Machine /\ k <= Initial
    BY <1>2, <1>3 DEF SeenInOrder
  <2> QED
    BY <1>3, <2>1, BoundsAssumption DEF Machine, BoundsAssumption
<1>7. SecondsGrow
  <2>1. second = [m \in Machine |-> m]
    BY <1>0 DEF Init
  <2>2. \A m \in Machine : m \in Nat /\ \A k \in 1 .. m : k \in Machine /\ k <= m
    BY BoundsAssumption DEF Machine, BoundsAssumption
  <2> QED
    BY <2>1, <2>2 DEF SecondsGrow
<1>8. ChosenIsOldest
  BY <1>3 DEF ChosenIsOldest, Chosen
<1> QED
  BY <1>4, <1>5, <1>6, <1>7, <1>8 DEF OrderInv

LEMMA OrderCorrect == Spec => []OrderInv
<1>1. TypeOK /\ OrderInv /\ [Next]_vars => OrderInv'
  BY MadeExactlyStep, CacheBehindStep, SeenInOrderStep, SecondsGrowStep, ChosenIsOldestStep DEF OrderInv
<1> QED
  BY <1>1, OrderInit, TypeCorrect, PTL DEF Spec

\* the controller deletes nothing but the Machine it has chosen
LEMMA DeletesChosen ==
  ASSUME TypeOK, OrderInv, [Next]_vars, NEW m \in Machine, OwnDelete(m)
  PROVE  Chosen /\ m = target /\ made' = made
<1>1. machine[m].st = "live" /\ machine'[m].st = "deleting" /\ m \notin taken'
  BY DEF OwnDelete
<1>2. ~UNCHANGED machine
  BY <1>1
<1>3. CASE DeleteMachine
  BY <1>1, <1>3 DEF DeleteMachine, TypeOK, ApiTypeOK, Chosen
<1>4. CASE CreateMachine
  <2>1. m = made + 1 \/ machine'[m] = machine[m]
    BY <1>4 DEF CreateMachine, TypeOK, ApiTypeOK
  <2> QED
    BY <1>1, <1>4, <2>1 DEF CreateMachine, TypeOK, ApiTypeOK
<1>5. CASE UpgradeMachine \/ UpgradeNoPod
  BY <1>1, <1>5, MarkVersionMoves DEF UpgradeMachine, UpgradeNoPod, Visiting
<1>6. ASSUME NEW n \in Machine, Join(n) PROVE FALSE
  BY <1>1, <1>6 DEF Join, TypeOK, ApiTypeOK, MachineObject
<1>7. ASSUME NEW n \in Machine, Finish(n) PROVE FALSE
  BY <1>1, <1>7 DEF Finish, TypeOK, ApiTypeOK, Missing
<1>8. ASSUME NEW n \in Machine, Take(n) PROVE FALSE
  BY <1>1, <1>8 DEF Take, TypeOK, ApiTypeOK
<1>9. CASE Controller /\ ~CreateMachine /\ ~DeleteMachine /\ ~UpgradeMachine
  BY <1>2, <1>9 DEF Controller, PanicOnReplicas, RollingSurge, InPlaceBegin, Resize, BeginPass, CloneInfra,
     CloneRefused, GenerateConfig, DeleteNotFound, DeleteNode, UpgradeNoNode, UpgradePanic, Restart, apiVars
<1>10. CASE UpgradeLost \/ Interrupt \/ Edit \/ (\E n \in Machine : Observe(n)) \/ UNCHANGED vars
  BY <1>2, <1>10 DEF UpgradeLost, Interrupt, Edit, Observe, vars, apiVars
<1> QED
  BY <1>3, <1>4, <1>5, <1>6, <1>7, <1>8, <1>9, <1>10 DEF Next

\* "mark the oldest machine to be deleted first": however stale the list, however
\* many Machines share a second, and whoever else deletes, the controller deletes
\* a Machine only when every Machine of an earlier second is gone
\* (scaleDownControlPlane).
THEOREM DeletesOldestFirst == Spec => OldestFirst
<1>1. TypeOK /\ OrderInv /\ [Next]_vars => [OlderAreGone]_vars
  <2>1. SUFFICES ASSUME TypeOK, OrderInv, [Next]_vars, NEW m \in Machine, OwnDelete(m),
                        NEW k \in 1 .. made, second[k] < second[m]
                 PROVE  machine[k].st = "gone"
    BY DEF OlderAreGone
  <2> QED
    BY <2>1, DeletesChosen DEF OrderInv, ChosenIsOldest
<1> QED
  BY <1>1, TypeCorrect, OrderCorrect, PTL DEF OldestFirst, Spec

-----------------------------------------------------------------------------
(* What a deletion leaves, when no two Machines share a creation second.    *)

LEMMA OneSecondStep ==
  ASSUME ~SameSecond, TypeOK, OneSecondEach, [Next]_vars
  PROVE  OneSecondEach'
BY WhoChanges DEF CreateMachine, OneSecondEach

LEMMA OwnDeletionsStep ==
  ASSUME TypeOK, OrderInv, OneSecondEach, OwnDeletionsInOrder, [Next]_vars
  PROVE  OwnDeletionsInOrder'
<1> SUFFICES ASSUME NEW m \in Machine, machine'[m].st \in {"deleting", "gone"}, m \notin taken',
                    NEW k \in 1 .. m - 1
             PROVE  machine'[k].st = "gone"
  BY DEF OwnDeletionsInOrder
<1>1. k \in Machine /\ k < m /\ m \in Nat /\ k \in Nat
  BY BoundsAssumption DEF Machine, BoundsAssumption
<1>2. taken \subseteq taken'
  BY DEF Next, Controller, PanicOnReplicas, RollingSurge, InPlaceBegin, Resize, BeginPass, CloneInfra,
     CloneRefused, GenerateConfig, CreateMachine, DeleteMachine, DeleteNotFound, DeleteNode, UpgradeMachine,
     UpgradeNoNode, UpgradePanic, Restart, UpgradeLost, UpgradeNoPod, Interrupt, Edit, Observe, Join,
     Finish, Take, vars, apiVars
<1>3. CASE machine[m].st \in {"deleting", "gone"}
  <2>1. machine[k].st = "gone"
    BY <1>2, <1>3 DEF OwnDeletionsInOrder
  <2> QED
    BY <1>1, <2>1, GoneStays
<1>4. CASE machine[m].st \notin {"deleting", "gone"}
  <2>1. OwnDelete(m)
    BY <1>4, EachMoves DEF OrderInv, Moves, OwnDelete
  <2>2. Chosen /\ m = target
    BY <2>1, DeletesChosen
  <2>3. k \in 1 .. made /\ second[k] < second[m]
    BY <1>1, <2>2 DEF OrderInv, ChosenIsOldest, OneSecondEach, TypeOK, ApiTypeOK
  <2>4. machine[k].st = "gone"
    BY <2>2, <2>3 DEF OrderInv, ChosenIsOldest
  <2> QED
    BY <1>1, <2>4, GoneStays
<1> QED
  BY <1>3, <1>4

LEMMA LeftGrows ==
  ASSUME TypeOK, OrderInv, [Next]_vars, Chosen, UNCHANGED target
  PROVE  Left(target) \subseteq Left(target)'
<1> SUFFICES ASSUME NEW n \in Machine, n # target, n \in taken \/ Serving(machine[n])
             PROVE  n \in taken' \/ Serving(machine'[n])
  BY DEF Left
<1>1. CASE n \in taken
  BY <1>1 DEF Next, Controller, PanicOnReplicas, RollingSurge, InPlaceBegin, Resize, BeginPass, CloneInfra,
     CloneRefused, GenerateConfig, CreateMachine, DeleteMachine, DeleteNotFound, DeleteNode, UpgradeMachine,
     UpgradeNoNode, UpgradePanic, Restart, UpgradeLost, UpgradeNoPod, Interrupt, Edit, Observe, Join,
     Finish, Take, vars, apiVars
<1>2. CASE Serving(machine[n])
  <2>1. machine[n].st = "live" /\ machine[n].ref
    BY <1>2 DEF Serving
  <2>2. Serving(machine'[n]) \/ machine'[n].st = "deleting"
    BY <2>1, EachMoves DEF OrderInv, Moves, Serving
  <2>3. CASE machine'[n].st = "deleting" /\ n \notin taken'
    <3>1. OwnDelete(n)
      BY <2>1, <2>3 DEF OwnDelete
    <3> QED
      BY <3>1, DeletesChosen
  <2> QED
    BY <2>2, <2>3
<1> QED
  BY <1>1, <1>2

\* the list a choice is made from is, the choice apart, left by its deletion
LEMMA ChoiceLeavesEnough ==
  ASSUME TypeOK, OrderInv, OneSecondEach, OwnDeletionsInOrder, NEW m \in Oldest(Owned),
         Blocking = {}, machine[m].st = "live",
         Cardinality(Owned) > spec.replicas, Cardinality(Owned) >= 4,
         spec.replicas \in Int
  PROVE  Cardinality(Left(m)) >= 3 /\ Cardinality(Left(m)) >= spec.replicas
<1>1. m \in Owned /\ Owned \subseteq Machine
  BY OwnedAreMachines DEF Oldest
<1>2. IsFiniteSet(Machine)
  BY FS_Interval, BoundsAssumption DEF Machine, BoundsAssumption
<1>3. IsFiniteSet(Owned) /\ IsFiniteSet(Left(m))
  BY <1>1, <1>2, FS_Subset DEF Left
<1>4. Owned \ {m} \subseteq Left(m)
  <2> SUFFICES ASSUME NEW n \in Owned, n # m PROVE n \in taken \/ Serving(machine[n])
    BY <1>1 DEF Left
  <2>1. n \in Machine /\ m \in Machine /\ m < n
    <3>1. second[m] <= second[n]
      BY DEF Oldest
    <3> QED
      BY <1>1, <3>1 DEF OneSecondEach, Machine
  <2>2. cache[n].st = "live" /\ cache[n].ref
    BY <2>1 DEF Blocking, Owned, Exists, TypeOK, MachineObject
  <2>3. machine[n].st \in {"live", "deleting", "gone"}
    BY <2>1, <2>2 DEF OrderInv, CacheBehind, Past, TypeOK, ApiTypeOK, MachineObject, Stage
  <2>4. CASE machine[n].st = "live"
    BY <2>1, <2>2, <2>4 DEF OrderInv, CacheBehind, Serving
  <2>5. CASE machine[n].st \in {"deleting", "gone"}
    <3>1. SUFFICES ASSUME n \notin taken PROVE FALSE
      OBVIOUS
    <3>2. m \in 1 .. n - 1
      BY <2>1 DEF Machine
    <3> QED
      BY <2>1, <2>5, <3>1, <3>2 DEF OwnDeletionsInOrder
  <2> QED
    BY <2>3, <2>4, <2>5
<1>5. Cardinality(Owned \ {m}) = Cardinality(Owned) - 1 /\ Cardinality(Owned) \in Nat
  BY <1>1, <1>3, FS_RemoveElement, FS_CardinalityType
<1>6. Cardinality(Owned \ {m}) <= Cardinality(Left(m)) /\ Cardinality(Left(m)) \in Nat
  BY <1>3, <1>4, FS_Subset, FS_CardinalityType
<1> QED
  BY <1>5, <1>6

LEMMA ChosenLeavesEnoughStep ==
  ASSUME TypeOK, OrderInv, OneSecondEach, OwnDeletionsInOrder, ChosenLeavesEnough, [Next]_vars
  PROVE  ChosenLeavesEnough'
<1> SUFFICES ASSUME Chosen', machine'[target'].st = "live"
             PROVE  Cardinality(Left(target)') >= 3 /\ Cardinality(Left(target)') >= req'.replicas
  BY DEF ChosenLeavesEnough
<1>0. target' \in Machine /\ IsFiniteSet(Left(target)')
  <2>1. target' \in Machine
    BY NextType DEF TypeOK, PassTypeOK, Chosen
  <2>2. IsFiniteSet(Machine)
    BY FS_Interval, BoundsAssumption DEF Machine, BoundsAssumption
  <2> QED
    BY <2>1, <2>2, FS_Subset DEF Left
<1>1. CASE Chosen /\ UNCHANGED <<target, req, made, second>>
  <2>1. machine[target].st = "live"
    <3>1. machine[target].st # "none"
      BY <1>0, <1>1 DEF OrderInv, ChosenIsOldest, MadeExactly, TypeOK, ApiTypeOK, Machine
    <3> QED
      BY <1>0, <1>1, <3>1, EachMoves DEF OrderInv, Moves
  <2>2. Cardinality(Left(target)) >= 3 /\ Cardinality(Left(target)) >= req.replicas
    BY <1>1, <2>1 DEF ChosenLeavesEnough
  <2>3. Left(target) \subseteq Left(target)'
    BY <1>1, LeftGrows
  <2>4. IsFiniteSet(Left(target)) /\ Cardinality(Left(target)) <= Cardinality(Left(target)')
    BY <1>0, <2>3, FS_Subset
  <2>5. Cardinality(Left(target)) \in Nat /\ Cardinality(Left(target)') \in Nat
    BY <1>0, <2>4, FS_CardinalityType
  <2>6. req.replicas \in Int
    BY SpecsAssumption DEF TypeOK, PassTypeOK, SpecsAssumption, Spec3, NoReplicas
  <2> QED
    BY <1>1, <2>2, <2>4, <2>5, <2>6
<1>2. ASSUME UNCHANGED <<apiVars, cache>>, req' = spec,
             NEW first, first \in Oldest(Owned) \/ Owned = {},
             NEW plan \in Switch(first), plan[1] = "delete", target' = plan[2]
      PROVE  Cardinality(Left(target)') >= 3 /\ Cardinality(Left(target)') >= req'.replicas
  <2>1. /\ target' \in Oldest(Owned) /\ Blocking = {}
        /\ Cardinality(Owned) > spec.replicas /\ Cardinality(Owned) >= 4
    BY <1>2, ChoiceFromList
  <2>2. spec.replicas \in Int
    BY SpecsAssumption DEF TypeOK, ApiTypeOK, SpecsAssumption, Spec3, NoReplicas
  <2>3. Left(target)' = Left(target') /\ machine[target'].st = "live"
    BY <1>2 DEF Left, apiVars
  <2> QED
    BY <1>2, <2>1, <2>2, <2>3, ChoiceLeavesEnough
<1> QED
  BY <1>1, <1>2, WhoChooses

\* What the cache may show and what is known of the chosen Machine, in every
\* reachable state (getControlPlaneMachinesForCluster, scaleDownControlPlane).
THEOREM ScaleDownInvariant == Spec => []ScaleDownInv
<1>1. Init => ScaleDownInv
  <2>1. SUFFICES ASSUME Init PROVE ScaleDownInv
    OBVIOUS
  <2>2. OneSecondEach /\ ChosenLeavesEnough
    BY <2>1 DEF Init, OneSecondEach, ChosenLeavesEnough, Chosen
  <2>3. OwnDeletionsInOrder
    BY <2>1 DEF Init, OwnDeletionsInOrder, Missing
  <2> QED
    BY <2>1, <2>2, <2>3, OrderInit DEF ScaleDownInv
<1>2. TypeOK /\ OrderInv' /\ ScaleDownInv /\ [Next]_vars => ScaleDownInv'
  BY OneSecondStep, OwnDeletionsStep, ChosenLeavesEnoughStep DEF ScaleDownInv
<1> QED
  BY <1>1, <1>2, TypeCorrect, OrderCorrect, PTL DEF Spec

LEMMA DeletionLeavesEnough ==
  ASSUME ~SameSecond, TypeOK, ScaleDownInv, [Next]_vars, NEW m \in Machine, OwnDelete(m)
  PROVE  Cardinality(Left(m)) >= 3 /\ Cardinality(Left(m)) >= req.replicas
BY DeletesChosen DEF ScaleDownInv, ChosenLeavesEnough, OwnDelete

\* "Cannot scale down control plane nodes to less than 3 nodes": when no two
\* Machines share a creation second, a deletion leaves three joined Machines,
\* however stale the list it was decided on (reconcileMachines).
THEOREM KeepsThree == ASSUME ~SameSecond PROVE Spec => FloorOfThree
<1>1. TypeOK /\ ScaleDownInv /\ [Next]_vars => [ThreeAreLeft]_vars
  BY DeletionLeavesEnough DEF ThreeAreLeft
<1> QED
  BY <1>1, TypeCorrect, ScaleDownInvariant, PTL DEF FloorOfThree, Spec

\* Under the same assumption a deletion leaves as many joined Machines as the
\* pass was asked for (reconcileMachines, the case numMachines > desiredReplicas).
THEOREM KeepsDesired == ASSUME ~SameSecond PROVE Spec => KeepsReplicas
<1>1. TypeOK /\ ScaleDownInv /\ [Next]_vars => [DesiredAreLeft]_vars
  BY DeletionLeavesEnough DEF DesiredAreLeft
<1> QED
  BY <1>1, TypeCorrect, ScaleDownInvariant, PTL DEF KeepsReplicas, Spec
-----------------------------------------------------------------------------
(* Refinement: reconcileMachines implements the queue.                      *)

\* the queue's state, as the Machines show it
Joining == {m \in Machine : Live(machine[m]) /\ ~machine[m].ref}
Served  == {m \in Machine : Serving(machine[m])}
Leaving == {m \in Machine : machine[m].st = "deleting"}

\* the Machine chosen for deletion had joined when it was listed
ChosenHasJoined == Chosen /\ machine[target].st = "live" => machine[target].ref

LEMMA ChosenHasJoinedStep ==
  ASSUME TypeOK, TypeOK', OrderInv, OrderInv', ChosenHasJoined, [Next]_vars
  PROVE  ChosenHasJoined'
<1> SUFFICES ASSUME Chosen', machine'[target'].st = "live" PROVE machine'[target'].ref
  BY DEF ChosenHasJoined
<1>0. target' \in Machine
  BY DEF TypeOK, PassTypeOK, Chosen
<1>1. CASE Chosen /\ UNCHANGED <<target, req, made, second>>
  <2>1. machine[target].st # "none"
    BY <1>0, <1>1 DEF OrderInv, ChosenIsOldest, MadeExactly, TypeOK, ApiTypeOK, Machine
  <2>2. Moves(machine[target], machine'[target])
    BY <1>0, <1>1, <2>1, EachMoves DEF OrderInv
  <2>3. machine[target].st = "live"
    BY <1>1, <2>2 DEF Moves
  <2>4. machine[target].ref
    BY <1>1, <2>3 DEF ChosenHasJoined
  <2> QED
    BY <1>1, <2>2, <2>4 DEF Moves
<1>2. ASSUME UNCHANGED <<apiVars, cache>>, req' = spec,
             NEW first, first \in Oldest(Owned) \/ Owned = {},
             NEW plan \in Switch(first), plan[1] = "delete", target' = plan[2]
      PROVE  machine'[target'].ref
  <2>1. target' \in Owned /\ Blocking = {}
    BY <1>2, ChoiceFromList DEF Oldest
  <2>2. cache[target'].st = "live" /\ cache[target'].ref
    BY <1>0, <2>1 DEF Blocking, Owned, Exists, TypeOK, MachineObject
  <2>3. machine' = machine
    BY <1>2 DEF apiVars
  <2> QED
    BY <1>0, <2>2, <2>3 DEF OrderInv, CacheBehind
<1> QED
  BY <1>1, <1>2, WhoChooses

LEMMA JoinedIsKept == Spec => []ChosenHasJoined
<1>1. Init => ChosenHasJoined
  BY DEF Init, ChosenHasJoined, Chosen
<1>2. TypeOK /\ TypeOK' /\ OrderInv /\ OrderInv' /\ ChosenHasJoined /\ [Next]_vars => ChosenHasJoined'
  BY ChosenHasJoinedStep
<1> QED
  BY <1>1, <1>2, TypeCorrect, OrderCorrect, PTL DEF Spec

\* a step that leaves every Machine's stage and NodeRef alone leaves the queue alone
LEMMA SameQueue ==
  ASSUME UNCHANGED <<made, taken>>,
         \A m \in Machine : machine'[m].st = machine[m].st /\ machine'[m].ref = machine[m].ref
  PROVE  UNCHANGED Queue!vars
BY DEF Queue!vars, Live, Serving

LEMMA CreateAppends ==
  ASSUME TypeOK, MadeExactly, CreateMachine
  PROVE  Queue!Enqueue
<1>1. made + 1 \in Machine /\ machine' = [machine EXCEPT ![made + 1] =
         [st |-> "live", ref |-> FALSE, ver |-> req.version]]
  BY BoundsAssumption DEF CreateMachine, TypeOK, ApiTypeOK, Machine, BoundsAssumption
<1>2. machine[made + 1].st = "none"
  BY <1>1, BoundsAssumption DEF MadeExactly, TypeOK, ApiTypeOK, BoundsAssumption
<1>3. machine'[made + 1].st = "live" /\ ~machine'[made + 1].ref
  BY <1>1 DEF TypeOK, ApiTypeOK
<1>4. \A m \in Machine : m # made + 1 => machine'[m] = machine[m]
  BY <1>1 DEF TypeOK, ApiTypeOK
<1>5. Joining' = Joining \cup {made + 1}
  BY <1>1, <1>2, <1>3, <1>4 DEF Joining, Live
<1>6. Served' = Served /\ Leaving' = Leaving
  BY <1>1, <1>2, <1>3, <1>4 DEF Served, Leaving, Serving
<1>7. made' = made + 1 /\ taken' = taken
  BY DEF CreateMachine
<1> QED
  BY <1>5, <1>6, <1>7 DEF Queue!Enqueue, Joining, Served, Leaving

LEMMA ThreeAmong ==
  ASSUME NEW S, IsFiniteSet(S), Cardinality(S) >= 3
  PROVE  Queue!ThreeOf(S)
<1>1. Cardinality(S) \in Nat
  BY FS_CardinalityType
<1>2. PICK a \in S : TRUE
  BY <1>1, FS_EmptySet
<1>3. IsFiniteSet(S \ {a}) /\ Cardinality(S \ {a}) = Cardinality(S) - 1
  BY FS_RemoveElement
<1>4. PICK b \in S \ {a} : TRUE
  BY <1>1, <1>3, FS_EmptySet
<1>5. Cardinality((S \ {a}) \ {b}) = Cardinality(S) - 2
  <2>1. Cardinality((S \ {a}) \ {b}) = Cardinality(S \ {a}) - 1
    BY <1>3, <1>4, FS_RemoveElement
  <2> QED
    BY <1>1, <1>3, <2>1
<1>6. PICK c \in (S \ {a}) \ {b} : TRUE
  BY <1>1, <1>5, FS_EmptySet
<1> QED
  BY <1>2, <1>4, <1>6 DEF Queue!ThreeOf

\* a deletion of the controller's takes the head of the queue
LEMMA DeleteRemovesHead ==
  ASSUME ~SameSecond, TypeOK, ScaleDownInv, ChosenHasJoined, DeleteMachine,
         NEW m \in Machine, m = target, machine[m].st = "live"
  PROVE  Queue!RemoveHead(m)
<1>1. Chosen /\ target \in Machine /\ made \in Nat /\ target <= made
  BY DEF DeleteMachine, Chosen, TypeOK, ApiTypeOK, PassTypeOK, ScaleDownInv, OrderInv, ChosenIsOldest
<1>2. machine' = [machine EXCEPT ![target].st = "deleting"] /\ made' = made /\ taken' = taken
  BY DEF DeleteMachine
<1>3. machine'[target].st = "deleting" /\ \A n \in Machine : n # target => machine'[n] = machine[n]
  BY <1>1, <1>2 DEF TypeOK, ApiTypeOK, MachineObject
<1>4. machine[target].ref
  BY <1>1 DEF ChosenHasJoined
<1>5. /\ Joining' = Joining /\ Served' = Served \ {target}
      /\ Leaving' = Leaving \cup {target}
  BY <1>1, <1>3, <1>4 DEF Joining, Served, Leaving, Live, Serving
<1>6. target \in Served
  BY <1>1, <1>4 DEF Served, Serving
<1>7. \A k \in Joining \cup Served \cup Leaving : target <= k
  <2> SUFFICES ASSUME NEW k \in Machine, machine[k].st \in {"live", "deleting"}, ~(target <= k)
               PROVE  FALSE
    BY DEF Joining, Served, Leaving, Live, Serving
  <2>1. k \in 1 .. made /\ second[k] < second[target]
    BY <1>1, BoundsAssumption DEF ScaleDownInv, OneSecondEach, Machine, BoundsAssumption
  <2> QED
    BY <1>1, <2>1 DEF ScaleDownInv, OrderInv, ChosenIsOldest
<1>8. (Served \cup taken) \ {target} = Left(target)
  BY DEF Served, Left, TypeOK, ApiTypeOK
<1>9. Queue!ThreeOf(Left(target))
  <2>1. IsFiniteSet(Left(target))
    <3>1. IsFiniteSet(Machine)
      BY FS_Interval, BoundsAssumption DEF Machine, BoundsAssumption
    <3> QED
      BY <3>1, FS_Subset DEF Left
  <2>2. Cardinality(Left(target)) >= 3
    BY <1>1 DEF ScaleDownInv, ChosenLeavesEnough
  <2> QED
    BY <2>1, <2>2, ThreeAmong
<1> QED
  BY <1>2, <1>5, <1>6, <1>7, <1>8, <1>9 DEF Queue!RemoveHead, Queue!IsHead, Joining, Served, Leaving

\* what the Machine controller and other clients do to one Machine
LEMMA EnvironmentMovesQueue ==
  ASSUME TypeOK, NEW m \in Machine, Join(m) \/ Take(m) \/ Finish(m)
  PROVE  Queue!Join(m) \/ Queue!Take(m) \/ Queue!Leave(m)
<1>0. machine[m] \in MachineObject
  BY DEF TypeOK, ApiTypeOK
<1>1. CASE Join(m)
  <2>1. /\ machine[m].st = "live" /\ ~machine[m].ref
        /\ machine'[m].st = "live" /\ machine'[m].ref /\ UNCHANGED <<made, taken>>
        /\ \A n \in Machine : n # m => machine'[n] = machine[n]
    BY <1>0, <1>1 DEF Join, TypeOK, ApiTypeOK, MachineObject
  <2>2. /\ m \in Joining /\ Joining' = Joining \ {m}
        /\ Served' = Served \cup {m} /\ Leaving' = Leaving
    BY <2>1 DEF Joining, Served, Leaving, Live, Serving
  <2> QED
    BY <2>1, <2>2 DEF Queue!Join, Joining, Served, Leaving
<1>2. CASE Take(m)
  <2>1. /\ machine[m].st = "live" /\ machine'[m].st = "deleting"
        /\ made' = made /\ taken' = taken \cup {m}
        /\ \A n \in Machine : n # m => machine'[n] = machine[n]
    BY <1>0, <1>2 DEF Take, TypeOK, ApiTypeOK, MachineObject
  <2>2. /\ m \in Joining \cup Served /\ Joining' = Joining \ {m}
        /\ Served' = Served \ {m} /\ Leaving' = Leaving \cup {m}
    BY <2>1 DEF Joining, Served, Leaving, Live, Serving
  <2> QED
    BY <2>1, <2>2 DEF Queue!Take, Joining, Served, Leaving
<1>3. CASE Finish(m)
  <2>1. /\ machine[m].st = "deleting" /\ machine'[m].st = "gone" /\ UNCHANGED <<made, taken>>
        /\ \A n \in Machine : n # m => machine'[n] = machine[n]
    BY <1>3 DEF Finish, TypeOK, ApiTypeOK, Missing
  <2>2. m \in Leaving /\ Leaving' = Leaving \ {m} /\ Joining' = Joining /\ Served' = Served
    BY <2>1 DEF Joining, Served, Leaving, Live, Serving
  <2> QED
    BY <2>1, <2>2 DEF Queue!Leave, Joining, Served, Leaving
<1> QED
  BY <1>1, <1>2, <1>3

LEMMA QueueStep ==
  ASSUME ~SameSecond, TypeOK, ScaleDownInv, ChosenHasJoined, [Next]_vars
  PROVE  [Queue!Next]_(Queue!vars)
<1>1. CASE CreateMachine
  BY <1>1, CreateAppends DEF ScaleDownInv, OrderInv, Queue!Next
<1>2. CASE DeleteMachine
  <2>0. target \in Machine /\ made \in Nat
    BY <1>2 DEF DeleteMachine, TypeOK, ApiTypeOK, PassTypeOK
  <2>1. CASE machine[target].st = "live"
    <3>1. target \in 1 .. made
      BY <1>2, <2>0 DEF ScaleDownInv, OrderInv, ChosenIsOldest, Chosen, DeleteMachine, Machine
    <3>2. PICK m \in 1 .. made : m = target
      BY <3>1
    <3>3. Queue!RemoveHead(m)
      BY <1>2, <2>0, <2>1, <3>2, DeleteRemovesHead
    <3> QED
      BY <3>3 DEF Queue!Next
  <2>2. CASE machine[target].st = "deleting"
    <3>1. \A m \in Machine : machine'[m].st = machine[m].st /\ machine'[m].ref = machine[m].ref
      BY <1>2, <2>0, <2>2 DEF DeleteMachine, TypeOK, ApiTypeOK, MachineObject
    <3> QED
      BY <1>2, <3>1, SameQueue DEF DeleteMachine
  <2> QED
    BY <1>2, <2>1, <2>2 DEF DeleteMachine, Exists
<1>3. CASE UpgradeMachine \/ UpgradeNoPod
  <2>1. next \in Machine /\ UNCHANGED <<made, taken>> /\ MarkVersion
    BY <1>3 DEF UpgradeMachine, UpgradeNoPod, Visiting, TypeOK, PassTypeOK
  <2>2. \A m \in Machine : machine'[m].st = machine[m].st /\ machine'[m].ref = machine[m].ref
    BY <2>1 DEF MarkVersion, TypeOK, ApiTypeOK, MachineObject
  <2> QED
    BY <2>1, <2>2, SameQueue
<1>4. ASSUME NEW m \in Machine, Join(m) \/ Take(m) \/ Finish(m) PROVE Queue!Next
  <2>1. m \in 1 .. made
    BY <1>4 DEF Join, Take, Finish, ScaleDownInv, OrderInv, MadeExactly, Machine, TypeOK, ApiTypeOK
  <2> QED
    BY <1>4, <2>1, EnvironmentMovesQueue DEF Queue!Next
<1>5. CASE UNCHANGED <<made, machine, taken>>
  BY <1>5, SameQueue
<1>6. CASE Controller /\ ~CreateMachine /\ ~DeleteMachine /\ ~UpgradeMachine
  BY <1>5, <1>6 DEF Controller, PanicOnReplicas, RollingSurge, InPlaceBegin, Resize, BeginPass, CloneInfra,
     CloneRefused, GenerateConfig, DeleteNotFound, DeleteNode, UpgradeNoNode, UpgradePanic, Restart, apiVars
<1>7. CASE UpgradeLost \/ Interrupt \/ Edit \/ (\E m \in Machine : Observe(m)) \/ UNCHANGED vars
  BY <1>5, <1>7 DEF UpgradeLost, Interrupt, Edit, Observe, vars, apiVars
<1> QED
  BY <1>1, <1>2, <1>3, <1>4, <1>6, <1>7 DEF Next

\* reconcileMachines, with its stale lists, failures and restarts, only moves the
\* Machines as the queue allows, if no two of them share a creation second.
THEOREM ImplementsTheQueue == ASSUME ~SameSecond PROVE Spec => ImplementsQueue
<1>1. Init => Queue!Init
  <2> SUFFICES ASSUME Init PROVE Queue!Init
    OBVIOUS
  <2>1. made \in Nat /\ 1 .. made \subseteq Machine /\ taken = {}
    BY BoundsAssumption DEF Init, Machine, BoundsAssumption
  <2>2. \A m \in Machine : IF m <= made THEN machine[m].st = "live" /\ machine[m].ref
                                        ELSE machine[m].st = "none"
    BY DEF Init, Missing
  <2>3. Served = 1 .. made /\ Joining = {} /\ Leaving = {}
    BY <2>1, <2>2 DEF Served, Joining, Leaving, Live, Serving, Machine
  <2> QED
    BY <2>1, <2>3 DEF Queue!Init, Served, Joining, Leaving
<1>2. TypeOK /\ ScaleDownInv /\ ChosenHasJoined /\ [Next]_vars => [Queue!Next]_(Queue!vars)
  BY QueueStep
<1> QED
  BY <1>1, <1>2, TypeCorrect, ScaleDownInvariant, JoinedIsKept, PTL
  DEF Spec, ImplementsQueue, Queue!Spec

\* Hence the quorum: three joined Machines stay three until somebody else deletes one.
THEOREM KeepsQuorum == ASSUME ~SameSecond PROVE Spec => KeepsThreeServing
BY ImplementsTheQueue, Queue!QueueKeepsServing, PTL DEF ImplementsQueue, KeepsThreeServing

-----------------------------------------------------------------------------
(* What bootControlPlane leaves behind.                                     *)

\* Of the counters and the calls of bootControlPlane, only its own steps and a
\* failure in the middle of it change anything.
Elsewhere ==
  /\ UNCHANGED <<made, infra, configs>> /\ faults' \in {faults, faults + 1}
  /\ pc \notin {"config", "create"} /\ pc' \notin {"config", "create"}

LEMMA SwitchElsewhere ==
  ASSUME pc = "idle", NEW first, first \in Oldest(Owned) \/ Owned = {},
         \E plan \in Switch(first) : Enter(plan), UNCHANGED <<apiVars, faults>>
  PROVE  Elsewhere
<1>1. PICK plan \in Switch(first) : Enter(plan)
  OBVIOUS
<1>2. plan[1] \in {"idle", "panic", "boot", "delete", "node"}
  BY SwitchType
<1> QED
  BY <1>1, <1>2 DEF Enter, Elsewhere, apiVars

LEMMA LoopElsewhere ==
  ASSUME TypeOK, pc = "upgrade", NextMachine, UNCHANGED <<made, infra, configs>>,
         faults' \in {faults, faults + 1}
  PROVE  Elsewhere
BY DEF NextMachine, Elsewhere, TypeOK, PassTypeOK

LEMMA BootsOrElsewhere ==
  ASSUME TypeOK, [Next]_vars
  PROVE  \/ CloneInfra \/ GenerateConfig \/ CreateMachine \/ Elsewhere
         \/ UNCHANGED <<made, infra, configs, pc, faults>>
         \/ pc \in {"config", "create"} /\ Interrupt
<1> USE DEF apiVars, passVars
<1>1. CASE PanicOnReplicas \/ RollingSurge \/ InPlaceBegin
  BY <1>1 DEF PanicOnReplicas, RollingSurge, InPlaceBegin, BeginPass, Enter, Elsewhere
<1>2. CASE Resize
  <2>1. PICK first : /\ first \in Oldest(Owned) \/ Owned = {}
                     /\ \E plan \in Switch(first) : Enter(plan)
    BY <1>2 DEF Resize
  <2> QED
    BY <1>2, <2>1, SwitchElsewhere DEF Resize, BeginPass
<1>3. CASE CloneRefused \/ DeleteMachine \/ DeleteNotFound \/ DeleteNode \/ Restart
  BY <1>3 DEF CloneRefused, DeleteMachine, DeleteNotFound, DeleteNode, Restart, Return, Elsewhere
<1>4. CASE UpgradeMachine \/ UpgradeLost
  BY <1>4, LoopElsewhere DEF UpgradeMachine, UpgradeLost, Visiting
<1>5. CASE UpgradeNoNode \/ UpgradePanic \/ UpgradeNoPod
  BY <1>5 DEF UpgradeNoNode, UpgradePanic, UpgradeNoPod, Visiting, Return, Elsewhere
<1>6. CASE Interrupt
  BY <1>6 DEF Interrupt, Return, Elsewhere
<1>7. CASE Edit \/ (\E m \in Machine : Observe(m) \/ Join(m) \/ Finish(m) \/ Take(m))
           \/ UNCHANGED vars
  BY <1>7 DEF Edit, Observe, Join, Finish, Take, vars
<1> QED
  BY <1>1, <1>2, <1>3, <1>4, <1>5, <1>6, <1>7 DEF Next, Controller

\* OrphansAreFailures is inductive once the types are known.
THEOREM OrphansCounted == Spec => []OrphansAreFailures
<1> USE DEF OrphansAreFailures, UnderWay
<1>1. Init => OrphansAreFailures
  BY BoundsAssumption DEF Init, BoundsAssumption
<1>2. TypeOK /\ OrphansAreFailures /\ [Next]_vars => OrphansAreFailures'
  <2> SUFFICES ASSUME TypeOK, OrphansAreFailures, [Next]_vars PROVE OrphansAreFailures'
    OBVIOUS
  <2>0. made \in Nat /\ infra \in Nat /\ configs \in Nat /\ faults \in Nat
    BY BoundsAssumption DEF TypeOK, ApiTypeOK, BoundsAssumption
  <2>1. CASE CloneInfra
    BY <2>0, <2>1 DEF CloneInfra
  <2>2. CASE GenerateConfig
    BY <2>0, <2>2 DEF GenerateConfig
  <2>3. CASE CreateMachine
    BY <2>0, <2>3 DEF CreateMachine, Return
  <2>4. CASE Elsewhere
    <3>1. CASE faults' = faults
      BY <2>0, <2>4, <3>1 DEF Elsewhere
    <3>2. CASE faults' = faults + 1
      BY <2>0, <2>4, <3>2 DEF Elsewhere
    <3> QED
      BY <2>4, <3>1, <3>2 DEF Elsewhere
  <2>5. CASE UNCHANGED <<made, infra, configs, pc, faults>>
    BY <2>5
  <2>6. CASE pc \in {"config", "create"} /\ Interrupt
    BY <2>0, <2>6 DEF Interrupt, Return, apiVars
  <2> QED
    BY <2>1, <2>2, <2>3, <2>4, <2>5, <2>6, BootsOrElsewhere
<1> QED
  BY <1>1, <1>2, TypeCorrect, PTL DEF Spec

-----------------------------------------------------------------------------
(* Nodes and their Machines.                                                *)

\* the pass is going to delete the Node of its Machine, without another look at it
NodeChosen == pc = "node" \/ after = "node"

\* whatever becomes of it, the Machine of that Node is not a live one any more
NodeIsLeft == NodeChosen => machine[target].st \in {"deleting", "gone"}

\* a Node is chosen after its Machine was deleted, or because the list shows its
\* Machine being deleted
LEMMA WhoChoosesNode ==
  ASSUME TypeOK, [Next]_vars, NodeChosen'
  PROVE  \/ NodeChosen /\ UNCHANGED target
         \/ DeleteMachine
         \/ /\ UNCHANGED <<apiVars, cache>>
            /\ \E first : /\ first \in Oldest(Owned) \/ Owned = {}
                          /\ \E plan \in Switch(first) :
                               plan[1] = "node" /\ target' = plan[2]
<1>1. CASE PanicOnReplicas \/ RollingSurge
  BY <1>1 DEF PanicOnReplicas, RollingSurge, BeginPass, Enter, Rest, loopVars, NodeChosen,
     TypeOK, PassTypeOK
<1>2. CASE InPlaceBegin
  <2>1. PICK first \in Oldest(Owned) :
          \E plan \in Switch(first) : after' = plan[1] /\ target' = plan[2]
    BY <1>2 DEF InPlaceBegin
  <2>2. UNCHANGED <<apiVars, cache>> /\ after' = "node"
    BY <1>2 DEF InPlaceBegin, BeginPass, NodeChosen
  <2> QED
    BY <2>1, <2>2
<1>3. CASE Resize
  <2>1. pc = "idle" /\ UNCHANGED <<apiVars, cache>> /\ after = "idle"
    BY <1>3 DEF Resize, BeginPass, TypeOK, PassTypeOK
  <2>2. PICK first : (first \in Oldest(Owned) \/ Owned = {})
                     /\ \E plan \in Switch(first) : Enter(plan)
    BY <1>3 DEF Resize
  <2>3. PICK plan \in Switch(first) : Enter(plan)
    BY <2>2
  <2>4. plan[1] = "node" /\ target' = plan[2]
    BY <2>1, <2>3 DEF Enter, Rest, loopVars, NodeChosen
  <2> QED
    BY <2>1, <2>2, <2>4
<1>4. CASE CloneInfra \/ GenerateConfig \/ DeleteMachine
  BY <1>4 DEF CloneInfra, GenerateConfig, loopVars, NodeChosen
<1>5. CASE CloneRefused \/ CreateMachine \/ DeleteNotFound \/ DeleteNode \/ UpgradeNoNode
           \/ Restart \/ Interrupt
  BY <1>5 DEF CloneRefused, CreateMachine, DeleteNotFound, DeleteNode, UpgradeNoNode, Restart,
     Interrupt, Return, Rest, NodeChosen
<1>6. CASE UpgradePanic \/ UpgradeNoPod
  BY <1>6 DEF UpgradePanic, UpgradeNoPod, Rest, NodeChosen
<1>7. CASE UpgradeMachine \/ UpgradeLost
  BY <1>7 DEF UpgradeMachine, UpgradeLost, NextMachine, Rest, NodeChosen
<1>8. CASE Edit \/ (\E m \in Machine : Observe(m) \/ Join(m) \/ Finish(m) \/ Take(m))
           \/ UNCHANGED vars
  BY <1>8 DEF Edit, Observe, Join, Finish, Take, vars, passVars, loopVars, NodeChosen
<1> QED
  BY <1>1, <1>2, <1>3, <1>4, <1>5, <1>6, <1>7, <1>8 DEF Next, Controller

\* scaleDownControlPlane goes straight to the Node of a Machine that it sees deleted
LEMMA ListedAsDeleted ==
  ASSUME TypeOK, NEW first, first \in Oldest(Owned) \/ Owned = {},
         NEW plan \in Switch(first), plan[1] = "node"
  PROVE  plan[2] \in Machine /\ cache[plan[2]].st = "deleting"
<1>1. plan \in ScaleDown(first)
  BY DEF Switch
<1>2. PICK m \in Newest(Blocking) : plan = StopAt(m)
  BY <1>1 DEF ScaleDown
<1>3. m \in Machine
  BY <1>2, OwnedAreMachines DEF Newest, Blocking
<1> QED
  BY <1>2, <1>3 DEF StopAt

LEMMA NodeIsLeftStep ==
  ASSUME TypeOK, TypeOK', OrderInv, NodeIsLeft, [Next]_vars
  PROVE  NodeIsLeft'
<1> SUFFICES ASSUME NodeChosen' PROVE machine'[target'].st \in {"deleting", "gone"}
  BY DEF NodeIsLeft
<1>1. CASE NodeChosen /\ UNCHANGED target
  <2>1. target \in Machine /\ machine[target].st \in {"deleting", "gone"}
    BY <1>1 DEF NodeIsLeft, NodeChosen, TypeOK, PassTypeOK
  <2> QED
    BY <1>1, <2>1, EachMoves DEF OrderInv, Moves
<1>2. CASE DeleteMachine
  BY <1>2 DEF DeleteMachine, TypeOK, ApiTypeOK, PassTypeOK
<1>3. ASSUME UNCHANGED <<apiVars, cache>>,
             NEW first, first \in Oldest(Owned) \/ Owned = {},
             NEW plan \in Switch(first), plan[1] = "node", target' = plan[2]
      PROVE  machine'[target'].st \in {"deleting", "gone"}
  <2>1. target' \in Machine /\ cache[target'].st = "deleting"
    BY <1>3, ListedAsDeleted
  <2>2. machine[target'].st \in {"deleting", "gone"}
    BY <2>1 DEF OrderInv, CacheBehind, Past, TypeOK, ApiTypeOK, MachineObject, Stage
  <2> QED
    BY <1>3, <2>2 DEF apiVars
<1> QED
  BY <1>1, <1>2, <1>3, WhoChoosesNode

\* scaleDownControlPlane deletes the Machine before its Node, and no interleaving with
\* stale lists, failures, restarts or other clients takes the Node of a live Machine
\* out of the workload cluster.
THEOREM NodeGoesLast == Spec => NodeOutlivesMachine
<1> DEFINE LeftOnly == \A m \in nodes \ nodes' : machine[m].st \in {"deleting", "gone"}
<1>1. Init => NodeIsLeft
  BY DEF Init, NodeIsLeft, NodeChosen
<1>2. TypeOK /\ TypeOK' /\ OrderInv /\ NodeIsLeft /\ [Next]_vars => NodeIsLeft'
  BY NodeIsLeftStep
<1>3. TypeOK /\ NodeIsLeft /\ [Next]_vars => [LeftOnly]_vars
  <2> SUFFICES ASSUME TypeOK, NodeIsLeft, [Next]_vars PROVE LeftOnly
    OBVIOUS
  <2>1. CASE DeleteNode
    BY <2>1 DEF DeleteNode, NodeIsLeft, NodeChosen
  <2>2. ASSUME NEW m \in Machine, Finish(m) PROVE LeftOnly
    BY <2>2 DEF Finish
  <2>3. CASE nodes \subseteq nodes'
    BY <2>3
  <2>4. CASE Controller /\ ~DeleteNode
    BY <2>3, <2>4 DEF Controller, PanicOnReplicas, RollingSurge, InPlaceBegin, Resize, BeginPass,
       CloneInfra, CloneRefused, GenerateConfig, CreateMachine, DeleteMachine, DeleteNotFound,
       UpgradeMachine, UpgradeNoNode, UpgradePanic, Restart, apiVars
  <2>5. CASE \/ UpgradeLost \/ UpgradeNoPod \/ Interrupt \/ Edit \/ UNCHANGED vars
             \/ \E m \in Machine : Observe(m) \/ Join(m) \/ Take(m)
    BY <2>3, <2>5 DEF UpgradeLost, UpgradeNoPod, Interrupt, Edit, Observe, Join, Take, vars, apiVars
  <2> QED
    BY <2>1, <2>2, <2>4, <2>5 DEF Next
<1> QED
  BY <1>1, <1>2, <1>3, TypeCorrect, OrderCorrect, PTL DEF Spec, NodeOutlivesMachine
=============================================================================
