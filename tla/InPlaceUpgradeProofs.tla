------------------------- MODULE InPlaceUpgradeProofs -------------------------
(***************************************************************************)
(* Theorems about module InPlaceUpgrade, for every number of Machines,     *)
(* every set of versions and edits, and every bound on failures.           *)
(***************************************************************************)
EXTENDS InPlaceUpgrade, FiniteSetTheorems, TLAPS

\* What the loop is sure of as long as nothing failed: the only pod is its own,
\* the only refresh the one it waits for, and each call leaves what the next needs.
PodIsTheLoops ==
  /\ pc # "panic"
  /\ pod = mine
  /\ pc \in {"wait", "update", "remove"} => mine # NoPod

RefreshIsAwaited == \A m \in Machine :
  refresh[m] # None => m = cur /\ refresh[m] = goal /\ kubelet[m] # goal /\ pc = "wait"

LoopKeepsClaims ==
  /\ \A m \in Machine \ {cur} : kubelet[m] = version[m]
  /\ pc = "pod" => kubelet[cur] = version[cur]
  /\ pc \in {"update", "remove"} => kubelet[cur] = goal
  /\ pc = "remove" => version[cur] = goal

Undisturbed == faults = 0 => PodIsTheLoops /\ RefreshIsAwaited /\ LoopKeepsClaims

\* The Nodes that a refresh or the pod keeps busy.
PodNode == IF pod = NoPod THEN {} ELSE {pod.node}
Busy    == Refreshing \cup PodNode

\* The turn of the loop's Machine is over: no refresh is left on its Node.
Done == kubelet[cur] = goal /\ refresh[cur] = None

\* Every busy Node is owed to a failure: there is no pod, or the loop's own pod is on
\* a Node that was refreshing before its turn, or whose wait was cut short.
AllOwed ==
  \/ pod = NoPod
  \/ mine # NoPod /\ pc = "wait" /\ kubelet[cur] = goal /\ ~Done
  \/ mine # NoPod /\ pc \in {"update", "remove"} /\ ~Done

\* Each failure leaves at most one Node busy, besides the one the loop works on.
FailuresCount ==
  /\ Cardinality(Busy) <= faults + 1
  /\ AllOwed => Cardinality(Busy) <= faults

-----------------------------------------------------------------------------
LEMMA InitTyped == Init => InPlaceTypeOK
BY InPlaceAssumption DEF Init, InPlaceTypeOK, Machine, Call, NoPod

LEMMA StepTyped == InPlaceTypeOK /\ [Next]_vars => InPlaceTypeOK'
<1> SUFFICES ASSUME InPlaceTypeOK, [Next]_vars PROVE InPlaceTypeOK'
  OBVIOUS
<1> USE InPlaceAssumption DEF InPlaceTypeOK, nodeVars, passVars
<1>1. CASE BeginUpgrade
  BY <1>1 DEF BeginUpgrade, Call, Machine
<1>2. CASE CreateUpgradePod
  BY <1>2 DEF CreateUpgradePod, Call, NoPod
<1>3. CASE CreateUpgradePodFails
  BY <1>3 DEF CreateUpgradePodFails, Fault, Call
<1>4. CASE WaitForNodeUpgrade \/ WaitGivesUp
  BY <1>4 DEF WaitForNodeUpgrade, WaitGivesUp, Fault, Call
<1>5. CASE UpdateMachine
  BY <1>5 DEF UpdateMachine, Call
<1>6. CASE UpdateMachineFails
  BY <1>6 DEF UpdateMachineFails, Fault, Call
<1>7. CASE WaitForPodDeletion
  BY <1>7 DEF WaitForPodDeletion, NextMachine, Forget, Call, Machine
<1>8. CASE WaitForPodDeletionFails
  BY <1>8 DEF WaitForPodDeletionFails, NextMachine, Forget, Fault, Call, Machine
<1>9. CASE PanicOnNilPod \/ Restart
  BY <1>9 DEF PanicOnNilPod, Restart, Forget, Call
<1>10. CASE Interrupt
  BY <1>10 DEF Interrupt, Forget, Fault, Call
<1>11. CASE RunPod
  BY <1>11 DEF RunPod
<1>12. ASSUME NEW m \in Machine, Refreshed(m) PROVE InPlaceTypeOK'
  BY <1>12 DEF Refreshed
<1>13. ASSUME NEW m \in Machine, RefreshFails(m) PROVE InPlaceTypeOK'
  BY <1>13 DEF RefreshFails, Fault
<1>14. CASE Edit
  BY <1>14 DEF Edit
<1>15. CASE UNCHANGED vars
  BY <1>15 DEF vars
<1> QED
  BY <1>1, <1>2, <1>3, <1>4, <1>5, <1>6, <1>7, <1>8, <1>9, <1>10, <1>11, <1>12,
     <1>13, <1>14, <1>15 DEF Next, Controller

\* The loop has a Machine exactly while it runs and points to its own pod only
\* between createUpgradePod and waitForPodDeletion, whatever fails.
THEOREM InPlaceTyped == Spec => []InPlaceTypeOK
BY InitTyped, StepTyped, PTL DEF Spec

-----------------------------------------------------------------------------
\* A step that counts no failure is none of the failing ones.
LEMMA FaultsGrow ==
  ASSUME InPlaceTypeOK, [Next]_vars, faults' = 0
  PROVE  /\ faults = 0
         /\ ~CreateUpgradePodFails /\ ~UpdateMachineFails /\ ~WaitForPodDeletionFails
         /\ ~Interrupt /\ \A m \in Machine : ~RefreshFails(m)
<1> USE InPlaceAssumption DEF InPlaceTypeOK, nodeVars, passVars
<1>1. ~Fault
  BY DEF Fault
<1>2. faults = 0
  BY <1>1 DEF Next, Controller, BeginUpgrade, CreateUpgradePod, WaitForNodeUpgrade, WaitGivesUp,
     UpdateMachine, WaitForPodDeletion, PanicOnNilPod, Restart, CreateUpgradePodFails,
     UpdateMachineFails, WaitForPodDeletionFails, Interrupt, RunPod, Edit, Refreshed,
     RefreshFails, vars
<1> QED
  BY <1>1, <1>2 DEF CreateUpgradePodFails, UpdateMachineFails, WaitForPodDeletionFails,
     Interrupt, RefreshFails

LEMMA StepUndisturbed == InPlaceTypeOK /\ Undisturbed /\ [Next]_vars => Undisturbed'
<1> SUFFICES ASSUME InPlaceTypeOK, Undisturbed, [Next]_vars, faults' = 0
             PROVE  PodIsTheLoops' /\ RefreshIsAwaited' /\ LoopKeepsClaims'
  BY DEF Undisturbed
<1>0. /\ PodIsTheLoops /\ RefreshIsAwaited /\ LoopKeepsClaims
      /\ ~CreateUpgradePodFails /\ ~UpdateMachineFails /\ ~WaitForPodDeletionFails
      /\ ~Interrupt /\ \A m \in Machine : ~RefreshFails(m)
  BY FaultsGrow DEF Undisturbed
<1>1. CASE BeginUpgrade
  BY <1>0, <1>1, InPlaceAssumption DEF BeginUpgrade, nodeVars, InPlaceTypeOK, Machine, None,
     PodIsTheLoops, RefreshIsAwaited, LoopKeepsClaims
<1>2. CASE CreateUpgradePod
  BY <1>0, <1>2, InPlaceAssumption DEF CreateUpgradePod, nodeVars, InPlaceTypeOK, NoPod, Machine, None,
     PodIsTheLoops, RefreshIsAwaited, LoopKeepsClaims
<1>3. CASE WaitForNodeUpgrade
  BY <1>0, <1>3, InPlaceAssumption DEF WaitForNodeUpgrade, nodeVars, InPlaceTypeOK,
     PodIsTheLoops, RefreshIsAwaited, LoopKeepsClaims
<1>4. CASE WaitGivesUp
  \* the loop's pod is there, so the wait is not hopeless
  BY <1>0, <1>4 DEF WaitGivesUp, Hopeless, Fault, InPlaceTypeOK, PodIsTheLoops
<1>5. CASE UpdateMachine
  BY <1>0, <1>5, InPlaceAssumption DEF UpdateMachine, nodeVars, InPlaceTypeOK,
     PodIsTheLoops, RefreshIsAwaited, LoopKeepsClaims
<1>6. CASE WaitForPodDeletion
  <2>1. PodIsTheLoops'
    BY <1>0, <1>6 DEF WaitForPodDeletion, NextMachine, Forget, PodIsTheLoops
  <2>2. RefreshIsAwaited'
    BY <1>0, <1>6 DEF WaitForPodDeletion, nodeVars, RefreshIsAwaited
  <2>3. LoopKeepsClaims'
    BY <1>0, <1>6, InPlaceAssumption DEF WaitForPodDeletion, NextMachine, Forget, nodeVars,
       InPlaceTypeOK, Machine, LoopKeepsClaims
  <2> QED BY <2>1, <2>2, <2>3
<1>7. CASE PanicOnNilPod \/ Restart
  BY <1>0, <1>7 DEF PanicOnNilPod, Restart, PodIsTheLoops
<1>8. CASE RunPod
  <2>1. pod = [node |-> cur, channel |-> goal] /\ kubelet[cur] # goal /\ cur \in Machine
    BY <1>0, <1>8, InPlaceAssumption DEF RunPod, PodIsTheLoops, InPlaceTypeOK, NoPod
  <2>2. pc = "wait"
    BY <1>0, <1>8, <2>1 DEF RunPod, PodIsTheLoops, LoopKeepsClaims, InPlaceTypeOK
  <2> QED
    BY <1>0, <1>8, <2>1, <2>2 DEF RunPod, passVars, InPlaceTypeOK,
       PodIsTheLoops, RefreshIsAwaited, LoopKeepsClaims
<1>9. ASSUME NEW m \in Machine, Refreshed(m)
      PROVE  PodIsTheLoops' /\ RefreshIsAwaited' /\ LoopKeepsClaims'
  BY <1>0, <1>9 DEF Refreshed, passVars, InPlaceTypeOK,
     PodIsTheLoops, RefreshIsAwaited, LoopKeepsClaims
<1>10. CASE Edit \/ UNCHANGED vars
  BY <1>0, <1>10 DEF Edit, vars, nodeVars, passVars,
     PodIsTheLoops, RefreshIsAwaited, LoopKeepsClaims
<1> QED
  BY <1>0, <1>1, <1>2, <1>3, <1>4, <1>5, <1>6, <1>7, <1>8, <1>9, <1>10 DEF Next, Controller

\* As long as no call and no refresh failed, a Node that reconcileMachines is not
\* working on runs the version its Machine claims, and the upgrade pod is the loop's.
THEOREM ClaimsAreTrue == Spec => []ClaimsWhatRuns
<1>1. Init => Undisturbed
  BY InPlaceAssumption DEF Init, Undisturbed, PodIsTheLoops, RefreshIsAwaited,
     LoopKeepsClaims, InPlaceTypeOK, NoPod
<1>2. InPlaceTypeOK /\ Undisturbed => ClaimsWhatRuns
  BY InPlaceAssumption DEF InPlaceTypeOK, Undisturbed, PodIsTheLoops, RefreshIsAwaited,
     LoopKeepsClaims, ClaimsWhatRuns
<1> QED
  BY <1>1, <1>2, StepUndisturbed, InPlaceTyped, PTL DEF Spec

-----------------------------------------------------------------------------
LEMMA MachinesFinite == IsFiniteSet(Machine)
BY FS_Interval, InPlaceAssumption DEF Machine

\* The counts that FailuresCount compares are numbers, and fewer busy Nodes count less.
LEMMA BusyCounts ==
  ASSUME InPlaceTypeOK
  PROVE  /\ IsFiniteSet(Busy) /\ Cardinality(Busy) \in Nat
         /\ \A S \in SUBSET Busy : Cardinality(S) \in Nat /\ Cardinality(S) <= Cardinality(Busy)
<1>1. Busy \subseteq Machine
  BY DEF Busy, Refreshing, PodNode, InPlaceTypeOK
<1>2. IsFiniteSet(Busy)
  BY <1>1, MachinesFinite, FS_Subset
<1> QED
  BY <1>2, FS_Subset, FS_CardinalityType

\* A step after which no other Node is busy keeps the count, if it does not use up a
\* failure that was owed.
LEMMA NoneBusier ==
  ASSUME InPlaceTypeOK, FailuresCount, Busy' \subseteq Busy,
         \/ faults' = faults /\ (AllOwed' => AllOwed)
         \/ faults' = faults + 1
  PROVE  FailuresCount'
<1>1. /\ Cardinality(Busy') \in Nat /\ Cardinality(Busy) \in Nat
      /\ Cardinality(Busy') <= Cardinality(Busy)
  BY BusyCounts
<1>2. faults \in Nat
  BY InPlaceAssumption DEF InPlaceTypeOK
<1>3. CASE faults' = faults /\ (AllOwed' => AllOwed)
  BY <1>1, <1>2, <1>3 DEF FailuresCount
<1>4. CASE faults' = faults + 1
  BY <1>1, <1>2, <1>4 DEF FailuresCount
<1> QED
  BY <1>3, <1>4

LEMMA StepCounts == InPlaceTypeOK /\ FailuresCount /\ [Next]_vars => FailuresCount'
<1> SUFFICES ASSUME InPlaceTypeOK, FailuresCount, [Next]_vars PROVE FailuresCount'
  OBVIOUS
<1> USE InPlaceAssumption DEF InPlaceTypeOK, nodeVars, passVars
<1>0. InPlaceTypeOK' /\ NoPod \notin [node : Machine, channel : Version]
  BY StepTyped DEF NoPod
<1>1. CASE BeginUpgrade
  <2>1. Busy' = Busy
    BY <1>1 DEF BeginUpgrade, Busy, Refreshing, PodNode
  <2> QED
    BY <1>1, <2>1, NoneBusier DEF BeginUpgrade, AllOwed
<1>2. CASE CreateUpgradePod
  <2>1. CASE pod = NoPod
    <3>1. pod' = [node |-> cur, channel |-> goal] /\ Busy' = Busy \cup {cur}
      BY <1>2, <2>1 DEF CreateUpgradePod, Busy, Refreshing, PodNode, NoPod
    <3>2. Cardinality(Busy) \in Nat /\ Cardinality(Busy) <= faults
      BY <2>1, BusyCounts DEF FailuresCount, AllOwed
    <3>3. CASE cur \in Busy
      BY <1>2, <3>1, <3>2, <3>3, Busy' = Busy DEF CreateUpgradePod, FailuresCount
    <3>4. CASE cur \notin Busy
      <4>1. Cardinality(Busy') = Cardinality(Busy) + 1
        BY <3>1, <3>4, BusyCounts, FS_AddElement
      <4>2. refresh[cur] = None /\ pod' # NoPod
        BY <1>2, <3>1, <3>4 DEF CreateUpgradePod, Busy, Refreshing, NoPod
      <4>3. ~AllOwed'
        BY <1>2, <4>2 DEF CreateUpgradePod, AllOwed, Done
      <4> QED
        BY <1>2, <3>2, <4>1, <4>3 DEF CreateUpgradePod, FailuresCount
    <3> QED
      BY <3>3, <3>4
  <2>2. CASE pod # NoPod
    <3>1. Busy' = Busy
      BY <1>2, <2>2 DEF CreateUpgradePod, Busy, Refreshing, PodNode
    <3> QED
      BY <1>2, <2>2, <3>1, NoneBusier DEF CreateUpgradePod, AllOwed
  <2> QED
    BY <2>1, <2>2
<1>3. CASE CreateUpgradePodFails \/ UpdateMachineFails \/ WaitForPodDeletionFails \/ Interrupt
  <2>1. Busy' = Busy /\ faults' = faults + 1
    BY <1>3 DEF CreateUpgradePodFails, UpdateMachineFails, WaitForPodDeletionFails, Interrupt,
       Fault, Busy, Refreshing, PodNode
  <2> QED
    BY <2>1, NoneBusier
<1>4. CASE WaitForNodeUpgrade
  <2>1. Busy' = Busy
    BY <1>4 DEF WaitForNodeUpgrade, Busy, Refreshing, PodNode
  <2>2. AllOwed' => AllOwed
    BY <1>4 DEF WaitForNodeUpgrade, AllOwed, Done
  <2> QED
    BY <1>4, <2>1, <2>2, NoneBusier DEF WaitForNodeUpgrade
<1>5. CASE WaitGivesUp
  <2>1. Busy' = Busy
    BY <1>5 DEF WaitGivesUp, Busy, Refreshing, PodNode
  <2>2. CASE Hopeless /\ UNCHANGED faults
    <3>1. mine = NoPod
      BY <2>2 DEF Hopeless
    <3> QED
      BY <1>5, <2>1, <2>2, <3>1, NoneBusier DEF WaitGivesUp, AllOwed
  <2>3. CASE Fault
    BY <2>1, <2>3, NoneBusier DEF Fault
  <2> QED
    BY <1>5, <2>2, <2>3 DEF WaitGivesUp
<1>6. CASE UpdateMachine
  <2>1. Busy' = Busy
    BY <1>6 DEF UpdateMachine, Busy, Refreshing, PodNode
  <2>2. AllOwed' => AllOwed
    BY <1>6 DEF UpdateMachine, AllOwed, Done
  <2> QED
    BY <1>6, <2>1, <2>2, NoneBusier DEF UpdateMachine
<1>7. CASE WaitForPodDeletion
  \* when the turn is over, its Node is not busy any more
  <2>1. Busy' = Refreshing /\ Busy = Refreshing \cup {cur} /\ faults' = faults
    BY <1>7 DEF WaitForPodDeletion, Busy, Refreshing, PodNode
  <2>2. CASE Done
    <3>1. cur \notin Busy' /\ cur \in Busy /\ Busy' = Busy \ {cur}
      BY <2>1, <2>2 DEF Done, Refreshing
    <3>2. Cardinality(Busy') = Cardinality(Busy) - 1
      BY <3>1, BusyCounts, FS_RemoveElement
    <3> QED
      BY <2>1, <3>2, BusyCounts DEF FailuresCount
  <2>3. CASE ~Done
    <3>1. AllOwed
      BY <1>7, <2>3 DEF WaitForPodDeletion, AllOwed
    <3> QED
      BY <2>1, <3>1, NoneBusier
  <2> QED
    BY <2>2, <2>3
<1>8. CASE PanicOnNilPod \/ Restart
  <2>1. Busy' = Busy
    BY <1>8 DEF PanicOnNilPod, Restart, Busy, Refreshing, PodNode
  <2> QED
    BY <1>8, <2>1, NoneBusier DEF PanicOnNilPod, Restart, Forget, AllOwed
<1>9. CASE RunPod
  \* the Node was busy already: the pod is on it
  <2>1. Busy' \subseteq Busy
    BY <1>0, <1>9 DEF RunPod, Busy, Refreshing, PodNode
  <2>2. AllOwed' => AllOwed
    BY <1>0, <1>9 DEF RunPod, AllOwed, Done
  <2> QED
    BY <1>9, <2>1, <2>2, NoneBusier DEF RunPod
<1>10. ASSUME NEW m \in Machine, Refreshed(m) PROVE FailuresCount'
  <2>1. Busy' \subseteq Busy
    BY <1>10 DEF Refreshed, Busy, Refreshing, PodNode
  <2>2. AllOwed' => AllOwed
    BY <1>10 DEF Refreshed, AllOwed, Done
  <2> QED
    BY <1>10, <2>1, <2>2, NoneBusier DEF Refreshed
<1>11. ASSUME NEW m \in Machine, RefreshFails(m) PROVE FailuresCount'
  <2>1. Busy' \subseteq Busy /\ faults' = faults + 1
    BY <1>11 DEF RefreshFails, Fault, Busy, Refreshing, PodNode
  <2> QED
    BY <2>1, NoneBusier
<1>12. CASE Edit \/ UNCHANGED vars
  <2>1. Busy' = Busy
    BY <1>12 DEF Edit, vars, Busy, Refreshing, PodNode
  <2> QED
    BY <1>12, <2>1, NoneBusier DEF Edit, vars, AllOwed, Done
<1> QED
  BY <1>1, <1>2, <1>3, <1>4, <1>5, <1>6, <1>7, <1>8, <1>9, <1>10, <1>11, <1>12
  DEF Next, Controller

\* reconcileMachines never has more Nodes refreshed at a time than the one it waits
\* for and one for every call or refresh that failed.
THEOREM OneAtATime == Spec => []OneNodeAtATime
<1>1. Init => FailuresCount
  <2> SUFFICES ASSUME Init PROVE FailuresCount
    OBVIOUS
  <2>1. Busy = {}
    BY DEF Init, Busy, Refreshing, PodNode
  <2> QED
    BY <2>1, FS_EmptySet DEF Init, FailuresCount
<1>2. InPlaceTypeOK /\ FailuresCount => OneNodeAtATime
  <2> SUFFICES ASSUME InPlaceTypeOK, FailuresCount PROVE OneNodeAtATime
    OBVIOUS
  <2>1. Refreshing \in SUBSET Busy /\ faults \in Nat
    BY InPlaceAssumption DEF Busy, InPlaceTypeOK
  <2>2. Cardinality(Refreshing) <= Cardinality(Busy)
    BY <2>1, BusyCounts
  <2> QED
    BY <2>1, <2>2, BusyCounts DEF FailuresCount, OneNodeAtATime
<1> QED
  BY <1>1, <1>2, StepCounts, InPlaceTyped, PTL DEF Spec

-----------------------------------------------------------------------------
\* Between passes all Nodes run one version; in a pass those before the loop's Machine
\* run the new one, those after it the old one, and its own one of the two.
OldOrNew(old) == \A m \in Machine :
  /\ m < cur => kubelet[m] = goal
  /\ m > cur => kubelet[m] = old
  /\ m = cur => kubelet[m] \in {goal, old}

InTurn == faults = 0 =>
  /\ pc = "idle" => \A m, n \in Machine : kubelet[m] = kubelet[n]
  /\ pc # "idle" => \E old \in Version : OldOrNew(old)

\* The loop goes on with the Nodes up to this one upgraded.
LEMMA NextInTurn ==
  ASSUME InPlaceTypeOK, cur \in Machine, NEW old \in Version, OldOrNew(old),
         kubelet[cur] = goal, NextMachine, kubelet' = kubelet
  PROVE  InTurn'
<1> USE InPlaceAssumption DEF InPlaceTypeOK, NextMachine, Machine, OldOrNew
<1>1. CASE cur < NumMachines
  <2>1. OldOrNew(old)' /\ pc' = "pod"
    BY <1>1
  <2> QED
    BY <2>1 DEF InTurn
<1>2. CASE ~(cur < NumMachines)
  <2>1. \A m \in Machine : kubelet'[m] = goal
    BY <1>2
  <2> QED
    BY <1>2, <2>1 DEF InTurn
<1> QED
  BY <1>1, <1>2

LEMMA StepInTurn == InPlaceTypeOK /\ Undisturbed /\ InTurn /\ [Next]_vars => InTurn'
<1> SUFFICES ASSUME InPlaceTypeOK, Undisturbed, InTurn, [Next]_vars, faults' = 0 PROVE InTurn'
  BY DEF InTurn
<1>0. /\ faults = 0 /\ PodIsTheLoops /\ RefreshIsAwaited /\ LoopKeepsClaims
      /\ ~CreateUpgradePodFails /\ ~UpdateMachineFails /\ ~WaitForPodDeletionFails
      /\ ~Interrupt /\ \A m \in Machine : ~RefreshFails(m)
  BY FaultsGrow DEF Undisturbed
<1>1. CASE BeginUpgrade
  <2>1. PICK old \in Version : \A m \in Machine : kubelet[m] = old
    BY <1>0, <1>1, InPlaceAssumption DEF BeginUpgrade, InTurn, InPlaceTypeOK, Machine
  <2>2. OldOrNew(old)'
    BY <1>1, <2>1 DEF BeginUpgrade, nodeVars, OldOrNew, Machine
  <2> QED
    BY <1>1, <2>2 DEF BeginUpgrade, InTurn
<1>2. CASE CreateUpgradePod \/ WaitForNodeUpgrade \/ WaitGivesUp \/ UpdateMachine \/ RunPod
  BY <1>0, <1>2 DEF CreateUpgradePod, WaitForNodeUpgrade, WaitGivesUp, UpdateMachine, RunPod,
     nodeVars, passVars, InTurn, OldOrNew
<1>3. CASE WaitForPodDeletion
  <2>1. PICK old \in Version : OldOrNew(old)
    BY <1>0, <1>3 DEF WaitForPodDeletion, InTurn
  <2>2. kubelet[cur] = goal /\ cur \in Machine
    BY <1>0, <1>3 DEF WaitForPodDeletion, LoopKeepsClaims, InPlaceTypeOK
  <2> QED
    BY <1>3, <2>1, <2>2, NextInTurn DEF WaitForPodDeletion, nodeVars
<1>4. CASE PanicOnNilPod \/ Restart
  BY <1>0, <1>4 DEF PanicOnNilPod, Restart, PodIsTheLoops
<1>5. ASSUME NEW m \in Machine, Refreshed(m) PROVE InTurn'
  \* the refreshed Node is the loop's, and now runs the version of the pass
  <2>1. m = cur /\ refresh[m] = goal /\ pc = "wait"
    BY <1>0, <1>5 DEF Refreshed, RefreshIsAwaited
  <2>2. PICK old \in Version : OldOrNew(old)
    BY <1>0, <2>1 DEF InTurn
  <2>3. OldOrNew(old)'
    BY <1>5, <2>1, <2>2 DEF Refreshed, passVars, OldOrNew, InPlaceTypeOK
  <2> QED
    BY <1>5, <2>1, <2>3 DEF Refreshed, passVars, InTurn
<1>6. CASE Edit \/ UNCHANGED vars
  BY <1>0, <1>6 DEF Edit, vars, nodeVars, passVars, InTurn, OldOrNew
<1> QED
  BY <1>0, <1>1, <1>2, <1>3, <1>4, <1>5, <1>6 DEF Next, Controller

\* A set of at most two values has at most two members.
LEMMA NoThree ==
  ASSUME NEW a, NEW b, NEW S, S \subseteq {a, b}
  PROVE  Cardinality(S) <= 2
<1>1. IsFiniteSet({a, b}) /\ Cardinality({a, b}) <= 2
  <2>1. /\ IsFiniteSet({a}) /\ Cardinality({a}) = 1
    BY FS_Singleton
  <2>2. IsFiniteSet({a} \cup {b})
        /\ Cardinality({a} \cup {b}) = IF b \in {a} THEN 1 ELSE 1 + 1
    BY <2>1, FS_AddElement
  <2>3. {a} \cup {b} = {a, b}
    OBVIOUS
  <2> QED
    BY <2>2, <2>3
<1> QED
  BY <1>1, FS_Subset, FS_CardinalityType

\* While nothing fails, reconcileMachines never has more than two versions run in the
\* control plane, whatever the user asks for meanwhile.
THEOREM TwoVersionsAtMost == Spec => []AtMostTwoVersions
<1>1. Init => Undisturbed /\ InTurn
  BY InPlaceAssumption DEF Init, Undisturbed, PodIsTheLoops, RefreshIsAwaited,
     LoopKeepsClaims, InPlaceTypeOK, NoPod, InTurn
<1>2. InPlaceTypeOK /\ Undisturbed /\ InTurn => AtMostTwoVersions
  <2> SUFFICES ASSUME InPlaceTypeOK, Undisturbed, InTurn, faults = 0
               PROVE  Cardinality({kubelet[m] : m \in Machine}) <= 2
    BY DEF AtMostTwoVersions
  <2>1. CASE pc = "idle"
    <3>1. {kubelet[m] : m \in Machine} \subseteq {kubelet[1], kubelet[1]}
      BY <2>1, InPlaceAssumption DEF InTurn, Machine
    <3> QED
      BY <3>1, NoThree
  <2>2. CASE pc # "idle"
    <3>1. PICK old \in Version : OldOrNew(old)
      BY <2>2 DEF InTurn
    <3>2. {kubelet[m] : m \in Machine} \subseteq {goal, old}
      BY <2>2, <3>1, InPlaceAssumption DEF Undisturbed, PodIsTheLoops, OldOrNew,
         InPlaceTypeOK, Machine
    <3> QED
      BY <3>2, NoThree
  <2> QED
    BY <2>1, <2>2
<1> QED
  BY <1>1, <1>2, StepUndisturbed, StepInTurn, InPlaceTyped, PTL DEF Spec
=============================================================================
