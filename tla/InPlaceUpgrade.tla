---------------------------- MODULE InPlaceUpgrade ----------------------------
(***************************************************************************)
(* The in-place loop of reconcileMachines, call by call: createUpgradePod, *)
(* waitForNodeUpgrade, the Update of the Machine and waitForPodDeletion,   *)
(* with the pod that asks snapd for a refresh and the kubelet that comes   *)
(* back with the new version.                                              *)
(*                                                                         *)
(* The Machines neither come nor go here, and each has a Node: module      *)
(* ReconcileMachines has that side of the loop.  A version stands for the  *)
(* major and minor number, all that the loop looks at.                     *)
(***************************************************************************)
EXTENDS Naturals, FiniteSets

CONSTANTS
  NumMachines,  \* listed Machines, in the order of their creation
  Version,      \* values of spec.version
  First,        \* the one in force at the start
  Edits,        \* pairs of versions: the changes the user may make
  MaxFaults     \* bound: calls that fail, refreshes that fail or take too long

None == 0

ASSUME InPlaceAssumption ==
  /\ NumMachines \in Nat \ {0} /\ MaxFaults \in Nat
  /\ None \notin Version
  /\ First \in Version
  /\ Edits \subseteq Version \X Version

Machine == 1 .. NumMachines

VARIABLES
  want,     \* spec.version of the MicroK8sControlPlane
  version,  \* spec.version of each Machine
  kubelet,  \* what its Node runs
  refresh,  \* the refresh snapd works on, on each Node
  pod,      \* the pod named "upgrade-pod": its Node and channel
  pc,       \* the call the current pass makes next
  cur,      \* the loop's Machine
  goal,     \* spec.version as the pass has read it
  mine,     \* the loop's variable pod; NoPod is nil
  faults    \* failures so far

nodeVars == <<kubelet, refresh>>
passVars == <<pc, cur, goal, mine>>
vars     == <<want, version, nodeVars, pod, passVars, faults>>

NoPod == [node |-> None, channel |-> None]
Call  == {"idle", "pod", "wait", "update", "remove", "panic"}

Init ==
  /\ want = First
  /\ version = [m \in Machine |-> First]
  /\ kubelet = version
  /\ refresh = [m \in Machine |-> None]
  /\ pod = NoPod
  /\ pc = "idle" /\ cur = None /\ goal = None /\ mine = NoPod
  /\ faults = 0

Fault  == faults < MaxFaults /\ faults' = faults + 1
Forget == cur' = None /\ goal' = None /\ mine' = NoPod

-----------------------------------------------------------------------------
(* The controller.                                                          *)

\* a bug: the last Machine of the list is compared with the spec
BeginUpgradeByNewest ==
  /\ pc = "idle" /\ version[NumMachines] # want
  /\ pc' = "pod" /\ cur' = 1 /\ goal' = want
  /\ UNCHANGED <<want, version, nodeVars, pod, mine, faults>>

\* only the first Machine of the list is compared with the spec
BeginUpgrade ==
  /\ pc = "idle" /\ version[1] # want
  /\ pc' = "pod" /\ cur' = 1 /\ goal' = want
  /\ UNCHANGED <<want, version, nodeVars, pod, mine, faults>>

\* the pod has one fixed name: if a pod is left over, the creation fails, which
\* is logged, and the loop goes on with a nil pod
CreateUpgradePod ==
  /\ pc = "pod" /\ pc' = "wait"
  /\ IF pod = NoPod
     THEN pod' = [node |-> cur, channel |-> goal] /\ mine' = pod'
     ELSE mine' = NoPod /\ UNCHANGED pod
  /\ UNCHANGED <<want, version, nodeVars, cur, goal, faults>>

CreateUpgradePodFails ==
  /\ pc = "pod" /\ pc' = "wait"
  /\ Fault /\ mine' = NoPod
  /\ UNCHANGED <<want, version, nodeVars, pod, cur, goal>>

\* a bug: the wait is over as soon as the Node answers
WaitForAnyVersion ==
  /\ pc = "wait" /\ pc' = "update"
  /\ UNCHANGED <<want, version, nodeVars, pod, cur, goal, mine, faults>>

WaitForNodeUpgrade ==
  /\ pc = "wait" /\ pc' = "update"
  /\ kubelet[cur] = goal
  /\ UNCHANGED <<want, version, nodeVars, pod, cur, goal, mine, faults>>

\* nothing is going to upgrade the Node
Hopeless == /\ kubelet[cur] # goal /\ refresh[cur] # goal
            /\ pod # [node |-> cur, channel |-> goal]

\* sixty attempts are used up and nil is returned, or one Get fails and its error
\* is logged: the loop goes on.  While the upgrade is under way, either counts as
\* a failure.
WaitGivesUp ==
  /\ pc = "wait" /\ pc' = "update"
  /\ \/ Hopeless /\ UNCHANGED faults
     \/ ~Hopeless /\ Fault
  /\ UNCHANGED <<want, version, nodeVars, pod, cur, goal, mine>>

UpdateMachine ==
  /\ pc = "update" /\ pc' = "remove"
  /\ version' = [version EXCEPT ![cur] = goal]
  /\ UNCHANGED <<want, nodeVars, pod, cur, goal, mine, faults>>

\* "Could not update the machine version. We will retry."
UpdateMachineFails ==
  /\ pc = "update" /\ pc' = "remove"
  /\ Fault
  /\ UNCHANGED <<want, version, nodeVars, pod, cur, goal, mine>>

\* a bug: the loop's pod outlives its turn
NextMachineSamePod ==
  IF cur < NumMachines
  THEN pc' = "pod" /\ cur' = cur + 1 /\ UNCHANGED <<goal, mine>>
  ELSE pc' = "idle" /\ Forget

\* to the next Machine; after the last one the pass is over
NextMachine ==
  IF cur < NumMachines
  THEN pc' = "pod" /\ cur' = cur + 1 /\ mine' = NoPod /\ UNCHANGED goal
  ELSE pc' = "idle" /\ Forget

\* a bug: the pod is not removed
KeepPod ==
  /\ pc = "remove" /\ mine # NoPod
  /\ NextMachine
  /\ UNCHANGED <<want, version, nodeVars, pod, faults>>

WaitForPodDeletion ==
  /\ pc = "remove" /\ mine # NoPod
  /\ pod' = NoPod
  /\ NextMachine
  /\ UNCHANGED <<want, version, nodeVars, faults>>

\* the failure is logged, and the pod stays
WaitForPodDeletionFails ==
  /\ pc = "remove" /\ mine # NoPod
  /\ Fault
  /\ NextMachine
  /\ UNCHANGED <<want, version, nodeVars, pod>>

\* pod.ObjectMeta of the nil pod
PanicOnNilPod ==
  /\ pc = "remove" /\ mine = NoPod
  /\ pc' = "panic" /\ Forget
  /\ UNCHANGED <<want, version, nodeVars, pod, faults>>

Restart ==
  /\ pc = "panic" /\ pc' = "idle"
  /\ UNCHANGED <<want, version, nodeVars, pod, cur, goal, mine, faults>>

\* the Node cannot be read, which ends the pass, or the process dies
Interrupt ==
  /\ pc \notin {"idle", "panic"} /\ pc' = "idle" /\ Forget
  /\ Fault
  /\ UNCHANGED <<want, version, nodeVars, pod>>

Controller ==
  \/ BeginUpgrade \/ CreateUpgradePod \/ WaitForNodeUpgrade \/ WaitGivesUp \/ UpdateMachine
  \/ WaitForPodDeletion \/ PanicOnNilPod \/ Restart

-----------------------------------------------------------------------------
(* The Nodes and the user.                                                  *)

\* the container asks snapd for the refresh, again whenever the kubelet restarts
\* it; snapd does one change of a snap at a time, and nothing for the channel the
\* Node is on
RunPod ==
  /\ pod # NoPod /\ refresh[pod.node] = None /\ kubelet[pod.node] # pod.channel
  /\ refresh' = [refresh EXCEPT ![pod.node] = pod.channel]
  /\ UNCHANGED <<want, version, kubelet, pod, passVars, faults>>

Refreshed(m) ==
  /\ refresh[m] # None
  /\ kubelet' = [kubelet EXCEPT ![m] = refresh[m]]
  /\ refresh' = [refresh EXCEPT ![m] = None]
  /\ UNCHANGED <<want, version, pod, passVars, faults>>

RefreshFails(m) ==
  /\ refresh[m] # None
  /\ refresh' = [refresh EXCEPT ![m] = None]
  /\ Fault
  /\ UNCHANGED <<want, version, kubelet, pod, passVars>>

Edit ==
  /\ \E e \in Edits : e[1] = want /\ want' = e[2]
  /\ UNCHANGED <<version, nodeVars, pod, passVars, faults>>

Next ==
  \/ Controller
  \/ CreateUpgradePodFails \/ UpdateMachineFails \/ WaitForPodDeletionFails \/ Interrupt
  \/ RunPod \/ Edit
  \/ \E m \in Machine : Refreshed(m) \/ RefreshFails(m)

Spec == Init /\ [][Next]_vars

\* passes are retried, the kubelet runs the pod, snapd finishes a refresh
Fairness == /\ WF_vars(Controller) /\ WF_vars(RunPod)
            /\ \A m \in Machine : WF_vars(Refreshed(m))

FairSpec == Spec /\ Fairness

-----------------------------------------------------------------------------
(* Properties.                                                              *)

\* The types, and that the loop has a Machine exactly while it runs and points
\* to its pod only between the creation and the removal.
InPlaceTypeOK ==
  /\ want \in Version
  /\ version \in [Machine -> Version]
  /\ kubelet \in [Machine -> Version]
  /\ refresh \in [Machine -> Version \cup {None}]
  /\ pod = NoPod \/ pod \in [node : Machine, channel : Version]
  /\ pc \in Call
  /\ IF pc \in {"idle", "panic"} THEN cur = None /\ goal = None
                                 ELSE cur \in Machine /\ goal \in Version
  /\ mine # NoPod => /\ pc \in {"wait", "update", "remove"}
                     /\ mine = [node |-> cur, channel |-> goal] /\ pod = mine
  /\ faults \in 0 .. MaxFaults

Refreshing == {m \in Machine : refresh[m] # None}

\* The loop upgrades "each machine" in turn and waits: it never has two Nodes
\* refreshed at a time, except for those whose wait a failure has cut short.
OneNodeAtATime == Cardinality(Refreshing) <= 1 + faults

\* reconcileMachines, "Waiting for upgrade node to be updated to the given version":
\* unless something failed, a Node the loop is not working on runs the version its
\* Machine claims, and no pod is left on it.
ClaimsWhatRuns == faults = 0 =>
  /\ \A m \in Machine \ {cur} : kubelet[m] = version[m] /\ refresh[m] = None
  /\ pod # NoPod => pod.node = cur

\* A pass reads spec.version once and gives it to every Machine, and starts only when
\* the oldest Machine asks for it: unless something failed, the Nodes never run more
\* than two versions at a time, however often the user edits spec.version meanwhile.
AtMostTwoVersions == faults = 0 => Cardinality({kubelet[m] : m \in Machine}) <= 2

\* "We will retry" (a failed Update), for the Machine that starts an upgrade: it
\* gets the version in the end, unless the user asks for another one.
Retries(m) == \A v \in Version :
  (pc = "remove" /\ mine # NoPod /\ cur = m /\ goal = v /\ version[m] # v)
    ~> (version[m] = v \/ want # v)

OldestIsRetried == Retries(1)

\* The same, for all of them.
EveryMachineIsRetried == \A m \in Machine : Retries(m)

\* Once the user stops editing, and if nothing ever fails, every Node and every
\* Machine ends at the requested version.
AllUpgraded == \A v \in Version :
  (<>[](want = v) /\ [](faults = 0)) =>
    <>[](\A m \in Machine : version[m] = v /\ kubelet[m] = v)
=============================================================================
