# Verification of the MicroK8s control-plane provider

TLA+ modules, TLC configurations and TLAPS proofs for
`cluster-api-control-plane-provider-microk8s`: the controller that keeps the
control plane of a MicroK8s cluster at the number of Machines and the Kubernetes
version a `MicroK8sControlPlane` object asks for. Source paths below are
relative to `src/`.

## 1. The system

One process (`main.go`) runs a controller-runtime manager with one controller,
`MicroK8sControlPlaneReconciler`. A pass of `Reconcile` reads one
`MicroK8sControlPlane` and calls the API server of the management cluster and,
through a kubeconfig it generates, that of the workload cluster. Between two
passes it keeps nothing: all state is in API objects, and each pass must find
out from them where the last one stopped.

| Component | State it keeps (in API objects) | Operations | Modelled in |
|---|---|---|---|
| `Reconcile` (controller.go:77-177), `SetupWithManager` | finalizer, workqueue | prologue: owner Cluster, pause, infrastructure; add finalizer; deferred status and patch | `Lifecycle` |
| `reconcile` (reconcile.go:40-98) | owner reference of the template, `MachinesReady` | endpoint guard, list Machines, run the phases | `Lifecycle` (guard) |
| `reconcileMachines` (reconcile.go:119-314) | Machines, `Resized`, `MachinesCreated`, `Bootstrapped` | start a rolling or in-place upgrade, create, scale down, wait | `ReconcileMachines` |
| `bootControlPlane`, `generateMicroK8sConfig` | infrastructure clone, MicroK8sConfig, Machine | three creations in a row | `ReconcileMachines` |
| `scaleDownControlPlane` (reconcile.go:514-592) | Machines, Nodes | pick the oldest, delete it, delete its Node | `ReconcileMachines` |
| in-place loop (reconcile.go:180-243), `createUpgradePod`, `waitForNodeUpgrade`, `waitForPodDeletion` | Machine version, upgrade pod, snap channel | upgrade one node after the other | `InPlaceUpgrade`; what it does to Machines that come and go: `ReconcileMachines` |
| `reconcileDelete` (reconcile.go:443-487) | Machines, Secrets, finalizer | delete Machines, clean Secrets, release | `Lifecycle` |
| `updateStatus`, `reconcileConditions`, `patchMicroK8sControlPlane` | status counters, conditions | set conditions on the way, count Machines and ready Nodes, patch in two calls | `Status` |
| `kubeconfigForCluster`, `genarateKubeconfig` | kubeconfig Secret | look it up by name, create it when missing, read it back | `Kubeconfig`, composed into `Status`; what a deletion meets of it: `Lifecycle` |
| `updateProviderID` (status.go:110-152) | Node `spec.providerID` | list Nodes, then Machines, match addresses, update | `ProviderID` |
| `reconcileExternalReference`, health checks, webhook, `main` | none of their own | one idempotent patch; stubs; wiring | not modelled |

### How they interact

* **Machines** are created and deleted by this controller, torn down by the
  Cluster API machine controller, and may be deleted by anybody else.
* **NodeRef** is set by the machine controller when the Machine's Node came up.
* **The informer cache** stands between: `Reconcile` reads the
  MicroK8sControlPlane with `APIReader` (live), but Machines, Secrets and the
  Cluster with the caching client. A pass may see Machines as they were before
  the previous pass.
* **Errors and results**: every pass past the prologue is requeued after 30 s by
  the deferred function (controller.go:160), whatever it returned, and one that
  the prologue holds back asks for another. Only the pass that adds the
  finalizer asks for none: it relies on the event of its own patch.
* **The workload cluster** answers `updateStatus` and `updateProviderID` only
  through a kubeconfig Secret that exists and that the cache shows, and only
  while it has a Node up.
* **The user** edits `spec.replicas`, `spec.version`, `spec.upgradeStrategy`,
  pauses the Cluster and deletes the object, at any time.

### What is hard about it

1. Every decision is taken from a list that may be stale, in passes that may
   follow each other at once.
2. An upgrade is not a procedure: it is a sequence of passes each of which adds
   or removes one Machine, and the end must be reached from every state in
   between.
3. `machines[0]` alone decides if there is an upgrade (line 134), and creation
   timestamps with whole seconds decide what `machines[0]` is.
4. A pass makes several calls. Each may fail, and the process may die between
   any two (main.go; a panic takes it down as well).
5. `numMachines < 4` and `numMachines > desiredReplicas` together must keep the
   datastore's quorum.
6. A deletion and a creation of the object race with passes under way.
7. The status is computed from two lists of different age, by a pass that may
   end anywhere, and is written in two patches, each of which may fail.
8. Machines and Nodes are matched by an address that may have been another
   Machine's a moment ago.

### What makes each component correct

* **Scaling down**: oldest first; never below three joined Machines or the
  desired number; not while a Machine is joining; a Node only after its Machine.
* **Creating and upgrading**: at most one Machine more than desired, none for an
  in-place upgrade; every upgrade ends.
* **Life cycle**: no Machine without the finalizer; the object outlives every
  Machine it has listed; its Secrets go; no wake-up is lost; deletion ends.
* **In-place upgrade**: a Machine is marked with a version only when its kubelet
  runs it; one Node at a time; at most two versions at a time; a failed Machine
  is retried.
* **Status**: what is reported of a control plane that stays healthy, stays too
  small or has no Node left is right in the end; `UnavailableReplicas` does not
  stay negative.
* **Kubeconfig**: each Cluster gets its own Secret once its CA exists, and is
  reported ready only when it was reached through that one.
* **Provider IDs**: a Node that stays ready gets one, and not that of another
  Machine that is up.

## 2. Modules

| Module | Models | State | Proofs |
|---|---|---|---|
| `ReconcileMachines` | `reconcileMachines` and all it calls | Machines and Nodes of one control plane, the cache, the current pass | `ReconcileMachinesProofs`, `CurrentListProofs` |
| `MCReconcileMachines` | constants for TLC: specs and the edits between them | | |
| `ControlPlaneQueue` | abstract: what `reconcileMachines` promises | who joins, serves, leaves and was taken | in the module |
| `Lifecycle` | `Reconcile`, `reconcileDelete`, the workqueue | the object, its Cluster, Machines, Secrets, wake-ups, the current pass | `LifecycleProofs` |
| `MCLifecycle` | the same module for TLC | | |
| `InPlaceUpgrade` | the in-place loop, call by call | Machine versions, kubelets, snap refreshes, the pod, the current pass | `InPlaceUpgradeProofs` |
| `MCInPlaceUpgrade` | versions and edits for TLC | | |
| `Kubeconfig` | `kubeconfigForCluster`, `genarateKubeconfig` | endpoint, CA, the Secret and its namesake | `StatusProofs` |
| `Status` | conditions, `updateStatus`, the patch; extends `Kubeconfig` | Machines, Nodes, cache, the stored report and the pass's copy | `StatusProofs` |
| `MCStatus` | the same module for TLC | | |
| `ProviderID` | `updateProviderID` | Machines, Nodes, their provider, what the call has listed | `ProviderIDProofs` |
| `MCProviderID` | addresses for TLC | | |

`Status` composes with `Kubeconfig` by extending it: a pass counts Nodes only if
`EnsureKubeconfig` and `GetKubeconfig` let it. `ReconcileMachines` implements
`ControlPlaneQueue` under the mapping `Queue`. The other modules share a
boundary each names at its top: `Lifecycle` and `Status` keep of
`reconcileMachines` only the creation of Machines, `Status` keeps of
`updateProviderID` only that it may fail, and `ReconcileMachines` starts where
the prologue ends.

### ReconcileMachines

A Machine is a number, in the order of creation. `machine[m]` is the object the
API server has (stage, NodeRef set or not, `spec.version`), `cache[m]` what the
informer shows of it. `pc` is the next call of the current pass, `req` the spec
the pass has read, `target` the Machine `scaleDownControlPlane` works on, and
`after`, `next`, `todo`, `unref` the in-place loop. One step is one API call
that changes state, together with all the computation before the next such call:

| Code | Actions |
|---|---|
| read the object, list and sort the Machines, compare versions | `RollingSurge`, `InPlaceBegin`, `Resize`, `PanicOnReplicas` |
| the closing `switch` (246-313) and `scaleDownControlPlane`'s loop | operators `Switch`, `ScaleDown`, `Blocking`, `DeleteMachines` |
| `bootControlPlane` | `CloneInfra`, `GenerateConfig`, `CreateMachine` |
| `Delete` of the Machine, then of the Node | `DeleteMachine`, `DeleteNotFound`, `DeleteNode` |
| one turn of the in-place loop | `UpgradeMachine`, `UpgradeLost`, `UpgradeNoPod`, `UpgradeNoNode`, `UpgradePanic` |
| a failing call, or the process dying before it | `Interrupt` |
| process restart after a panic | `Restart` |

`Observe`, `Join`, `Finish`, `Take` and `Edit` are the informer, the machine
controller, other clients and the user.

Decisions worth knowing:

* *A pass begins in one step.* The code reads the object, then lists Machines. A
  change between the two could as well have come before the first, or, for the
  list, not have reached the cache yet, so one step shows the same plans.
* *The cache lags per object.* An object can be observed late, and an
  intermediate version can be skipped (the informer's queue keeps one entry per
  key), but new objects appear in creation order. This allows more than one
  watch stream delivers; what holds here holds there.
* *One pass at a time.* The workqueue never hands one object to two workers
  (`MaxConcurrentReconciles: 10` is across objects), the deployment has one
  replica and the manager runs with `--leader-elect`.
* *Ties.* `sort.Sort` is not stable and `Before` is strict, so with equal
  timestamps the first Machine of the list is any of the oldest ones and the one
  to delete is the last of them. `SameSecond` says whether Machines may share a
  second.
* *Updating a Machine in place* uses the cached copy, so `Update` conflicts, and
  is only logged, unless that copy is current.
* *Panics.* controller-runtime 0.13 does not recover panics by default: a nil
  dereference ends the process (`pc = "panic"`), until it is restarted.
* `Rest` resets the locals of a pass; it only keeps the number of states small.
* Conditions and the patch of the status do not influence `reconcileMachines`
  and are in `Status`. So is `Bootstrapped`, whose only effect is a requeue.

### ControlPlaneQueue

The promise behind scaling, in the words of a queue: Machines are appended
(`Enqueue`), join, and the controller removes only the head, and only if three
serve without it (`RemoveHead`); other clients `Take` from anywhere, and what
they took is not held against the controller. The mapping reads `joining`,
`serving` and `leaving` off the stages and NodeRefs; `made` and `taken` are the
same variables. An in-place upgrade, a failure, a restart and everything the
cache does are stuttering steps.

### Lifecycle

`mcp` is the object: live, being deleted or gone, with or without the finalizer.
`cluster` has the four facts the prologue asks of the Cluster. Machines have
only their stage and `secrets` is the set of existing Secrets among the three
`reconcileDelete` cleans up. `BeginFinalize`, `BeginReconcile` and `BeginDelete`
are the three ways a pass gets past the prologue; a pass that does not is no
step at all: it changes nothing, and its `Requeue: true` or its error puts the
key back. `UpdateStatus` is the deferred `updateStatus` of a pass that read a
live object: it may write the kubeconfig Secret, also when the object was
deleted in the meantime. `CleanSecretsPartly` leaves any of the Secrets: a
failed deletion is logged only, and the process may die half-way.
`RemoveFinalizer` may count a failure: when the `Update` of line 453 fails, the
deferred patch (controller.go:151) takes the finalizer away all the same; only
both failing leave it (`Interrupt`). A pass lists Machines from the cache, which
may be stale, and `listed` keeps which ones any pass has found; it is there for
`OutlivesListed`, and no action reads it. Of `reconcileMachines` only "create one when there are fewer than desired" is kept,
since it is what a deletion races with; everything else of it is in
`ReconcileMachines`, where the object is past its prologue.

`queue` is what starts passes. `"key"` says that the workqueue holds the
object's key, at once or after a delay; a pass takes it (`Begin`), and puts it
back when it ends, by its requeue after 30 s or by its error, except for
`PatchFinalizer` (controller.go:139). `"event"` is a change of the object or of
its Cluster that the watch has not delivered yet (`Deliver`); a change of a
Machine reaches the queue together with the cache (`Observe`). `Forget` is the
pass that finds the object gone.

### InPlaceUpgrade

The Machines are fixed; `version[m]` is what the Machine object says,
`kubelet[m]` what its Node runs, `refresh[m]` the change snapd works on. There
is one `pod`, since its name is fixed, and `mine` is the loop's variable `pod`,
whose `NoPod` is the nil pointer. Each call of the loop body is an action, each
with the failure the code logs and passes over: `CreateUpgradePod(Fails)`,
`WaitForNodeUpgrade` and `WaitGivesUp`, `UpdateMachine(Fails)`,
`WaitForPodDeletion(Fails)`; `PanicOnNilPod` is line 234. `RunPod`, `Refreshed`
and `RefreshFails` are the Node's side. The sixty attempts of the wait are
abstracted: giving up is free when nothing is going to upgrade the Node (then
the attempts are bound to run out), and a failure when the upgrade is under way
(slower than ten minutes, or a `Get` that failed while the Node restarted).
Versions are minor numbers, since both the channel and the wait look at
`MajorMinor` only; of the library that parses them only that result is used. The
list is fresh and the number of Machines is the desired one, so the switch after
the loop does nothing. The module stops when nobody edits the spec and no
upgrade is left, so its runs do not check for deadlock.

### Kubeconfig and Status

`Kubeconfig` has no specification of its own; it is the Secrets' part of
`Status`. `own` is the kubeconfig Secret of this Cluster: absent, created, shown
by the cache. `Found` is the search of configs.go:88-95, which looks at the
names in all namespaces, so a `namesake` counts. `EnsureKubeconfig` and
`EnsureFails` are the call's two outcomes, `GetKubeconfig` the read back in the
Cluster's own namespace.

In `Status` a pass is four steps: `Reconcile` (or `ReconcileFails`) sets the
conditions in memory, and `Wait` is a pass that returns before it does, without
an endpoint or because a call failed, and whose deferred part runs all the same; `UpdateStatus` resets
`Ready`, counts the Machines and asks for a kubeconfig; `CountNodes` or
`NodesFail` asks the workload cluster; `PatchConditions` and `PatchStatus` write
the two halves of `copy` to `stored`, each on its own. `Interrupt` is a failed
call or a dead process at any of them. `UnavailableReplicas` is one number here,
since the other two counters of the status are its summands.

* `MachinesReady` (reconcile.go:62-68): with the module's Go version all getters
  point to one loop variable, so the aggregate is the Ready condition of one
  Machine, whichever is last in a list without order (`Aggregate`).
* What the cache shows of a Machine is current here; which Machines it shows may
  be late. A Machine is provisioned only after the cache shows it: provisioning
  takes minutes.
* The desired number is fixed and Machines are never scaled down; that is
  `ReconcileMachines`.
* A kubeconfig Secret is never deleted or made anew while the object lives.

### ProviderID

Machines come and go by themselves. A Machine is `up`, then `released` (its
infrastructure is gone and its address free, while its object and its Node are
still there), then gone; `Address` says which Machines have the same address at
different times. `ListNodes` and the updates are separate steps: between them
Nodes change, so `fresh` has those whose update the API server will accept
(`UpdateNodes`), and the first one refused ends the call with those before it
done (`UpdateFails`). The list of Machines comes from the cache after the list
of Nodes.

## 3. Runs

On two workers `status`, `upgrade` and `lifecycle` take between two and three
minutes, `stale` one, every other run less than half a minute. Bounds are numbers in the `.cfg` files: `MaxMachines` (ever
created), `MaxFaults` (failed calls and crashes), `MaxTaken` (Machines others
delete), and for `ReconcileMachines` the specs and the edits between them, which
are acyclic except in `stale` and the two runs that need to go back.

| Run | Question | Bounds | Answer |
|---|---|---|---|
| `stale` | scaling down on a stale list, during an upgrade that is taken back or finished in place | 5 Machines, 1 fault, 1 taken, stale lists, distinct seconds | `TypeOK`, `ScaleDownInv`, `OrphansAreFailures`, `OldestFirst`, `FloorOfThree`, `KeepsReplicas`, `NodeOutlivesMachine`, `ImplementsQueue` hold |
| `upgrade` | do creation, an in-place and a rolling upgrade, a scale-up and a scale-down end, and safely? | 8 Machines, none to start, 1 fault, 1 taken, fresh lists, fair | `Converges`, `ScaleDownWaitsForNodeRefs`, `SurgeAtMostOne`, `InPlaceNeverSurges` hold |
| `lifecycle` | from the finalizer to the deletion | 3 Machines, 2 replicas, 1 fault, 1 taken, stale lists, fair | `LifecycleTypeOK`, `OutlivesListed`, `NoSecretLeftUndisturbed`, `NoWakeUpLost`, `CreatesProtected`, `Provisioned`, `DeletionEnds` hold |
| `inplace` | the in-place upgrade of three Nodes, twice or back | 3 Machines, 3 versions, 2 faults, fair | `InPlaceTypeOK`, `OneNodeAtATime`, `ClaimsWhatRuns`, `AtMostTwoVersions`, `OldestIsRetried`, `AllUpgraded` hold |
| `status` | is what the object says right in the end? | 2 Machines, 2 replicas, 1 fault, fair | `StatusTypeOK`, `ReadyAfterContact`, `EventuallyReported`, `ReadyWithdrawn`, `NegativeIsTemporary`, `ShortageIsReported` hold |
| `providerid` | whose ProviderID does a Node get, and when? | 3 Machines, two of one address, 1 fault, fair | `ProviderTypeOK`, `ForeignOnlyInTeardown`, `EventuallyProvided` hold |
| `floorties` | the floor of three when Machines share a second | 4 Machines, no fault | `FloorOfThree` violated |
| `rollback` | an upgrade taken back half-way | 6 Machines, no fault, fair | `Converges` violated |
| `nilnoderef` | scale-down next to a Machine deleted before it joined | 5 Machines, 1 taken | `NeverPanics` violated |
| `willretry` | the update of the second Machine fails | 2 Machines, 1 fault, fair | `EveryMachineIsRetried` violated |
| `namesake` | a Cluster of the same name in another namespace | 1 Machine, no fault, fair | `KubeconfigComes` violated |
| `machinesready` | one of two Machines stays down | 2 Machines, no fault, fair | `SickMachineShows` violated |

Why the bounds are enough. Three is the number at which `SmartUpgrade` changes
its strategy and four the number at which scaling down starts, so an upgrade of
three Machines visits both sides of both thresholds. Five Machines let `stale`
delete twice, and have two surplus Machines of a stale list; past them every
creation is refused. There the edit from `New3` to `In3` meets a pass that lists
four: it upgrades them in place one after the other, and then deletes the one it
chose before the loop. In `upgrade` the edit to `In2` is the same for creation:
after the loop over one Machine, the switch creates a second one. `upgrade`
needs eight Machines: three to grow to, three for the rolling upgrade, one for
the fourth replica, and one in place of the Machine that is taken (with seven
the last creation is refused). An in-place upgrade of several Machines is not
among its specs, because it does not converge when an `Update` fails, which is
what `willretry` shows. One failure at any call is enough for every partial
pass, since the next pass remembers nothing; one foreign deletion is enough for
every place a Machine may vanish at. `lifecycle` has one Machine more than
replicas, so that one is replaced while the object is being deleted or not. The
seconds of creation matter only through their order. `status` needs two
Machines, so that they can disagree, one of them can be missing, and either can
be the one `MachinesReady` is taken from; when both were used up, creating
another is refused, which is the shortage `ShortageIsReported` is about.
`providerid` needs three: a Machine, its neighbour, and one that gets the
address of the first. The proofs of section 4 remove the bounds where they
reach.

`Converges` in `upgrade` does not hold vacuously: each chain of edits ends in a
spec that can be reached (`New1`, `In2`, `Back3`), and the spec without
replicas, in which the process panics at every pass, is left out of its premise
because nothing can converge there.

### Fairness

`WF_vars(Controller)`: every pass past the prologue is requeued after 30 s or is
retried with backoff, and a restarted process lists everything again. In
`Lifecycle` this is no assumption about passes but a consequence of the
wake-ups: `Begin` needs the key, and what is assumed is that the workqueue hands
out its keys and that watches deliver (`WF` of `Deliver`). The informer delivers
each change (`WF` of `Observe`, of `ShowKubeconfig`), the machine controller
tears a deleted Machine down (`Finish`) and reports a Machine that came up
(`Join`); the Cluster gets its owner reference and its infrastructure
(`Prepare`); the kubelet runs the upgrade pod and snapd ends a refresh it began
(`RunPod`, `Refreshed`). Nothing is assumed of users, of other clients, of the
health of Machines and Nodes, or of failures, which are bounded. Pausing is not
bounded: `DeletionEnds` and `Provisioned` ask that it stops at last; then a
deletion ends, whatever else was done to Machines and Secrets. `Status`
and `ProviderID` say what must be true after the world has come to rest
(`<>[]Healthy`, `<>[](Registered = {})`, Nodes that no longer change), since no
report can be right of a world that keeps changing.

### What the violated properties show

* **floorties** (reconcile.go:565). With four Machines of one second a first
  scale-down deletes one; before the cache has seen it, the next pass, with the
  same list in another order, deletes another: two remain.
* **rollback** (reconcile.go:134). Only the oldest Machine's version is compared
  with the spec. After a rollback it matches, and the newer ones stay.
* **nilnoderef** (reconcile.go:537). For a Machine being deleted the NodeRef is
  read before it is tested.
* **willretry** (reconcile.go:226). A failed `Update` is logged with "We will
  retry", but only the oldest Machine's version starts an upgrade
  (`OldestIsRetried` holds).
* **namesake** (configs.go:89). The Secrets of all namespaces are compared by
  name alone, so the one of a namesake counts as found, and the `Get` in this
  namespace fails at every pass: this Cluster's Secret is never created and its
  control plane is never reported ready.
* **machinesready** (reconcile.go:65). The loop takes the address of its
  variable, so every getter of the aggregate is the last Machine of the list. Of
  two Machines, one of which stays down, the report follows the order of a list
  that has none.

Exceptions the properties name, because the code does not keep them: a Machine
that was created last, and that the list of the delete pass does not show yet,
is left behind when the finalizer goes (reconcile.go:451; `OutlivesListed` is
about the Machines some pass has listed); a Secret whose deletion fails is only
logged (reconcile.go:479), and when the Machines are gone before the first delete pass, `reconcileDelete`
returns before it comes to the Secrets, which stay (reconcile.go:453, the
premise of `NoSecretLeftUndisturbed`); `MachinesBootstrapped` stays false for
ever when the one patch that carries it fails while that of
`status.bootstrapped` succeeds (reconcile.go:292, `faults > 0` in
`EventuallyReported`); a Node whose Machine has the address of one that is gone
and still listed gets that one's ProviderID (status.go:155,
`ForeignOnlyInTeardown`); a Node that keeps changing is refused its update at every
call and so holds back the Nodes after it (status.go:140, the premise of
`EventuallyProvided`).

Behaviours seen while modelling for which there is no run: a rolling upgrade of
fewer than three Machines never ends, because fewer than four are never scaled
down (reconcile.go:268); with a stale list two surplus Machines are created
(`SurgeAtMostOne` is checked on fresh lists only); `replicas` left out stops the
process (reconcile.go:123, `PanicOnReplicas`); a failed creation
leaves its infrastructure clone, one for each failure (`OrphansAreFailures`), which
nothing here removes; an upgrade pod that
is left over, because its deletion failed or the process died, makes every later
upgrade panic after the first Machine (`PanicOnNilPod`), which is marked even if
its Node was not upgraded; a rolling upgrade creates before it deletes, where
types.go:39 says the opposite.

## 4. Proofs

`tlapm` proves the modules `ControlPlaneQueue`, `ReconcileMachinesProofs`,
`CurrentListProofs`, `LifecycleProofs`, `InPlaceUpgradeProofs`, `StatusProofs`
and `ProviderIDProofs`, for every value of the constants that satisfies the
named assumptions:

| Theorem | Statement | Extra assumption |
|---|---|---|
| `TypeCorrect` | `Spec => []TypeOK` | |
| `ScaleDownInvariant` | `Spec => []ScaleDownInv` | |
| `OrphansCounted` | `Spec => []OrphansAreFailures` | |
| `DeletesOldestFirst` | `Spec => OldestFirst` | |
| `KeepsThree` | `Spec => FloorOfThree` | `~SameSecond` |
| `KeepsDesired` | `Spec => KeepsReplicas` | `~SameSecond` |
| `QueueKeepsServing` | of the queue: `Spec => KeepsServing` | |
| `ImplementsTheQueue` | `Spec => ImplementsQueue` | `~SameSecond` |
| `KeepsQuorum` | `Spec => KeepsThreeServing` | `~SameSecond` |
| `NodeGoesLast` | `Spec => NodeOutlivesMachine` | |
| `ScaleDownWaits` | `Spec => ScaleDownWaitsForNodeRefs` | `~CacheLags` |
| `SurgesByOne` | `Spec => SurgeAtMostOne` | `~CacheLags` |
| `InPlaceReplacesNothing` | `Spec => InPlaceNeverSurges` | `~CacheLags` |
| `OneSurplusAtMost` | `Spec => []AtMostOneOver(N)` | `~CacheLags`; no spec asks for more than `N` |
| `LifecycleTyped` | `Spec => []LifecycleTypeOK` | |
| `CreatesUnderFinalizer` | `Spec => CreatesProtected` | |
| `OutlivesWhatItListed` | `Spec => []OutlivesListed` | |
| `LeavesNoSecret` | `Spec => []NoSecretLeftUndisturbed` | |
| `WakesUp` | `Spec => []NoWakeUpLost` | |
| `InPlaceTyped` | `Spec => []InPlaceTypeOK` | |
| `ClaimsAreTrue` | `Spec => []ClaimsWhatRuns` | |
| `OneAtATime` | `Spec => []OneNodeAtATime` | |
| `TwoVersionsAtMost` | `Spec => []AtMostTwoVersions` | |
| `StatusTyped` | `Spec => []StatusTypeOK` | |
| `ReadyIsEarned` | `Spec => []ReadyAfterContact` | |
| `ProviderTyped` | `Spec => []ProviderTypeOK` | |
| `OwnProviderWhileUp` | `Spec => ForeignOnlyInTeardown` | |

The extra assumption `~SameSecond` is necessary, as `floorties` shows, and so is
`~CacheLags`: a pass that does not see the Machine created last creates another
one (`SurgeAtMostOne`, `InPlaceNeverSurges`), and a Machine the list does not
show may be joining while another is deleted (`ScaleDownWaitsForNodeRefs`).
Everything else is proved with a lagging cache.

**The argument for scaling down.** A stale list alone does not imply that the
chosen Machine is the oldest one: what is needed is how stale it can be.
`ScaleDownInv` says so. `MadeExactly`: Machines are numbered without gaps.
`CacheBehind`: no object is shown in a later stage than it has, nor joined
before it joined. `SeenInOrder`: what the cache shows is a prefix of what was
created. `SecondsGrow`: creation seconds follow creation. Together they give
that a Machine the cache does not list is gone or newer than every listed one,
so that the oldest listed Machine has only gone ones before it; this stays so
until it is deleted (`ChosenIsOldest`), because nothing comes back from being
gone and nothing is created in the past. With one Machine per second, the
controller's deletions come in creation order (`OwnDeletionsInOrder`). So if it
has already deleted any Machine of a stale list, the oldest of that list is not
live any more and nothing is lost by choosing it again; otherwise the list
differs from the truth only by what others took. Since `Blocking = {}` requires
every listed Machine to be live and joined, the pass leaves as many joined
Machines as the list has minus one, not counting those taken
(`ChosenLeavesEnough`), and the list has at least four and more than desired.

**The refinement.** Every step of `ReconcileMachines` is a step of the queue or
leaves it alone. `DeleteMachine` is the one that needs the invariant: that the
target is the head comes from `ChosenIsOldest`, that three serve without it from
`ChosenLeavesEnough`. `CreateMachine` appends because of `MadeExactly`. What the
queue promises then holds of the Machines: `KeepsQuorum` follows from the
refinement and `QueueKeepsServing` alone.

**The argument for Nodes.** A Node is deleted in the step after its Machine, or
because the list shows its Machine being deleted. In both cases the Machine is
then being deleted or gone, for ever (`NodeIsLeft`): what the cache shows of a
Machine is never ahead of it (`CacheBehind`), and a Machine only moves on. This
stays true over the in-place loop, whose decision what to do next is taken
before the first Node is upgraded and kept in `after`.

**The argument for current lists.** A pass decides on what it lists, and then
makes several calls, or first upgrades every Node in place. In the meantime
Machines may join, be deleted and go, but only this pass creates any, and it
ends when it has. So a decision to delete stays right, since none was joining
(`AllJoined`), and so does a decision to create, since the number of Machines
can only have shrunk (`Room`). From a bound for each creation follows the one
for all time, `OneSurplusAtMost`: if no spec ever asks for more than `N`
Machines, there are never more than `N + 1`.

**The argument for the life cycle.** `LifecycleTypeOK` includes that a pass past
its prologue works under the finalizer; only `RemoveFinalizer` takes it away, at
the end of a pass, so `CreateMachine` cannot run without it. A stale list may
miss a Machine that was just created, but never again one it has shown: what has
been listed stays in the cache until it is gone there, and then it is gone
(`CacheBehind`). So a pass that finds an empty list, on its way to the release,
finds everything gone that any pass has listed, and this stays so because
nothing comes back and no pass lists anything in between (`ListedAreGone`). For
the Secrets, `SecretsHeld` says that as long as no call failed and nobody else
deleted Machines, Secrets exist only while a Machine is live or a delete pass is
on its way to them: only a live Machine brings the CA and the join token, and
only delete passes tear Machines down. When the object and its Machines are
gone, no Secret is left then, on a stale list as well. `NoWakeUpLost` is
inductive together with the types: a pass puts its key back in the step that
ends it, `PatchFinalizer` leaves the event of its own patch instead, and a key
is only taken by a pass.

**The argument for the in-place loop.** Without failures the pod of the loop is
the only one, so its creation succeeds and the wait is not hopeless
(`PodIsTheLoops`); a refresh is only under way on the Node the loop waits for
(`RefreshIsAwaited`), so the version that ended the wait is still the Node's
when the Machine is marked (`LoopKeepsClaims`). A Node is busy while it refreshes or has the pod. Each
failure leaves at most one Node busy besides the loop's, and while the loop has
no Node of its own to be busy with, all that are busy are owed to failures
(`FailuresCount`): the wait ends, without a failure, only when its Node runs the
version asked for, and then a refresh that is left on it was asked for by an
earlier pod. For the versions, the Nodes before the loop's run the new one and
those after it the old one (`InTurn`), since the loop keeps to the version it
has read whatever the user writes in the meantime.

**The argument for the status.** `UnavailableReplicas` is set from a count of
Machines before that of the Nodes is taken off it, in the same pass
(`CountIsReset`), so it stays between `-MaxMachines` and `MaxMachines`, although
the two lists are of different age. `Ready` and `Initialized` are set together, after the kubeconfig Secret
was read back in the Cluster's own namespace; each half of a patch is written as
a whole and nothing takes the Secret away, so what was stored stays earned
(`ContactInv`), through every interrupted pass and with a namesake around.

**The argument for provider IDs.** `Matching` says what the match by address
rests on: Machines that are up have addresses of their own, only Machines that
were created are listed or have a Node, and a Node unchanged since it was listed
is still ready. An update goes through only for an unchanged Node, so a Node and
a Machine that match and are two are not both up.

Only model-checked: liveness (`Converges`, `DeletionEnds`, `Provisioned`,
`AllUpgraded`, `OldestIsRetried`, `EventuallyReported`, `ReadyWithdrawn`,
`NegativeIsTemporary`, `ShortageIsReported`, `EventuallyProvided`), which under
fairness is beyond the prover. Every invariant and every action property of a
passing run has a theorem. Nothing here rests on induction over data, and no
module declares a recursive operator.

## 5. Not modelled

* Certificates and the kubeconfig's text (configs.go:166-237): computation
  without state; it either yields a kubeconfig or an error, which ends the pass.
* `ensureNodesBooted` and `nodesHealthcheck` return nil (healthchecks.go).
* `reconcileExternalReference`: an idempotent patch; its failure is a `Wait` of
  `Status`, before anything else happened.
* Failure domains: a random label on the new Machine.
* `main.go`, the webhook (which validates nothing), the generated deep copies,
  manifests and build files.
* `SetSummary`'s Ready condition, the constant health condition and the
  selector: functions of what `Status` has.
* `ControlPlaneInitialized` (reconcile.go:93) is marked on the pass's own copy
  of the Cluster, which nobody patches: it has no effect.
* A Machine without ProviderID (status.go:138): the machine controller of
  Cluster API sets it together with the addresses, so the dereference is safe.
* `UnavailableReplicas` counts what exists: Machines that are missing are not
  unavailable here, although types.go:106-110 reads as if they were.
  `ShortageIsReported` is about the conditions for this reason.
* Version parsing and the channel's text: the `semver` library, and formatting.
  `HasPrefix` (reconcile.go:657) would take a Node at `v1.25` for one at `v1.2`;
  the versions of the models are equal or have no common prefix of that kind.
* In `Lifecycle` the Cluster is read as it is, not from the cache: a late
  Cluster is a pass that starts earlier.
* Garbage collection after the object is gone.

## 6. Plan

The components that have behaviour are modelled, and the safety properties of
their runs are proved. What would still add something:

1. The safety half of the liveness arguments: that a control plane is never in a
   state that no pass can leave, as an invariant of `ReconcileMachines` for the
   specs of `Converges`.
2. How far a control plane can be above its number when the list is stale, as a
   function of how many creations the cache has not shown yet.
3. A bound on `UnavailableReplicas` in terms of what came and went between the
   two lists of one pass.
