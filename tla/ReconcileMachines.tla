-------------------------- MODULE ReconcileMachines --------------------------
(***************************************************************************)
(* reconcileMachines: how the controller creates, upgrades and removes the *)
(* Machines of one MicroK8sControlPlane, one API call per step, against an *)
(* informer cache that lags behind the API server, failing calls, process  *)
(* restarts, the user's edits of the spec, other clients that delete       *)
(* Machines, and the Cluster API machine controller.                       *)
(*                                                                         *)
(* The object is past its prologue here: it exists, is not being deleted,  *)
(* and its Cluster has an endpoint.                                        *)
(***************************************************************************)
EXTENDS Integers, FiniteSets

CONSTANTS
  MaxMachines,  \* bound: Machines ever created
  MaxFaults,    \* bound: calls that fail and processes that die
  MaxTaken,     \* bound: Machines deleted by somebody else
  Initial,      \* Machines that exist, and have joined, at the start
  Version,      \* the values spec.version takes
  MajorMinor,   \* semver.MajorMinor: "" for a string that is not a semver
  Specs,        \* the specs the user applies
  FirstSpec,    \* the one in force at the start
  Edits,        \* pairs of specs: the changes the user may make
  CacheLags,    \* may a pass list Machines from a stale cache?
  SameSecond    \* may two Machines be created within the same second?

NoReplicas == -1   \* spec.replicas is optional: the nil pointer
NoVersion  == ""
None       == 0

Strategy == {"", "SmartUpgrade", "InPlaceUpgrade", "RollingUpgrade"}

Spec3 == [replicas : Nat \cup {NoReplicas}, version : Version, strategy : Strategy]

ASSUME BoundsAssumption ==
  /\ MaxMachines \in Nat /\ MaxFaults \in Nat /\ MaxTaken \in Nat
  /\ Initial \in 0 .. MaxMachines
  /\ CacheLags \in BOOLEAN /\ SameSecond \in BOOLEAN

ASSUME SpecsAssumption ==
  /\ NoVersion \notin Version
  /\ MajorMinor \in [Version -> STRING]
  /\ Specs \subseteq Spec3
  /\ FirstSpec \in Specs
  /\ Edits \subseteq Specs \X Specs

Machine == 1 .. MaxMachines   \* in the order of their creation

Stage == {"none", "live", "deleting", "gone"}

MachineObject == [st : Stage, ref : BOOLEAN, ver : Version \cup {NoVersion}]

Missing(stage) == [st |-> stage, ref |-> FALSE, ver |-> NoVersion]

VARIABLES
  spec,      \* MicroK8sControlPlane.spec, as the API server holds it
  made,      \* how many Machines were ever created
  second,    \* creationTimestamp of each, in whole seconds
  machine,   \* the Machine objects: stage, NodeRef set?, spec.version
  cache,     \* the same objects as the informer cache shows them
  nodes,     \* Machines whose Node object is in the workload cluster
  taken,     \* Machines whose deletion somebody else requested
  infra,     \* infrastructure clones ever created
  configs,   \* MicroK8sConfigs ever created
  pc,        \* the call the current pass makes next
  req,       \* the spec the current pass has read
  target,    \* the Machine scale-down works on
  after,     \* what follows the in-place loop
  next,      \* the in-place loop's current Machine
  todo,      \* and the ones it has still to visit
  unref,     \* those of them that were listed without a NodeRef
  faults     \* failures so far

apiVars  == <<spec, made, second, machine, nodes, taken, infra, configs>>
loopVars == <<after, next, todo, unref>>
passVars == <<pc, req, target, loopVars>>
vars     == <<apiVars, cache, passVars, faults>>

Call == {"idle", "boot", "config", "create", "upgrade", "delete", "node", "panic"}

Init ==
  /\ spec = FirstSpec
  /\ made = Initial
  /\ second = [m \in Machine |-> m]
  /\ machine = [m \in Machine |->
       IF m <= Initial THEN [st |-> "live", ref |-> TRUE, ver |-> FirstSpec.version]
                       ELSE Missing("none")]
  /\ cache = machine
  /\ nodes = 1 .. Initial
  /\ taken = {}
  /\ infra = Initial /\ configs = Initial
  /\ pc = "idle" /\ req = FirstSpec /\ target = None
  /\ after = "idle" /\ next = None /\ todo = {} /\ unref = {}
  /\ faults = 0

-----------------------------------------------------------------------------
(* What a pass computes from the Machines it listed.                        *)

Exists(obj) == obj.st \in {"live", "deleting"}

\* the list carries every Machine with the cluster's control-plane labels
Owned == {m \in Machine : Exists(cache[m])}

Oldest(S) == {m \in S : \A n \in S : second[m] <= second[n]}
Newest(S) == {m \in S : \A n \in S : second[n] <= second[m]}

Selected(s) == IF s.strategy = "" THEN "SmartUpgrade" ELSE s.strategy

\* a bug: the strategy is not looked at
RollingAlways(s, n) == TRUE

Rolling(s, n) == \/ s.strategy = "RollingUpgrade"
                 \/ Selected(s) = "SmartUpgrade" /\ n >= 3

\* a bug: SmartUpgrade never chooses to upgrade in place
InPlaceOnRequest(s, n) == s.strategy = "InPlaceUpgrade"

InPlace(s, n) == \/ s.strategy = "InPlaceUpgrade"
                 \/ Selected(s) = "SmartUpgrade" /\ n < 3

\* a bug: comparing the last Machine of the sorted list instead
NewestOutdated(first) ==
  \E m \in Newest(Owned) : MajorMinor[cache[m].ver] \notin {"", MajorMinor[spec.version]}

\* only the first Machine of the sorted list is compared with the spec
Outdated(first) == MajorMinor[cache[first].ver] \notin {"", MajorMinor[spec.version]}

\* a bug: the NodeRef test is left out
OnlyDeletionBlocks == {m \in Owned : cache[m].st = "deleting"}

\* scaleDownControlPlane stops at the newest Machine that is being deleted
\* or has not joined yet
Blocking == {m \in Owned : cache[m].st = "deleting" \/ ~cache[m].ref}

StopAt(m) == CASE cache[m].st = "live" -> <<"idle", None>>
               [] cache[m].st = "deleting" /\ cache[m].ref -> <<"node", m>>
               [] OTHER -> <<"panic", None>>

\* a bug: deleteMachine stays the last of the sorted list
DeleteNewest(first) == Newest(Owned)

\* a bug: deleteMachine is declared, but not set to the last of the list
DeleteUnset(first) == {None}

\* deleteMachine starts as the last of the sorted list and yields only to a
\* strictly older one: of the oldest it is the last, "first" only when alone
DeleteMachines(first) ==
  IF Oldest(Owned) = {first} THEN {first} ELSE Oldest(Owned) \ {first}

ScaleDown(first) == IF Blocking = {} THEN {"delete"} \X DeleteMachines(first)
                                     ELSE {StopAt(m) : m \in Newest(Blocking)}

\* a bug: the threshold of scaling down is one too low
SwitchAtThree(first) ==
  LET n == Cardinality(Owned) IN
  IF n < spec.replicas THEN {<<"boot", None>>}
  ELSE IF n > spec.replicas /\ n >= 3 THEN ScaleDown(first)
  ELSE {<<"idle", None>>}

\* the closing switch of reconcileMachines: the next call and its Machine
Switch(first) ==
  LET n == Cardinality(Owned) IN
  IF n < spec.replicas THEN {<<"boot", None>>}
  ELSE IF n > spec.replicas /\ n >= 4 THEN ScaleDown(first)
  ELSE {<<"idle", None>>}

-----------------------------------------------------------------------------
(* The controller.                                                          *)

\* Reconcile reads the object live and the Machines from the cache; nothing
\* changes in between that a later reading order would not show as well.
BeginPass ==
  /\ pc = "idle"
  /\ CacheLags \/ cache = machine
  /\ UNCHANGED <<apiVars, cache, faults>>

\* between two passes nothing is remembered (FirstSpec stands for no spec)
Rest   == /\ req' = FirstSpec /\ target' = None
          /\ after' = "idle" /\ next' = None /\ todo' = {} /\ unref' = {}
Return == pc' = "idle" /\ Rest

\* the pass goes on with the given call on the given Machine, or is over
Enter(plan) ==
  \/ plan[1] \in {"idle", "panic"} /\ pc' = plan[1] /\ Rest
  \/ /\ plan[1] \notin {"idle", "panic"}
     /\ pc' = plan[1] /\ target' = plan[2] /\ req' = spec
     /\ UNCHANGED loopVars

\* int(*mcp.Spec.Replicas) on a nil pointer
PanicOnReplicas ==
  /\ BeginPass
  /\ spec.replicas = NoReplicas
  /\ Enter(<<"panic", None>>)

\* a bug: the number of Machines is not compared with the desired one
SurgeAnyway ==
  /\ BeginPass
  /\ spec.replicas # NoReplicas
  /\ Rolling(spec, Cardinality(Owned))
  /\ \E first \in Oldest(Owned) : Outdated(first)
  /\ Enter(<<"boot", None>>)

\* a rolling upgrade starts by creating one Machine more than desired
RollingSurge ==
  /\ BeginPass
  /\ Cardinality(Owned) = spec.replicas
  /\ Rolling(spec, Cardinality(Owned))
  /\ \E first \in Oldest(Owned) : Outdated(first)
  /\ Enter(<<"boot", None>>)

InPlaceBegin ==
  /\ BeginPass
  /\ spec.replicas # NoReplicas
  /\ InPlace(spec, Cardinality(Owned))
  /\ \E first \in Oldest(Owned) :
       /\ Outdated(first)
       /\ next' = first
       /\ todo' = Owned \ {first}
       /\ unref' = {m \in Owned : ~cache[m].ref}
       /\ \E plan \in Switch(first) : after' = plan[1] /\ target' = plan[2]
  /\ pc' = "upgrade" /\ req' = spec

\* no upgrade to start: straight to the switch
Resize ==
  /\ BeginPass
  /\ spec.replicas # NoReplicas
  /\ \/ Owned = {} /\ \E plan \in Switch(None) : Enter(plan)
     \/ \E first \in Oldest(Owned) :
          /\ Outdated(first) => /\ Rolling(spec, Cardinality(Owned))
                                /\ Cardinality(Owned) # spec.replicas
          /\ \E plan \in Switch(first) : Enter(plan)

(* bootControlPlane: three objects, created one after the other.            *)

CloneInfra ==
  /\ pc = "boot" /\ pc' = "config"
  /\ made < MaxMachines
  /\ infra' = infra + 1
  /\ UNCHANGED <<spec, made, second, machine, nodes, taken, configs, cache, req, target, loopVars, faults>>

\* the bound: past MaxMachines the API server refuses every further clone
CloneRefused ==
  /\ pc = "boot" /\ made = MaxMachines
  /\ Return
  /\ UNCHANGED <<apiVars, cache, faults>>

\* a bug: the pass returns to wait for the config, and the next one starts anew
GenerateAndReturn ==
  /\ pc = "config" /\ Return
  /\ configs' = configs + 1
  /\ UNCHANGED <<spec, made, second, machine, nodes, taken, infra, cache, faults>>

GenerateConfig ==
  /\ pc = "config" /\ pc' = "create"
  /\ configs' = configs + 1
  /\ UNCHANGED <<spec, made, second, machine, nodes, taken, infra, cache, req, target, loopVars, faults>>

\* seconds only matter through their order: a new Machine is created in the
\* second of the last one or in a later one
CreateMachine ==
  /\ pc = "create"
  /\ made < MaxMachines
  /\ made' = made + 1
  /\ machine' = [machine EXCEPT ![made + 1] =
                   [st |-> "live", ref |-> FALSE, ver |-> req.version]]
  /\ \/ UNCHANGED second
     \/ /\ SameSecond /\ made > 0
        /\ second' = [second EXCEPT ![made + 1] = second[made]]
  /\ Return
  /\ UNCHANGED <<spec, nodes, taken, infra, configs, cache, faults>>

(* scaleDownControlPlane                                                    *)

\* a bug: the Node goes first, and the pass returns
NodeGoesFirst ==
  /\ pc = "delete"
  /\ nodes' = nodes \ {target}
  /\ Return
  /\ UNCHANGED <<spec, made, second, machine, taken, infra, configs, cache, faults>>

DeleteMachine ==
  /\ pc = "delete" /\ pc' = "node"
  /\ Exists(machine[target])
  /\ machine' = [machine EXCEPT ![target].st = "deleting"]
  /\ UNCHANGED <<spec, made, second, nodes, taken, infra, configs, cache, req, target, loopVars, faults>>

\* the stale list named a Machine that is gone: NotFound is returned
DeleteNotFound ==
  /\ pc = "delete"
  /\ machine[target].st = "gone"
  /\ Return
  /\ UNCHANGED <<apiVars, cache, faults>>

DeleteNode ==
  /\ pc = "node"
  /\ nodes' = nodes \ {target}
  /\ Return
  /\ UNCHANGED <<spec, made, second, machine, taken, infra, configs, cache, faults>>

(* The in-place loop: one Machine per step.                                 *)

\* after the last Machine the pass goes on to what the switch decided on the
\* list it started with
NextMachine ==
  \/ /\ todo # {}
     /\ next' \in Oldest(todo)
     /\ todo' = todo \ {next'}
     /\ UNCHANGED <<pc, req, target, after, unref>>
  \/ /\ todo = {} /\ after \in {"idle", "panic"}
     /\ pc' = after /\ Rest
  \/ /\ todo = {} /\ after \notin {"idle", "panic"}
     /\ pc' = after /\ after' = "idle" /\ next' = None /\ unref' = {}
     /\ UNCHANGED <<req, target, todo>>

\* Get and Update of the Machine: the copy comes from the cache, so Update
\* conflicts, and is only logged, unless the cached copy is the current one
MarkVersion ==
  machine' = IF Exists(machine[next]) /\ cache[next] = machine[next]
             THEN [machine EXCEPT ![next].ver = req.version]
             ELSE machine

Visiting == pc = "upgrade" /\ next \notin unref

UpgradeMachine ==
  /\ Visiting /\ next \in nodes
  /\ MarkVersion
  /\ NextMachine
  /\ UNCHANGED <<spec, made, second, nodes, taken, infra, configs, cache, faults>>

\* any other failure of Get or Update is only logged as well
UpgradeLost ==
  /\ Visiting /\ next \in nodes
  /\ faults < MaxFaults /\ faults' = faults + 1
  /\ NextMachine
  /\ UNCHANGED <<apiVars, cache>>

\* the upgrade pod cannot be created: that is logged, the Machine is marked
\* all the same, and then pod.ObjectMeta is read from a nil pod
UpgradeNoPod ==
  /\ Visiting /\ next \in nodes
  /\ faults < MaxFaults /\ faults' = faults + 1
  /\ MarkVersion
  /\ pc' = "panic" /\ Rest
  /\ UNCHANGED <<spec, made, second, nodes, taken, infra, configs, cache>>

\* the Node is not found: the pass ends with the error
UpgradeNoNode ==
  /\ Visiting /\ next \notin nodes
  /\ Return
  /\ UNCHANGED <<apiVars, cache, faults>>

\* machine.Status.NodeRef.Name on a nil pointer
UpgradePanic ==
  /\ pc = "upgrade" /\ next \in unref
  /\ pc' = "panic" /\ Rest
  /\ UNCHANGED <<apiVars, cache, faults>>

\* the panic takes the process down; it starts again with no memory
Restart ==
  /\ pc = "panic"
  /\ Return
  /\ UNCHANGED <<apiVars, cache, faults>>

\* the next call fails, or the process dies before making it: either way the
\* pass is over and what it did so far stays
Interrupt ==
  /\ pc \notin {"idle", "panic"}
  /\ faults < MaxFaults /\ faults' = faults + 1
  /\ Return
  /\ UNCHANGED <<apiVars, cache>>

Controller ==
  \/ PanicOnReplicas \/ RollingSurge \/ InPlaceBegin \/ Resize
  \/ CloneInfra \/ CloneRefused \/ GenerateConfig \/ CreateMachine
  \/ DeleteMachine \/ DeleteNotFound \/ DeleteNode
  \/ UpgradeMachine \/ UpgradeNoNode \/ UpgradePanic
  \/ Restart

-----------------------------------------------------------------------------
(* The environment.                                                         *)

\* The informer applies what it received, each object at its own pace; an
\* object is first seen after all the ones created before it.
Observe(m) ==
  /\ cache[m] # machine[m]
  /\ cache[m].st = "none" => \A k \in 1 .. m - 1 : cache[k].st # "none"
  /\ cache' = [cache EXCEPT ![m] = machine[m]]
  /\ UNCHANGED <<apiVars, passVars, faults>>

\* the Machine's Node came up and the machine controller set the NodeRef
Join(m) ==
  /\ machine[m].st = "live" /\ ~machine[m].ref
  /\ machine' = [machine EXCEPT ![m].ref = TRUE]
  /\ nodes' = nodes \cup {m}
  /\ UNCHANGED <<spec, made, second, taken, infra, configs, cache, passVars, faults>>

\* the machine controller has torn the Machine down, Node included
Finish(m) ==
  /\ machine[m].st = "deleting"
  /\ machine' = [machine EXCEPT ![m] = Missing("gone")]
  /\ nodes' = nodes \ {m}
  /\ UNCHANGED <<spec, made, second, taken, infra, configs, cache, passVars, faults>>

\* a user or a health check deletes a Machine
Take(m) ==
  /\ machine[m].st = "live"
  /\ Cardinality(taken) < MaxTaken
  /\ machine' = [machine EXCEPT ![m].st = "deleting"]
  /\ taken' = taken \cup {m}
  /\ UNCHANGED <<spec, made, second, nodes, infra, configs, cache, passVars, faults>>

Edit ==
  /\ \E e \in Edits : e[1] = spec /\ spec' = e[2]
  /\ UNCHANGED <<made, second, machine, nodes, taken, infra, configs, cache, passVars, faults>>

Next ==
  \/ Controller
  \/ UpgradeLost \/ UpgradeNoPod
  \/ Interrupt
  \/ Edit
  \/ \E m \in Machine : Observe(m) \/ Join(m) \/ Finish(m) \/ Take(m)

Spec == Init /\ [][Next]_vars

\* Every pass ends in a requeue after 30 s or with an error that is retried,
\* the informer catches up, the machine controller does its work.  Nothing is
\* assumed of the user, of other clients or of failures, which are bounded.
Fairness ==
  /\ WF_vars(Controller)
  /\ \A m \in Machine : WF_vars(Observe(m)) /\ WF_vars(Join(m)) /\ WF_vars(Finish(m))

FairSpec == Spec /\ Fairness

-----------------------------------------------------------------------------
(* Properties.                                                              *)

ApiTypeOK ==
  /\ spec \in Specs
  /\ made \in 0 .. MaxMachines
  /\ second \in [Machine -> Machine]
  /\ machine \in [Machine -> MachineObject]
  /\ nodes \subseteq Machine
  /\ taken \subseteq Machine
  /\ infra \in Nat /\ configs \in Nat

PassTypeOK ==
  /\ pc \in Call
  /\ req \in Specs
  /\ target \in Machine \cup {None}
  /\ after \in {"idle", "panic", "boot", "delete", "node"}
  /\ next \in Machine \cup {None}
  /\ todo \subseteq Machine
  /\ unref \subseteq Machine
  /\ (pc \in {"delete", "node"} \/ after \in {"delete", "node"}) => target # None
  /\ pc = "upgrade" => next # None
  /\ pc \in {"idle", "panic"} => target = None /\ next = None /\ todo = {}
  /\ pc # "upgrade" => after = "idle"

\* Every variable keeps its type, a call that needs a Machine has one, and the
\* pass's locals are at rest between two passes (reconcileMachines keeps nothing).
TypeOK ==
  /\ ApiTypeOK
  /\ cache \in [Machine -> MachineObject]
  /\ PassTypeOK
  /\ faults \in 0 .. MaxFaults

\* this step is the controller's own deletion of m
OwnDelete(m) == /\ machine[m].st = "live"
                /\ machine'[m].st = "deleting"
                /\ m \notin taken'

OlderAreGone == \A m \in Machine : OwnDelete(m) =>
  \A k \in 1 .. made : second[k] < second[m] => machine[k].st = "gone"

\* scaleDownControlPlane, "mark the oldest machine to be deleted first": when
\* the controller deletes a Machine, all the Machines created in an earlier
\* second are gone, whatever the cache showed and whoever else deletes.
OldestFirst == [][OlderAreGone]_vars

Serving(obj) == obj.st = "live" /\ obj.ref

\* what a deletion of m leaves, or other clients took away
Left(m) == {n \in Machine \ {m} : n \in taken \/ Serving(machine[n])}

ThreeAreLeft == \A m \in Machine : OwnDelete(m) => Cardinality(Left(m)) >= 3

\* reconcileMachines, "Cannot scale down control plane nodes to less than 3
\* nodes": a deletion of the controller's leaves three other Machines that
\* have joined the cluster, not counting those that other clients took away.
FloorOfThree == [][ThreeAreLeft]_vars

DesiredAreLeft ==
  \A m \in Machine : OwnDelete(m) => Cardinality(Left(m)) >= req.replicas

\* reconcileMachines scales down only when there are more Machines than
\* desired: a deletion leaves the number that the pass was asked for, joined,
\* again not counting those that other clients took away.
KeepsReplicas == [][DesiredAreLeft]_vars

\* scaleDownControlPlane, "do not allow scaling down until all nodes have
\* nodeRefs": no existing Machine is still joining when the controller deletes one.
ScaleDownWaitsForNodeRefs ==
  [][\A m \in Machine : OwnDelete(m) =>
       \A n \in Machine : machine[n].st = "live" => machine[n].ref]_vars

\* reconcileMachines, "increase the number of machines to one more than the
\* desired number": creating a Machine never exceeds the count the pass was
\* asked for by more than one.
SurgeAtMostOne ==
  [][made' > made =>
       Cardinality({m \in Machine : Exists(machine[m])}) <= req.replicas]_vars

\* UpgradeStrategyType, "performs an in-place upgrade of the control plane":
\* under InPlaceUpgrade, and under SmartUpgrade on fewer than three Machines, a
\* Machine is only ever created when there are fewer than desired.
InPlaceNeverSurges ==
  [][(/\ made' > made
      /\ req.strategy # "RollingUpgrade"
      /\ req.strategy = "InPlaceUpgrade" \/ req.replicas < 3)
     => Cardinality({m \in Machine : Exists(machine[m])}) < req.replicas]_vars

\* scaleDownControlPlane, "do not allow scaling down until all nodes have
\* nodeRefs": a Machine without a NodeRef makes the controller wait, and neither
\* it nor a spec without replicas, which is "+optional", stops the process.
NeverPanics == pc # "panic"

\* scaleDownControlPlane deletes the Machine before its Node: a Node leaves
\* the workload cluster only when its Machine's deletion was requested.
NodeOutlivesMachine ==
  [][\A m \in nodes \ nodes' : machine[m].st \in {"deleting", "gone"}]_vars

(* The inductive invariant behind OldestFirst, FloorOfThree, KeepsReplicas.   *)

MadeExactly == \A m \in Machine : machine[m].st = "none" <=> m > made

\* how far an object that is now in the given stage may have been observed
Past(stage) == CASE stage = "none"     -> {"none"}
                 [] stage = "live"     -> {"none", "live"}
                 [] stage = "deleting" -> {"none", "live", "deleting"}
                 [] stage = "gone"     -> Stage

CacheBehind == \A m \in Machine :
  /\ cache[m].st \in Past(machine[m].st)
  /\ machine[m].st = "live" /\ cache[m].st = "live" /\ cache[m].ref => machine[m].ref

SeenInOrder == \A m \in Machine : cache[m].st # "none" =>
                 \A k \in 1 .. m - 1 : cache[k].st # "none"

SecondsGrow == \A m \in Machine :
  /\ second[m] <= m
  /\ m > made => second[m] = m
  /\ m <= made => \A k \in 1 .. m : second[k] <= second[m]

\* the pass has chosen the Machine it is going to delete
Chosen == pc = "delete" \/ (pc = "upgrade" /\ after = "delete")

ChosenIsOldest == Chosen =>
  /\ target <= made
  /\ \A k \in 1 .. made : second[k] < second[target] => machine[k].st = "gone"

OrderInv == MadeExactly /\ CacheBehind /\ SeenInOrder /\ SecondsGrow /\ ChosenIsOldest

\* the controller takes Machines away in the order of their creation
OwnDeletionsInOrder == \A m \in Machine :
  machine[m].st \in {"deleting", "gone"} /\ m \notin taken =>
    \A k \in 1 .. m - 1 : machine[k].st = "gone"

ChosenLeavesEnough == Chosen /\ machine[target].st = "live" =>
  Cardinality(Left(target)) >= 3 /\ Cardinality(Left(target)) >= req.replicas

OneSecondEach == \A m \in Machine : second[m] = m

\* The invariant of scaling down: what the informer cache may show of the
\* Machines, and what is known of the Machine that scaleDownControlPlane has
\* chosen until it is deleted.  The last parts need distinct seconds.
ScaleDownInv ==
  /\ OrderInv
  /\ ~SameSecond => OneSecondEach /\ OwnDeletionsInOrder /\ ChosenLeavesEnough

Live(obj) == obj.st = "live"

Queue == INSTANCE ControlPlaneQueue WITH
  joining <- {m \in Machine : Live(machine[m]) /\ ~machine[m].ref},
  serving <- {m \in Machine : Serving(machine[m])},
  leaving <- {m \in Machine : machine[m].st = "deleting"}

\* The whole of reconcileMachines implements the queue, stale lists, failures,
\* restarts and in-place upgrades included, when no two Machines share a second.
ImplementsQueue == Queue!Spec

\* What the queue gives its users, stated of the Machines: with three joined
\* Machines, and until another client deletes one, three stay joined
\* (reconcileMachines, "Cannot scale down control plane nodes to less than 3 nodes").
KeepsThreeServing == Queue!KeepsServing

UnderWay(calls) == IF pc \in calls THEN 1 ELSE 0

\* bootControlPlane makes three objects and takes none back when a later call
\* fails (reconcile.go:370, 407): every Machine has a clone and a config of its
\* own, and of clones without a Machine there is at most one for each failure.
OrphansAreFailures ==
  /\ made + UnderWay({"create"}) <= configs
  /\ configs + UnderWay({"config"}) <= infra
  /\ infra <= made + faults + UnderWay({"config", "create"})

AtSpec(obj) == Serving(obj) /\ MajorMinor[obj.ver] = MajorMinor[spec.version]

Settled ==
  LET existing == {m \in Machine : Exists(machine[m])} IN
  /\ Cardinality(existing) = spec.replicas
  /\ \A m \in existing : AtSpec(machine[m])

\* Once the user stops editing and replicas is given, the control plane ends
\* with the requested number of Machines, all joined, all at the requested version.
Converges == \A s \in Specs : s.replicas # NoReplicas /\ <>[](spec = s) => <>[]Settled
=============================================================================
