------------------------------- MODULE Status -------------------------------
(***************************************************************************)
(* What a pass reports: the conditions reconcile sets on the way, what      *)
(* updateStatus counts, and the patch, which writes conditions and status  *)
(* in two calls.                                                           *)
(*                                                                         *)
(* The desired number of Machines is fixed here and the object is not      *)
(* being deleted.  Module ReconcileMachines has what a pass does to its    *)
(* Machines; only creating one is kept, because the status counts it.      *)
(* Module ProviderID has updateProviderID, which can only fail here.       *)
(***************************************************************************)
EXTENDS Kubeconfig, FiniteSets

CONSTANTS
  MaxMachines,  \* bound: Machines ever created
  MaxFaults,    \* bound: calls that fail and processes that die
  Replicas      \* spec.replicas

ASSUME StatusAssumption ==
  MaxMachines \in Nat /\ MaxFaults \in Nat /\ Replicas \in 1 .. MaxMachines

Machine == 1 .. MaxMachines

\* created; up or down, as its Ready condition says; gone
Stage == {"none", "made", "up", "down", "gone"}

NodeStage == {"none", "notready", "ready"}

Truth     == {"unset", "false", "true"}
Condition == {"available", "bootstrapped", "created", "resized", "machines"}

Report == [available : Truth, bootstrapped : Truth, created : Truth, resized : Truth,
           machines : Truth, ready : BOOLEAN, initialized : BOOLEAN, booted : BOOLEAN,
           unavailable : -MaxMachines .. MaxMachines]

Blank == [available |-> "unset", bootstrapped |-> "unset", created |-> "unset",
          resized |-> "unset", machines |-> "unset", ready |-> FALSE, initialized |-> FALSE,
          booted |-> FALSE, unavailable |-> 0]

VARIABLES
  machine,   \* the Machines
  cache,     \* those the informer cache shows
  node,      \* the Node of each, in the workload cluster
  stored,    \* conditions and status of the object
  copy,      \* the same in the memory of the current pass
  pc,        \* what the pass does next
  faults     \* failures so far

worldVars == <<machine, cache, node>>
vars      == <<secretVars, worldVars, stored, copy, pc, faults>>

Call == {"idle", "count", "nodes", "conditions", "status"}

Init ==
  /\ SecretInit
  /\ machine = [m \in Machine |-> "none"] /\ node = machine /\ cache = {}
  /\ stored = Blank /\ copy = Blank /\ pc = "idle" /\ faults = 0

Fail == faults < MaxFaults /\ faults' = faults + 1

-----------------------------------------------------------------------------
(* reconcile                                                                *)

\* the Ready condition of a Machine, not set before it is provisioned
ReadyOf(m) == CASE machine[m] = "made" -> "unset" [] machine[m] = "up" -> "true" [] OTHER -> "false"

\* a bug: the aggregate is computed once and then kept
AggregateOnce(report) ==
  IF cache = {} \/ report.machines # "unset" THEN {report.machines}
  ELSE {ReadyOf(m) : m \in cache}

\* all getters point to the loop variable, which is left at the last of a list
\* in no order; nothing is set if there is none or it has no Ready condition
Aggregate(report) ==
  IF cache = {} THEN {report.machines}
  ELSE {IF ReadyOf(m) = "unset" THEN report.machines ELSE ReadyOf(m) : m \in cache}

\* reconcileConditions
Default(value) == IF value = "unset" THEN "false" ELSE value

Bootstrappable == cache # {} /\ \A m \in cache : machine[m] # "made"

\* the end of reconcileMachines when the number of Machines is the desired one
Settle(report) ==
  IF report.booted \/ Bootstrappable
  THEN [report EXCEPT !.bootstrapped = IF report.booted THEN @ ELSE "true",
                      !.booted = TRUE, !.created = "true",
                      !.resized = IF report.machines = "unset" THEN @ ELSE "true"]
  ELSE [report EXCEPT !.bootstrapped = "false"]

\* a bug: Resized is not taken back while the control plane is scaled up
DecideQuietly(report) ==
  IF Cardinality(cache) = Replicas THEN Settle(report) ELSE report

Decide(report) ==
  IF Cardinality(cache) = Replicas THEN Settle(report)
  ELSE IF cache = {} THEN report
  ELSE [report EXCEPT !.resized = "false"]

Add ==
  \E m \in Machine :
    /\ machine[m] = "none" /\ \A k \in 1 .. m - 1 : machine[k] # "none"
    /\ machine' = [machine EXCEPT ![m] = "made"]

\* reconcile up to reconcileMachines
Begun(report) ==
  {Decide([report EXCEPT !.machines = value, !.available = Default(@),
                         !.bootstrapped = Default(@)]) : value \in Aggregate(report)}

\* reconcile returns before any of this, without an endpoint or because a call
\* fails; updateStatus and the patch are deferred and follow all the same
Wait ==
  /\ pc = "idle" /\ pc' = "count"
  /\ copy' = stored
  /\ \/ ~endpoint /\ UNCHANGED faults
     \/ Fail
  /\ UNCHANGED <<secretVars, worldVars, stored>>

Reconcile ==
  /\ pc = "idle" /\ endpoint /\ pc' = "count"
  /\ copy' \in Begun(stored)
  /\ IF Cardinality(cache) < Replicas THEN Add ELSE UNCHANGED machine
  /\ UNCHANGED <<secretVars, cache, node, stored, faults>>

\* a call of bootControlPlane fails; the bound is an API server that refuses
ReconcileFails ==
  /\ pc = "idle" /\ endpoint /\ pc' = "count"
  /\ Cardinality(cache) < Replicas
  /\ \E report \in Begun(stored) : copy' = [report EXCEPT !.created = "false"]
  /\ \/ Fail
     \/ (\A m \in Machine : machine[m] # "none") /\ UNCHANGED faults
  /\ UNCHANGED <<secretVars, worldVars, stored>>

-----------------------------------------------------------------------------
(* updateStatus                                                             *)

\* a bug: Ready is not reset before the workload cluster is asked
CountKeepingReady == [copy EXCEPT !.unavailable = Cardinality(cache)]

\* a bug: UnavailableReplicas is added to what it was
CountMore == [copy EXCEPT !.ready = FALSE, !.unavailable = @ + Cardinality(cache)]

\* a bug: only the Machines that are up are counted
CountRunning ==
  [copy EXCEPT !.ready = FALSE,
               !.unavailable = Cardinality({m \in cache : machine[m] = "up"})]

\* what is set before the workload cluster is asked; Replicas and
\* ReadyReplicas are the summands of UnavailableReplicas
CountMachines == [copy EXCEPT !.ready = FALSE, !.unavailable = Cardinality(cache)]

\* without a kubeconfig updateStatus returns nil, and the patch follows
UpdateStatus ==
  /\ pc = "count" /\ copy' = CountMachines
  /\ \/ EnsureFails /\ pc' = "conditions" /\ UNCHANGED secretVars
     \/ EnsureKubeconfig /\ pc' = IF GetKubeconfig THEN "nodes" ELSE "conditions"
  /\ UNCHANGED <<worldVars, stored, faults>>

KubeconfigFails ==
  /\ pc = "count" /\ pc' = "conditions" /\ Fail
  /\ copy' = CountMachines
  /\ UNCHANGED <<secretVars, worldVars, stored>>

\* the Nodes listed; updateProviderID, before this, can only fail
Registered == {m \in Machine : node[m] # "none"}

CountNodes ==
  /\ pc = "nodes" /\ pc' = "conditions"
  /\ copy' = [copy EXCEPT
       !.unavailable = @ - Cardinality({m \in Registered : node[m] = "ready"}),
       !.ready = (Registered # {}),
       !.initialized = @ \/ Registered # {},
       !.available = IF Registered # {} THEN "true" ELSE @]
  /\ UNCHANGED <<secretVars, worldVars, stored, faults>>

\* a call fails, as those to the workload cluster do while it has no Node up
NodesFail ==
  /\ pc = "nodes" /\ pc' = "conditions"
  /\ \/ Fail
     \/ Registered = {} /\ UNCHANGED faults
  /\ UNCHANGED <<secretVars, worldVars, stored, copy>>

-----------------------------------------------------------------------------
(* patchMicroK8sControlPlane: the conditions first, then, whatever came of  *)
(* that, the status.                                                        *)

Written(fields) ==
  [f \in DOMAIN stored |-> IF f \in fields THEN copy[f] ELSE stored[f]]

PatchConditions ==
  /\ pc = "conditions" /\ pc' = "status"
  /\ stored' = Written(Condition)
  /\ UNCHANGED <<secretVars, worldVars, copy, faults>>

PatchConditionsFails ==
  /\ pc = "conditions" /\ pc' = "status" /\ Fail
  /\ UNCHANGED <<secretVars, worldVars, stored, copy>>

Rest == pc' = "idle" /\ copy' = Blank

PatchStatus ==
  /\ pc = "status" /\ Rest
  /\ stored' = Written(DOMAIN stored \ Condition)
  /\ UNCHANGED <<secretVars, worldVars, faults>>

\* the last call fails, or the process dies somewhere on the way
Interrupt ==
  /\ pc # "idle" /\ Fail /\ Rest
  /\ UNCHANGED <<secretVars, worldVars, stored>>

Controller ==
  \/ Wait \/ Reconcile \/ ReconcileFails \/ UpdateStatus \/ KubeconfigFails
  \/ CountNodes \/ NodesFail \/ PatchConditions \/ PatchConditionsFails \/ PatchStatus

-----------------------------------------------------------------------------
(* The environment.                                                         *)

Exists(m) == machine[m] \notin {"none", "gone"}

\* the cache is late with what exists; what it shows of a Machine is current
Observe(m) ==
  /\ Exists(m) # (m \in cache)
  /\ cache' = IF Exists(m) THEN cache \cup {m} ELSE cache \ {m}
  /\ UNCHANGED <<secretVars, machine, node, stored, copy, pc, faults>>

\* a Machine is provisioned, which takes minutes, and its health comes and goes
MachineMoves(m) ==
  /\ machine[m] \in {"made", "up", "down"} /\ m \in cache
  /\ machine' = [machine EXCEPT ![m] = IF @ = "up" THEN "down" ELSE "up"]
  /\ UNCHANGED <<secretVars, cache, node, stored, copy, pc, faults>>

TearDown(m) ==
  /\ machine[m] \in {"up", "down"}
  /\ machine' = [machine EXCEPT ![m] = "gone"]
  /\ node' = [node EXCEPT ![m] = "none"]
  /\ UNCHANGED <<secretVars, cache, stored, copy, pc, faults>>

NodeMoves(m) ==
  /\ machine[m] \in {"up", "down"}
  /\ node' = [node EXCEPT ![m] = IF @ = "ready" THEN "notready" ELSE "ready"]
  /\ UNCHANGED <<secretVars, machine, cache, stored, copy, pc, faults>>

\* the CA comes with the bootstrap data of the first Machine
Secrets ==
  /\ \/ ShowKubeconfig \/ SetEndpoint \/ NamesakeMoves
     \/ (\E m \in Machine : machine[m] # "none") /\ StoreCA
  /\ UNCHANGED <<worldVars, stored, copy, pc, faults>>

Next ==
  \/ Controller \/ Interrupt \/ Secrets
  \/ \E m \in Machine : Observe(m) \/ MachineMoves(m) \/ TearDown(m) \/ NodeMoves(m)

Spec == Init /\ [][Next]_vars

\* passes are requeued, the informer catches up with Machines and Secrets
Fairness ==
  /\ WF_vars(Controller) /\ \A m \in Machine : WF_vars(Observe(m))
  /\ WF_vars(ShowKubeconfig /\ UNCHANGED <<worldVars, stored, copy, pc, faults>>)

FairSpec == Spec /\ Fairness

-----------------------------------------------------------------------------
(* Properties.                                                              *)

\* Every field keeps its type; what a pass holds in memory is forgotten when
\* it ends, and UnavailableReplicas never leaves -MaxMachines .. MaxMachines,
\* although it is a difference of two lists of different age.
StatusTypeOK ==
  /\ SecretTypeOK
  /\ machine \in [Machine -> Stage] /\ node \in [Machine -> NodeStage]
  /\ cache \subseteq Machine /\ stored \in Report /\ copy \in Report
  /\ pc \in Call /\ faults \in 0 .. MaxFaults
  /\ pc = "idle" => copy = Blank

Existing == {m \in Machine : Exists(m)}

\* the Secret of a namesake does not stand in for a missing one
OwnSecret == own = "absent" => ~namesake

\* Ready is reported only of a control plane that was initialized and reached through
\* its own kubeconfig Secret (status.go:57): one of a namesake, which configs.go:89
\* takes for it, never makes a Cluster ready, and neither does half of a failed patch.
ReadyAfterContact == stored.ready => stored.initialized /\ endpoint /\ own = "shown"

\* as many Machines as asked for, all up, with their Nodes
Healthy ==
  /\ endpoint /\ ca /\ OwnSecret
  /\ Cardinality(Existing) = Replicas /\ cache = Existing
  /\ \A m \in Existing : machine[m] = "up" /\ node[m] = "ready"

\* A control plane that stays complete and healthy is reported so in the end,
\* whatever failed on the way.  MachinesReady is right too when all Machines
\* agree, although it is taken from one of them (reconcile.go:65), and the
\* kubeconfig Secret is made unless a namesake's is found (configs.go:89).
\* MachinesBootstrapped is the exception: Bootstrapped in the status keeps it
\* from being set again (reconcile.go:292) when its patch has failed.
EventuallyReported ==
  <>[]Healthy
  => <>[](/\ stored.ready /\ stored.initialized /\ stored.booted /\ stored.unavailable = 0
          /\ \A c \in Condition : stored[c] = "true" \/ (c = "bootstrapped" /\ faults > 0))

\* When the workload cluster has no Node left, Ready is withdrawn, although
\* updateStatus cannot reach its API server any more (status.go:45).
ReadyWithdrawn == <>[](Registered = {}) => <>[]~stored.ready

\* UnavailableReplicas is a difference of a cached list of Machines and a
\* later list of Nodes (status.go:92); once the cache has the Machines there
\* are, it does not stay negative.
NegativeIsTemporary == <>[](cache = Existing) => <>[](stored.unavailable >= 0)

\* A control plane that stays too small, because Machines cannot be created,
\* says so in both conditions about its size (reconcile.go:255, 366-411).
ShortageIsReported ==
  <>[](/\ endpoint /\ cache = Existing /\ Existing # {} /\ Cardinality(Existing) < Replicas)
  => <>[](stored.resized = "false" /\ stored.created = "false")

\* What conditions.go:8 says of MachinesReady, "an aggregate of current status of
\* the machines controlled by the MicroK8sControlPlane": a Machine that stays
\* down, and is listed, is shown once all have a Ready condition.  All getters
\* point to one Machine (reconcile.go:65).
SickMachineShows ==
  <>[](/\ endpoint /\ cache = Existing /\ \A m \in Existing : machine[m] # "made"
       /\ \E m \in Existing : machine[m] = "down")
  => <>[](stored.machines = "false")

\* What configs.go:80 says of the kubeconfig, "If not create it": with an
\* endpoint and a CA the Cluster gets its Secret.
KubeconfigComes == endpoint /\ ca ~> own # "absent"
=============================================================================
