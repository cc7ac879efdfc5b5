------------------------------ MODULE Lifecycle ------------------------------
(***************************************************************************)
(* Reconcile and reconcileDelete: the life of one MicroK8sControlPlane     *)
(* from the finalizer to its deletion, with its Machines, the Secrets of   *)
(* its workload cluster, and the Cluster whose owner reference, pause,     *)
(* infrastructure and endpoint hold a pass back, and the workqueue that    *)
(* starts its passes.                                                      *)
(*                                                                         *)
(* Of reconcileMachines only the creation of Machines up to the desired    *)
(* number is kept; module ReconcileMachines has all of it.                 *)
(***************************************************************************)
EXTENDS Naturals, FiniteSets

CONSTANTS
  MaxMachines,  \* bound: Machines ever created
  MaxFaults,    \* bound: calls that fail and processes that die
  MaxTaken,     \* bound: Machines deleted by somebody else
  Replicas,     \* spec.replicas
  CacheLags     \* may a pass list Machines from a stale cache?

ASSUME LifecycleAssumption ==
  /\ MaxMachines \in Nat /\ MaxFaults \in Nat /\ MaxTaken \in Nat /\ Replicas \in Nat
  /\ CacheLags \in BOOLEAN

Machine == 1 .. MaxMachines
Stage   == {"none", "live", "deleting", "gone"}

\* the Secrets reconcileDelete cleans up, by the suffix of their name
Secret == {"kubeconfig", "ca", "jointoken"}

VARIABLES
  mcp,      \* the object: its stage, and whether it carries the finalizer
  cluster,  \* what a pass asks of the Cluster
  machine,  \* stage of each Machine, as the API server has it
  cache,    \* the same as the informer cache shows it
  secrets,  \* Secrets that exist
  taken,    \* Machines whose deletion somebody else requested
  pc,       \* the call the current pass makes next
  todo,     \* Machines the current pass has still to delete
  faults,   \* failures so far
  listed,   \* Machines that some pass has found in its list; nothing reads it
  queue     \* "key": the workqueue has it, now or when its delay is over;
            \* "event": the object or its Cluster has an event to be delivered

vars == <<mcp, cluster, machine, cache, secrets, taken, pc, todo, faults, listed, queue>>

Call == {"idle", "finalize", "create", "status", "delete", "clean", "release"}

Init ==
  /\ mcp = [st |-> "live", fin |-> FALSE]
  /\ cluster = [owner |-> FALSE, paused |-> FALSE, ready |-> FALSE, endpoint |-> FALSE]
  /\ machine = [m \in Machine |-> "none"]
  /\ cache = machine
  /\ secrets = {} /\ taken = {}
  /\ pc = "idle" /\ todo = {}
  /\ faults = 0 /\ listed = {}
  /\ queue = {"event"}

Existing(objects) == {m \in Machine : objects[m] \in {"live", "deleting"}}

Rest == todo' = {}

-----------------------------------------------------------------------------
(* Reconcile.  The object is read live, the Machines come from the cache.   *)

\* a pass that finds one of these missing returns without doing anything, a
\* deletion waits with it; its key is queued again, so nothing changes at all
Proceeds == mcp.st # "gone" /\ cluster.owner /\ ~cluster.paused /\ cluster.ready

Begin(call) ==
  /\ pc = "idle" /\ "key" \in queue /\ Proceeds
  /\ CacheLags \/ cache = machine
  /\ pc' = call /\ queue' = queue \ {"key"}
  /\ UNCHANGED <<mcp, cluster, machine, cache, secrets, taken, faults>>

List == listed' = listed \cup Existing(cache)

\* the object is not found, and the key is forgotten
Forget ==
  /\ pc = "idle" /\ mcp.st = "gone" /\ "key" \in queue /\ queue' = queue \ {"key"}
  /\ UNCHANGED <<mcp, cluster, machine, cache, secrets, taken, pc, todo, faults, listed>>

BeginFinalize == ~mcp.fin /\ Begin("finalize") /\ UNCHANGED <<todo, listed>>

\* a bug: the pass that finds no finalizer goes on instead of returning
BeginReconcileUnprotected ==
  /\ mcp.st = "live"
  /\ \/ cluster.endpoint /\ Cardinality(Existing(cache)) < Replicas /\ Begin("create")
     \/ Begin("status")
  /\ List /\ UNCHANGED todo

\* without an endpoint reconcile returns early; the deferred part runs anyway
BeginReconcile ==
  /\ mcp.fin /\ mcp.st = "live"
  /\ IF cluster.endpoint /\ Cardinality(Existing(cache)) < Replicas
     THEN Begin("create") ELSE Begin("status")
  /\ List /\ UNCHANGED todo

\* a bug: the finalizer is removed once every Machine is being deleted
BeginDeleteHasty ==
  /\ mcp.fin /\ mcp.st = "deleting"
  /\ IF \E m \in Machine : cache[m] = "live"
     THEN Begin("delete") /\ todo' = {m \in Machine : cache[m] = "live"}
     ELSE Begin("release") /\ UNCHANGED todo
  /\ List

\* a bug: the finalizer also waits for the Secrets, which go with the Machines only
BeginDeleteAfterSecrets ==
  /\ mcp.fin /\ mcp.st = "deleting"
  /\ IF Existing(cache) = {}
     THEN secrets = {} /\ Begin("release") /\ UNCHANGED todo
     ELSE Begin("delete") /\ todo' = {m \in Machine : cache[m] = "live"}
  /\ List

BeginDelete ==
  /\ mcp.fin /\ mcp.st = "deleting"
  /\ IF Existing(cache) = {}
     THEN Begin("release") /\ UNCHANGED todo
     ELSE Begin("delete") /\ todo' = {m \in Machine : cache[m] = "live"}
  /\ List

\* a bug: the watch takes only events that raise the object's generation
PatchFinalizerUnnoticed ==
  /\ pc = "finalize" /\ pc' = "idle"
  /\ mcp' = [mcp EXCEPT !.fin = (mcp.st # "gone")]
  /\ UNCHANGED <<cluster, machine, cache, secrets, taken, todo, faults, queue, listed>>

\* the pass is not requeued: the event of its own patch starts the next one;
\* the patch comes too late for an object that was deleted without a finalizer
PatchFinalizer ==
  /\ pc = "finalize" /\ pc' = "idle"
  /\ mcp' = [mcp EXCEPT !.fin = (mcp.st # "gone")]
  /\ queue' = IF mcp.st = "gone" THEN queue ELSE queue \cup {"event"}
  /\ UNCHANGED <<cluster, machine, cache, secrets, taken, todo, faults, listed>>

CreateMachine ==
  /\ pc = "create" /\ pc' = "status"
  /\ \E m \in Machine :
       /\ machine[m] = "none" /\ \A k \in 1 .. m - 1 : machine[k] # "none"
       /\ machine' = [machine EXCEPT ![m] = "live"]
  /\ UNCHANGED <<mcp, cluster, cache, secrets, taken, todo, faults, queue, listed>>

\* the creation fails, or the bound is reached: the deferred part still runs
CreateFails ==
  /\ pc = "create" /\ pc' = "status"
  /\ \/ faults < MaxFaults /\ faults' = faults + 1
     \/ (\A m \in Machine : machine[m] # "none") /\ UNCHANGED faults
  /\ UNCHANGED <<mcp, cluster, machine, cache, secrets, taken, todo, queue, listed>>

\* updateStatus of a live object asks for a client of the workload cluster, and
\* kubeconfigForCluster writes the kubeconfig Secret if it can
UpdateStatus ==
  /\ pc = "status" /\ pc' = "idle" /\ queue' = queue \cup {"key"}
  /\ secrets' = IF cluster.endpoint /\ "ca" \in secrets
                THEN secrets \cup {"kubeconfig"} ELSE secrets
  /\ UNCHANGED <<mcp, cluster, machine, cache, taken, todo, faults, listed>>

-----------------------------------------------------------------------------
(* reconcileDelete                                                          *)

\* a Machine that is gone already is as good as deleted
DeleteMachine(m) ==
  /\ pc = "delete" /\ m \in todo
  /\ todo' = todo \ {m}
  /\ machine' = [machine EXCEPT ![m] = IF machine[m] = "live" THEN "deleting" ELSE @]
  /\ UNCHANGED <<mcp, cluster, cache, secrets, taken, pc, faults, queue, listed>>

AllDeleted ==
  /\ pc = "delete" /\ todo = {} /\ pc' = "clean"
  /\ UNCHANGED <<mcp, cluster, machine, cache, secrets, taken, todo, faults, queue, listed>>

\* a bug: the kubeconfig is forgotten
CleanAllButKubeconfig ==
  /\ pc = "clean" /\ pc' = "idle" /\ queue' = queue \cup {"key"}
  /\ secrets' = secrets \cap {"kubeconfig"}
  /\ UNCHANGED <<mcp, cluster, machine, cache, taken, todo, faults, listed>>

CleanSecrets ==
  /\ pc = "clean" /\ pc' = "idle" /\ queue' = queue \cup {"key"}
  /\ secrets' = {}
  /\ UNCHANGED <<mcp, cluster, machine, cache, taken, todo, faults, listed>>

\* Secrets that cannot be deleted are logged and left, and the process may die
\* between two of the three calls
CleanSecretsPartly ==
  /\ pc = "clean" /\ pc' = "idle" /\ queue' = queue \cup {"key"}
  /\ faults < MaxFaults /\ faults' = faults + 1
  /\ secrets' \in SUBSET secrets
  /\ UNCHANGED <<mcp, cluster, machine, cache, taken, todo, listed>>

\* without its finalizer the object goes; when the Update fails, the deferred patch
\* of the same copy takes the finalizer away all the same
RemoveFinalizer ==
  /\ pc = "release" /\ pc' = "idle" /\ queue' = {"event", "key"}
  /\ mcp' = [st |-> "gone", fin |-> FALSE]
  /\ faults' = faults \/ (faults < MaxFaults /\ faults' = faults + 1)
  /\ UNCHANGED <<cluster, machine, cache, secrets, taken, todo, listed>>

\* the next call fails and ends the pass, or the process dies before it
Interrupt ==
  /\ pc # "idle" /\ pc' = "idle" /\ queue' = queue \cup {"key"} /\ Rest
  /\ faults < MaxFaults /\ faults' = faults + 1
  /\ UNCHANGED <<mcp, cluster, machine, cache, secrets, taken, listed>>

Controller ==
  \/ BeginFinalize \/ BeginReconcile \/ BeginDelete
  \/ PatchFinalizer \/ CreateMachine \/ CreateFails \/ UpdateStatus
  \/ (\E m \in Machine : DeleteMachine(m)) \/ AllDeleted
  \/ CleanSecrets \/ RemoveFinalizer

-----------------------------------------------------------------------------
(* The environment.  What changes the object or its Cluster has an event.   *)

\* both are watched, the Cluster for the control plane it refers to
Deliver ==
  /\ "event" \in queue /\ queue' = {"key"}
  /\ UNCHANGED <<mcp, cluster, machine, cache, secrets, taken, pc, todo, faults, listed>>

\* the Cluster controller and the infrastructure provider, in this order
Prepare ==
  /\ \/ ~cluster.owner /\ cluster' = [cluster EXCEPT !.owner = TRUE]
     \/ cluster.owner /\ ~cluster.ready /\ cluster' = [cluster EXCEPT !.ready = TRUE]
     \/ cluster.owner /\ ~cluster.endpoint /\ cluster' = [cluster EXCEPT !.endpoint = TRUE]
  /\ queue' = queue \cup {"event"}
  /\ UNCHANGED <<mcp, machine, cache, secrets, taken, pc, todo, faults, listed>>

Pause ==
  /\ cluster' = [cluster EXCEPT !.paused = ~@]
  /\ queue' = queue \cup {"event"}
  /\ UNCHANGED <<mcp, machine, cache, secrets, taken, pc, todo, faults, listed>>

\* without a finalizer the object goes at once
DeleteControlPlane ==
  /\ mcp.st = "live"
  /\ mcp' = [mcp EXCEPT !.st = IF mcp.fin THEN "deleting" ELSE "gone"]
  /\ queue' = queue \cup {"event"}
  /\ UNCHANGED <<cluster, machine, cache, secrets, taken, pc, todo, faults, listed>>

\* the bootstrap provider stores the CA and the join token for a live Machine
Bootstrap ==
  /\ \E m \in Machine : machine[m] = "live"
  /\ secrets' = secrets \cup {"ca", "jointoken"}
  /\ UNCHANGED <<mcp, cluster, machine, cache, taken, pc, todo, faults, queue, listed>>

\* the Machines are watched as owned by the object
Observe(m) ==
  /\ cache[m] # machine[m]
  /\ cache' = [cache EXCEPT ![m] = machine[m]]
  /\ queue' = queue \cup {"key"}
  /\ UNCHANGED <<mcp, cluster, machine, secrets, taken, pc, todo, faults, listed>>

Finish(m) ==
  /\ machine[m] = "deleting"
  /\ machine' = [machine EXCEPT ![m] = "gone"]
  /\ UNCHANGED <<mcp, cluster, cache, secrets, taken, pc, todo, faults, queue, listed>>

\* another client deletes a Machine
Take(m) ==
  /\ machine[m] = "live" /\ Cardinality(taken) < MaxTaken
  /\ machine' = [machine EXCEPT ![m] = "deleting"]
  /\ taken' = taken \cup {m}
  /\ UNCHANGED <<mcp, cluster, cache, secrets, pc, todo, faults, queue, listed>>

Next ==
  \/ Controller \/ Forget \/ CleanSecretsPartly \/ Interrupt \/ Deliver
  \/ Prepare \/ Pause \/ DeleteControlPlane \/ Bootstrap
  \/ \E m \in Machine : Observe(m) \/ Finish(m) \/ Take(m)

Spec == Init /\ [][Next]_vars

\* the workqueue hands out its keys, the informers catch up, the Cluster's
\* owner reference and infrastructure come, Machines being deleted go
Fairness ==
  /\ WF_vars(Controller) /\ WF_vars(Deliver) /\ WF_vars(Prepare)
  /\ \A m \in Machine : WF_vars(Observe(m)) /\ WF_vars(Finish(m))

FairSpec == Spec /\ Fairness

-----------------------------------------------------------------------------
(* Properties.                                                              *)

\* The types, and what a pass holds on to: past its prologue it has the finalizer,
\* which only the deletion of the object takes away, and it has Machines left to
\* delete only while it deletes them.
LifecycleTypeOK ==
  /\ mcp \in [st : {"live", "deleting", "gone"}, fin : BOOLEAN]
  /\ cluster \in [owner : BOOLEAN, paused : BOOLEAN, ready : BOOLEAN, endpoint : BOOLEAN]
  /\ machine \in [Machine -> Stage]
  /\ cache \in [Machine -> Stage]
  /\ secrets \subseteq Secret
  /\ taken \subseteq Machine
  /\ pc \in Call
  /\ todo \subseteq Machine
  /\ faults \in 0 .. MaxFaults /\ listed \subseteq Machine
  /\ queue \subseteq {"event", "key"}
  /\ mcp.st = "deleting" => mcp.fin
  /\ mcp.st = "gone" => ~mcp.fin
  /\ pc \notin {"idle", "finalize"} => mcp.fin
  /\ pc # "delete" => todo = {}

\* reconcileDelete, "If no control plane machines remain, remove the finalizer", on a
\* list that may be stale (reconcile.go:445): the object outlives every Machine that
\* any of its passes has ever listed, whoever deletes it and whatever fails.  Only a
\* Machine that no pass has listed yet can be left behind.
OutlivesListed == mcp.st = "gone" => listed \cap Existing(machine) = {}

\* Reconcile, "Add finalizer first if not exist to avoid the race condition
\* between init and delete": a Machine is created only while the finalizer holds
\* the object, even if the user deletes it during the pass.
CreatesProtected == [][Existing(machine') \subseteq Existing(machine) \/ mcp.fin]_vars

\* reconcileDelete, "clean up MicroK8s cluster secrets": when the object and all of
\* its Machines are gone, no Secret of the workload cluster is left, if no call failed
\* and nobody else deleted Machines.  When the Machines are gone before the first
\* delete pass, that pass returns before it comes to the Secrets.
NoSecretLeftUndisturbed ==
  faults = 0 /\ taken = {} /\ mcp.st = "gone" /\ Existing(machine) = {} => secrets = {}

\* As long as the object exists, it is being reconciled, is in the workqueue, or has
\* an event on its way: no pass ends without one of them, the one that adds the
\* finalizer and is not requeued (controller.go:139) and those that fail included.
NoWakeUpLost == mcp.st # "gone" => pc # "idle" \/ queue # {}

\* A control plane that is no longer held back gets its Machines, although the
\* pass that adds the finalizer returns without asking for another one
\* (controller.go:139): no wake-up is lost.
Provisioned ==
  <>[](mcp.st = "live" /\ ~cluster.paused) =>
    <>[](Cardinality({m \in Machine : machine[m] = "live"}) >= Replicas)

\* A deletion that nobody holds back by pausing ends: the object goes, and with it,
\* as OutlivesListed says, every Machine it knew of.
DeletionEnds == <>[]~cluster.paused => (mcp.st = "deleting" ~> mcp.st = "gone")
=============================================================================
