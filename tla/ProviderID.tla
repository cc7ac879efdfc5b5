----------------------------- MODULE ProviderID -----------------------------
(***************************************************************************)
(* updateProviderID, called again and again: it lists the Nodes of the     *)
(* workload cluster, then the Machines of the Cluster from the informer    *)
(* cache, and gives each ready Node without a ProviderID that of a Machine *)
(* with the same address.                                                  *)
(*                                                                         *)
(* Machines come and go by themselves here.  A Node is named by the        *)
(* Machine it runs on, and a ProviderID by the Machine it belongs to.      *)
(***************************************************************************)
EXTENDS Integers

CONSTANTS
  MaxMachines,  \* bound: Machines ever created
  MaxFaults,    \* bound: calls that fail
  Address       \* of each Machine: one that was released may be used again

ASSUME ProviderAssumption ==
  /\ MaxMachines \in Nat /\ MaxFaults \in Nat
  /\ Address \in [1 .. MaxMachines -> STRING]

Machine == 1 .. MaxMachines
None    == 0

\* running; its infrastructure gone and its object still there; gone
Stage     == {"none", "up", "released", "gone"}
NodeStage == {"none", "notready", "ready"}

VARIABLES
  machine,   \* the Machines
  cache,     \* those the informer cache shows
  node,      \* the Node of each
  provider,  \* its spec.providerID: None or a Machine
  pc,        \* what updateProviderID does next
  listed,    \* the Nodes it has listed that want a ProviderID
  fresh,     \* those of them that have not changed since
  faults     \* failures so far

passVars == <<pc, listed, fresh>>
vars     == <<machine, cache, node, provider, passVars, faults>>

Init ==
  /\ machine = [m \in Machine |-> "none"] /\ node = machine /\ cache = {}
  /\ provider = [m \in Machine |-> None]
  /\ pc = "nodes" /\ listed = {} /\ fresh = {} /\ faults = 0

Fail == faults < MaxFaults /\ faults' = faults + 1

Forget == listed' = {} /\ fresh' = {}

\* a bug: readiness is tested the wrong way round
WantsWhileDown(m) == node[m] = "notready" /\ provider[m] = None

Wants(m) == node[m] = "ready" /\ provider[m] = None

ListNodes ==
  /\ pc = "nodes" /\ pc' = "update"
  /\ listed' = {m \in Machine : Wants(m)} /\ fresh' = listed'
  /\ UNCHANGED <<machine, cache, node, provider, faults>>

\* a bug: the address is not compared
AnyMachine(m) == cache

\* addresses stay on the object until it is gone; the list has no order
WithAddress(m) == {k \in cache : Address[k] = Address[m]}

Provide(some) ==
  \E found \in [some -> Machine \cup {None}] :
    /\ \A m \in some : IF WithAddress(m) = {} THEN found[m] = None
                                              ELSE found[m] \in WithAddress(m)
    /\ provider' = [m \in Machine |-> IF m \in some THEN found[m] ELSE provider[m]]

\* Update refuses a Node that has changed since it was listed
Refused == {m \in listed \ fresh : WithAddress(m) # {}}

\* a bug: the version of the Node that was listed is not compared
UpdateBlindly ==
  /\ pc = "update" /\ pc' = "nodes"
  /\ Provide(listed) /\ Forget
  /\ UNCHANGED <<machine, cache, node, faults>>

UpdateNodes ==
  /\ pc = "update" /\ pc' = "nodes"
  /\ Refused = {} /\ Provide(fresh) /\ Forget
  /\ UNCHANGED <<machine, cache, node, faults>>

\* the first failure ends the call, with the Nodes before it updated
UpdateFails ==
  /\ pc = "update" /\ pc' = "nodes"
  /\ \/ Refused # {} /\ UNCHANGED faults
     \/ Fail
  /\ (\E some \in SUBSET fresh : Provide(some)) /\ Forget
  /\ UNCHANGED <<machine, cache, node>>

Controller == ListNodes \/ UpdateNodes \/ UpdateFails

-----------------------------------------------------------------------------
(* The infrastructure provider, Cluster API and the kubelets.               *)

Exists(m) == machine[m] \in {"up", "released"}

Observe(m) ==
  /\ Exists(m) # (m \in cache)
  /\ cache' = IF Exists(m) THEN cache \cup {m} ELSE cache \ {m}
  /\ UNCHANGED <<machine, node, provider, passVars, faults>>

\* an address belongs to one running Machine at a time
Provision(m) ==
  /\ machine[m] = "none" /\ \A k \in Machine : machine[k] = "up" => Address[k] # Address[m]
  /\ machine' = [machine EXCEPT ![m] = "up"]
  /\ UNCHANGED <<cache, node, provider, passVars, faults>>

Release(m) ==
  /\ machine[m] = "up" /\ machine' = [machine EXCEPT ![m] = "released"]
  /\ UNCHANGED <<cache, node, provider, passVars, faults>>

\* the Node outlives the infrastructure, and goes before the Machine's object
NodeGoes(m) ==
  /\ machine[m] = "released" /\ machine' = [machine EXCEPT ![m] = "gone"]
  /\ node' = [node EXCEPT ![m] = "none"] /\ provider' = [provider EXCEPT ![m] = None]
  /\ fresh' = fresh \ {m}
  /\ UNCHANGED <<cache, pc, listed, faults>>

NodeMoves(m) ==
  /\ \/ machine[m] = "up" /\ node[m] # "ready" /\ node' = [node EXCEPT ![m] = "ready"]
     \/ Exists(m) /\ node[m] = "ready" /\ node' = [node EXCEPT ![m] = "notready"]
  /\ fresh' = fresh \ {m}
  /\ UNCHANGED <<machine, cache, provider, pc, listed, faults>>

Next ==
  \/ Controller
  \/ \E m \in Machine :
       Observe(m) \/ Provision(m) \/ Release(m) \/ NodeGoes(m) \/ NodeMoves(m)

Spec == Init /\ [][Next]_vars

\* passes are requeued every 30 seconds, and the informer catches up
FairSpec == Spec /\ WF_vars(Controller) /\ \A m \in Machine : WF_vars(Observe(m))

-----------------------------------------------------------------------------
(* Properties.                                                              *)

\* Every variable keeps its type, and only a Node that exists has a ProviderID.
ProviderTypeOK ==
  /\ machine \in [Machine -> Stage] /\ node \in [Machine -> NodeStage]
  /\ cache \subseteq Machine /\ provider \in [Machine -> Machine \cup {None}]
  /\ pc \in {"nodes", "update"} /\ fresh \subseteq listed /\ listed \subseteq Machine
  /\ faults \in 0 .. MaxFaults
  /\ \A m \in Machine : provider[m] # None => node[m] # "none"

\* Node and Machine are matched by address alone (status.go:136), on a list of
\* Nodes and a cached list of Machines of different age.  A Node can get the
\* ProviderID of another Machine only while one of the two is being torn down,
\* or is gone and still listed.
ForeignOnlyInTeardown ==
  [][\A m, k \in Machine :
       provider[m] # k /\ provider'[m] = k /\ k # m
         => machine[m] = "released" \/ machine[k] \in {"released", "gone"}]_vars

\* A Node that stays ready gets a ProviderID, whatever failed before
\* (status.go:132-146), once Nodes no longer change: as the first refused
\* update ends the call, one Node that keeps changing can hold back others.
EventuallyProvided ==
  <>[][UNCHANGED node]_vars =>
    \A m \in Machine :
      <>[](machine[m] = "up" /\ node[m] = "ready") => <>(provider[m] # None)
=============================================================================
