-------------------------- MODULE ProviderIDProofs --------------------------
(***************************************************************************)
(* Theorems about module ProviderID, for every number of Machines, every   *)
(* assignment of addresses and every number of failures.                   *)
(***************************************************************************)
EXTENDS ProviderID, TLAPS

\* What the match by address rests on: running Machines have addresses of their
\* own, only Machines that were created are listed or have a Node, and a Node
\* that has not changed since it was listed is still ready.
Matching ==
  /\ \A j, k \in Machine :
       machine[j] = "up" /\ machine[k] = "up" /\ j # k => Address[j] # Address[k]
  /\ \A k \in cache : machine[k] # "none"
  /\ \A m \in Machine : node[m] # "none" => Exists(m)
  /\ \A m \in fresh : node[m] = "ready"

LEMMA InitMatches == Init => ProviderTypeOK /\ Matching
BY ProviderAssumption DEF Init, ProviderTypeOK, Matching, Machine, None, Stage, NodeStage

\* What a call of updateProviderID does to the Nodes.
LEMMA ProvideTyped ==
  ASSUME ProviderTypeOK, Matching, NEW some \in SUBSET fresh, Provide(some)
  PROVE  /\ provider' \in [Machine -> Machine \cup {None}]
         /\ \A m \in Machine : provider'[m] # None => node[m] # "none"
         /\ \A m, k \in Machine : provider[m] # k /\ provider'[m] = k
              => m \in some /\ k \in cache /\ Address[k] = Address[m]
<1>1. PICK found \in [some -> Machine \cup {None}] :
        /\ \A m \in some : IF WithAddress(m) = {} THEN found[m] = None
                                                  ELSE found[m] \in WithAddress(m)
        /\ provider' = [m \in Machine |-> IF m \in some THEN found[m] ELSE provider[m]]
  BY DEF Provide
<1>2. \A m \in some : m \in Machine /\ node[m] = "ready"
  BY DEF ProviderTypeOK, Matching
<1>3. provider' \in [Machine -> Machine \cup {None}]
  BY <1>1 DEF ProviderTypeOK
<1>4. \A m \in Machine : provider'[m] # None => node[m] # "none"
  BY <1>1, <1>2 DEF ProviderTypeOK
<1>5. ASSUME NEW m \in Machine, NEW k \in Machine, provider[m] # k, provider'[m] = k
      PROVE  m \in some /\ k \in cache /\ Address[k] = Address[m]
  <2>1. m \in some /\ found[m] = k
    BY <1>1, <1>5
  <2>2. k # None
    BY DEF Machine, None
  <2> QED BY <1>1, <2>1, <2>2 DEF WithAddress
<1> QED BY <1>3, <1>4, <1>5

LEMMA StepMatches == ProviderTypeOK /\ Matching /\ [Next]_vars => ProviderTypeOK' /\ Matching'
<1> SUFFICES ASSUME ProviderTypeOK, Matching, [Next]_vars
             PROVE  ProviderTypeOK' /\ Matching'
  OBVIOUS
<1> USE ProviderAssumption
<1>1. CASE ListNodes
  BY <1>1 DEF ListNodes, Wants, ProviderTypeOK, Matching, Exists
<1>2. CASE UpdateNodes
  BY <1>2, ProvideTyped DEF UpdateNodes, Forget, ProviderTypeOK, Matching, Exists
<1>3. CASE UpdateFails
  <2>1. PICK some \in SUBSET fresh : Provide(some)
    BY <1>3 DEF UpdateFails
  <2>2. faults' \in 0 .. MaxFaults
    BY <1>3 DEF UpdateFails, Fail, ProviderTypeOK
  <2> QED BY <1>3, <2>1, <2>2, ProvideTyped
          DEF UpdateFails, Forget, ProviderTypeOK, Matching, Exists
<1>4. ASSUME NEW m \in Machine, Observe(m) PROVE ProviderTypeOK' /\ Matching'
  BY <1>4 DEF Observe, passVars, ProviderTypeOK, Matching, Exists
<1>5. ASSUME NEW m \in Machine, Provision(m) PROVE ProviderTypeOK' /\ Matching'
  BY <1>5 DEF Provision, passVars, ProviderTypeOK, Matching, Exists, Stage
<1>6. ASSUME NEW m \in Machine, Release(m) PROVE ProviderTypeOK' /\ Matching'
  BY <1>6 DEF Release, passVars, ProviderTypeOK, Matching, Exists, Stage
<1>7. ASSUME NEW m \in Machine, NodeGoes(m) PROVE ProviderTypeOK' /\ Matching'
  BY <1>7 DEF NodeGoes, ProviderTypeOK, Matching, Exists, Stage, NodeStage
<1>8. ASSUME NEW m \in Machine, NodeMoves(m) PROVE ProviderTypeOK' /\ Matching'
  BY <1>8 DEF NodeMoves, ProviderTypeOK, Matching, Exists, NodeStage
<1>9. CASE UNCHANGED vars
  BY <1>9 DEF vars, passVars, ProviderTypeOK, Matching, Exists
<1> QED
  BY <1>1, <1>2, <1>3, <1>4, <1>5, <1>6, <1>7, <1>8, <1>9 DEF Next, Controller

\* updateProviderID keeps the types, and gives a ProviderID only to a Node that
\* still exists, although the Nodes may have gone since it listed them.
THEOREM ProviderTyped == Spec => []ProviderTypeOK
BY InitMatches, StepMatches, PTL DEF Spec

-----------------------------------------------------------------------------
LEMMA StepForeign ==
  ASSUME ProviderTypeOK, Matching, [Next]_vars,
         NEW m \in Machine, NEW k \in Machine,
         provider[m] # k, provider'[m] = k, k # m
  PROVE  machine[m] = "released" \/ machine[k] \in {"released", "gone"}
<1>1. ASSUME NEW n \in Machine, NodeGoes(n) PROVE FALSE
  <2>1. provider'[m] = provider[m] \/ provider'[m] = None
    BY <1>1 DEF NodeGoes, ProviderTypeOK
  <2>2. k # None
    BY ProviderAssumption DEF Machine, None
  <2> QED BY <2>1, <2>2
<1>2. UpdateNodes \/ UpdateFails
  BY <1>1 DEF Next, Controller, ListNodes, Observe, Provision, Release, NodeMoves, vars
<1>3. PICK some \in SUBSET fresh : Provide(some)
  BY <1>2 DEF UpdateNodes, UpdateFails
<1>4. m \in fresh /\ k \in cache /\ Address[k] = Address[m]
  BY <1>3, ProvideTyped
<1>5. machine[m] \in {"up", "released"} /\ machine[k] # "none"
  BY <1>4 DEF Matching, Exists
<1>6. ~(machine[m] = "up" /\ machine[k] = "up")
  BY <1>4 DEF Matching
<1> QED BY <1>5, <1>6 DEF ProviderTypeOK, Stage

\* However late the cache and however addresses are used again, a Node is given
\* the ProviderID of another Machine only when one of the two is being torn down,
\* or is gone and still listed.
THEOREM OwnProviderWhileUp == Spec => ForeignOnlyInTeardown
<1>1. ProviderTypeOK /\ Matching /\ [Next]_vars
        => [\A m, k \in Machine :
              provider[m] # k /\ provider'[m] = k /\ k # m
                => machine[m] = "released" \/ machine[k] \in {"released", "gone"}]_vars
  BY StepForeign
<1> QED BY <1>1, InitMatches, StepMatches, PTL DEF Spec, ForeignOnlyInTeardown
=============================================================================
