----------------------------- MODULE StatusProofs -----------------------------
(***************************************************************************)
(* Theorems about module Status, for every number of Machines and every    *)
(* bound on failures.                                                      *)
(***************************************************************************)
EXTENDS Status, FiniteSetTheorems, TLAPS

\* While the Nodes are asked for, UnavailableReplicas is a count of Machines.
CountIsReset == pc = "nodes" => copy.unavailable \in 0 .. MaxMachines

StatusInv == StatusTypeOK /\ CountIsReset

-----------------------------------------------------------------------------
(* What a pass computes is a report.                                        *)

LEMMA MachinesCounted ==
  ASSUME NEW S \in SUBSET Machine PROVE Cardinality(S) \in 0 .. MaxMachines
<1>1. IsFiniteSet(Machine) /\ Cardinality(Machine) = MaxMachines
  BY FS_Interval, StatusAssumption DEF Machine
<1> QED
  BY <1>1, FS_Subset, FS_CardinalityType, StatusAssumption

LEMMA BlankIsReport == Blank \in Report
BY StatusAssumption DEF Blank, Report, Truth

LEMMA DecideType == ASSUME NEW report \in Report PROVE Decide(report) \in Report
BY DEF Decide, Settle, Report, Truth

LEMMA BegunType ==
  ASSUME NEW report \in Report, NEW result \in Begun(report)
  PROVE  result \in Report
<1>1. Aggregate(report) \subseteq Truth
  BY DEF Aggregate, ReadyOf, Report, Truth
<1>2. PICK value \in Aggregate(report) :
        result = Decide([report EXCEPT !.machines = value, !.available = Default(@),
                                       !.bootstrapped = Default(@)])
  BY DEF Begun
<1>3. Default(report.available) \in Truth /\ Default(report.bootstrapped) \in Truth
  BY DEF Default, Report, Truth
<1>4. [report EXCEPT !.machines = value, !.available = Default(@),
                     !.bootstrapped = Default(@)] \in Report
  BY <1>1, <1>2, <1>3 DEF Report
<1> QED
  BY <1>2, <1>4, DecideType

LEMMA CountMachinesType ==
  ASSUME copy \in Report, cache \subseteq Machine
  PROVE  CountMachines \in Report /\ CountMachines.unavailable \in 0 .. MaxMachines
<1>1. Cardinality(cache) \in 0 .. MaxMachines
  BY MachinesCounted
<1>2. Cardinality(cache) \in -MaxMachines .. MaxMachines
  BY <1>1, StatusAssumption
<1> QED
  BY <1>1, <1>2 DEF CountMachines, Report

LEMMA WrittenType ==
  ASSUME stored \in Report, copy \in Report, NEW fields
  PROVE  Written(fields) \in Report
BY DEF Written, Report

-----------------------------------------------------------------------------
(* Type correctness.                                                        *)

LEMMA InitTyped == Init => StatusInv
<1> SUFFICES ASSUME Init PROVE StatusInv
  OBVIOUS
<1>1. SecretTypeOK
  BY Zenon DEF Init, SecretInit, SecretTypeOK
<1>2. machine \in [Machine -> Stage] /\ node \in [Machine -> NodeStage] /\ cache \subseteq Machine
  BY DEF Init, Stage, NodeStage
<1>3. pc = "idle" /\ pc \in Call /\ faults \in 0 .. MaxFaults
  BY StatusAssumption DEF Init, Call
<1>4. stored \in Report /\ copy \in Report /\ copy = Blank
  BY BlankIsReport DEF Init
<1> QED
  BY <1>1, <1>2, <1>3, <1>4 DEF StatusInv, StatusTypeOK, CountIsReset

LEMMA SecretsTyped ==
  ASSUME SecretTypeOK,
         UNCHANGED secretVars \/ EnsureKubeconfig \/ ShowKubeconfig \/ SetEndpoint \/ StoreCA
         \/ NamesakeMoves
  PROVE  SecretTypeOK'
BY DEF SecretTypeOK, secretVars, EnsureKubeconfig, ShowKubeconfig, SetEndpoint, StoreCA, NamesakeMoves

LEMMA StepTyped == StatusInv /\ [Next]_vars => StatusInv'
<1> SUFFICES ASSUME StatusInv, [Next]_vars PROVE StatusInv'
  OBVIOUS
<1> USE StatusAssumption DEF StatusInv, StatusTypeOK, CountIsReset, worldVars, Call
<1>1. CASE Wait
  BY <1>1, SecretsTyped DEF Wait, Fail
<1>2. CASE Reconcile
  <2>1. copy' \in Report
    BY <1>2, BegunType DEF Reconcile
  <2>2. machine' \in [Machine -> Stage]
    BY <1>2 DEF Reconcile, Add, Stage
  <2> QED
    BY <1>2, <2>1, <2>2, SecretsTyped DEF Reconcile
<1>3. CASE ReconcileFails
  <2>1. PICK report \in Begun(stored) : copy' = [report EXCEPT !.created = "false"]
    BY <1>3 DEF ReconcileFails
  <2>2. copy' \in Report
    BY <2>1, BegunType DEF Report, Truth
  <2> QED
    BY <1>3, <2>2, SecretsTyped DEF ReconcileFails, Fail
<1>4. CASE UpdateStatus
  <2>1. copy' \in Report /\ copy'.unavailable \in 0 .. MaxMachines
    BY <1>4, CountMachinesType DEF UpdateStatus
  <2>2. SecretTypeOK'
    BY <1>4, SecretsTyped DEF UpdateStatus
  <2> QED
    BY <1>4, <2>1, <2>2 DEF UpdateStatus
<1>5. CASE KubeconfigFails
  BY <1>5, SecretsTyped, CountMachinesType DEF KubeconfigFails, Fail
<1>6. CASE CountNodes
  <2> DEFINE ready == {m \in Registered : node[m] = "ready"}
  <2>1. Cardinality(ready) \in 0 .. MaxMachines
    BY MachinesCounted DEF Registered
  <2>2. copy.unavailable - Cardinality(ready) \in -MaxMachines .. MaxMachines
    BY <1>6, <2>1 DEF CountNodes
  <2> HIDE DEF ready
  <2>3. copy' = [copy EXCEPT !.unavailable = @ - Cardinality(ready),
                             !.ready = (Registered # {}),
                             !.initialized = @ \/ Registered # {},
                             !.available = IF Registered # {} THEN "true" ELSE @]
    BY <1>6 DEF CountNodes, ready
  <2>4. copy' \in Report
    BY <2>2, <2>3 DEF Report, Truth
  <2> QED
    BY <1>6, <2>4, SecretsTyped DEF CountNodes
<1>7. CASE NodesFail
  BY <1>7, SecretsTyped DEF NodesFail, Fail
<1>8. CASE PatchConditions
  BY <1>8, WrittenType, SecretsTyped DEF PatchConditions
<1>9. CASE PatchConditionsFails
  BY <1>9, SecretsTyped DEF PatchConditionsFails, Fail
<1>10. CASE PatchStatus
  BY <1>10, WrittenType, BlankIsReport, SecretsTyped DEF PatchStatus, Rest
<1>11. CASE Interrupt
  BY <1>11, BlankIsReport, SecretsTyped DEF Interrupt, Rest, Fail
<1>12. CASE Secrets
  BY <1>12, SecretsTyped DEF Secrets
<1>13. ASSUME NEW m \in Machine, Observe(m) \/ MachineMoves(m) \/ TearDown(m) \/ NodeMoves(m)
       PROVE  StatusInv'
  <2>1. machine' \in [Machine -> Stage] /\ node' \in [Machine -> NodeStage] /\ cache' \subseteq Machine
    BY <1>13 DEF Observe, MachineMoves, TearDown, NodeMoves, Stage, NodeStage
  <2> QED
    BY <1>13, <2>1, SecretsTyped DEF Observe, MachineMoves, TearDown, NodeMoves
<1>14. CASE UNCHANGED vars
  BY <1>14, SecretsTyped DEF vars
<1> QED
  BY <1>1, <1>2, <1>3, <1>4, <1>5, <1>6, <1>7, <1>8, <1>9, <1>10, <1>11, <1>12, <1>13,
     <1>14 DEF Next, Controller

\* What a pass holds in memory is always a report, is forgotten when the pass ends, and
\* UnavailableReplicas stays within the number of Machines, although updateStatus
\* subtracts what one list counts from what another list counted.
THEOREM StatusTyped == Spec => []StatusTypeOK
<1>1. StatusInv => StatusTypeOK
  BY DEF StatusInv
<1> QED
  BY <1>1, InitTyped, StepTyped, PTL DEF Spec

-----------------------------------------------------------------------------
(* Ready.                                                                   *)

\* A report that says ready says initialized.
Sound(report) == report.ready => report.initialized

\* The kubeconfig Secret is made for an endpoint and read back before the workload
\* cluster is asked; nothing takes it away.
ContactInv ==
  /\ own # "absent" => endpoint
  /\ pc = "nodes" \/ copy.ready \/ stored.ready => own = "shown"
  /\ Sound(copy) /\ Sound(stored)

\* reconcile sets conditions, not what the status says of the workload cluster
LEMMA BegunKeeps ==
  ASSUME NEW report \in Report, NEW result \in Begun(report)
  PROVE  result.ready = report.ready /\ result.initialized = report.initialized
<1>1. PICK value \in Aggregate(report) :
        result = Decide([report EXCEPT !.machines = value, !.available = Default(@),
                                       !.bootstrapped = Default(@)])
  BY DEF Begun
<1> DEFINE first == [report EXCEPT !.machines = value, !.available = Default(@),
                                   !.bootstrapped = Default(@)]
<1>2. first.ready = report.ready /\ first.initialized = report.initialized
  BY DEF Report
<1>3. {"ready", "initialized"} \subseteq DOMAIN first
  BY DEF Report
<1> HIDE DEF first
<1>4. Decide(first).ready = first.ready /\ Decide(first).initialized = first.initialized
  BY <1>3 DEF Decide, Settle
<1> QED
  BY <1>1, <1>2, <1>4 DEF first

\* each of the two calls of the patch writes its own part of the object
LEMMA WrittenParts ==
  ASSUME stored \in Report, copy \in Report
  PROVE  /\ Written(Condition).ready = stored.ready
         /\ Written(Condition).initialized = stored.initialized
         /\ Written(DOMAIN stored \ Condition).ready = copy.ready
         /\ Written(DOMAIN stored \ Condition).initialized = copy.initialized
BY DEF Written, Report, Condition

\* the steps that leave the object and the pass alone
LEMMA SecretsKeepContact ==
  ASSUME SecretTypeOK, ContactInv, UNCHANGED <<stored, copy, pc>>,
         UNCHANGED secretVars \/ ShowKubeconfig \/ SetEndpoint \/ StoreCA \/ NamesakeMoves
  PROVE  ContactInv'
BY DEF SecretTypeOK, ContactInv, Sound, secretVars, ShowKubeconfig, SetEndpoint, StoreCA, NamesakeMoves

\* the steps of a pass that leave the Secrets alone
LEMMA PassKeepsContact ==
  ASSUME ContactInv, own' = own, endpoint' = endpoint, pc' # "nodes",
         Sound(copy'), copy'.ready => own = "shown",
         Sound(stored'), stored'.ready => own = "shown"
  PROVE  ContactInv'
BY DEF ContactInv, Sound

LEMMA StepContact == StatusInv /\ ContactInv /\ [Next]_vars => ContactInv'
<1> SUFFICES ASSUME StatusInv, ContactInv, [Next]_vars PROVE ContactInv'
  OBVIOUS
<1>0. /\ SecretTypeOK /\ stored \in Report /\ copy \in Report
      /\ Sound(copy) /\ (copy.ready => own = "shown")
      /\ Sound(stored) /\ (stored.ready => own = "shown")
  BY DEF StatusInv, StatusTypeOK, ContactInv
<1> USE DEF secretVars, worldVars
<1>1. CASE Wait
  BY <1>0, <1>1, PassKeepsContact DEF Wait
<1>2. CASE Reconcile
  BY <1>0, <1>2, BegunKeeps, PassKeepsContact DEF Reconcile, Sound
<1>3. CASE ReconcileFails
  <2>1. PICK report \in Begun(stored) : copy' = [report EXCEPT !.created = "false"]
    BY <1>3 DEF ReconcileFails
  <2>2. copy'.ready = stored.ready /\ copy'.initialized = stored.initialized
    BY <1>0, <2>1, BegunKeeps, BegunType DEF Report
  <2> QED
    BY <1>0, <1>3, <2>2, PassKeepsContact DEF ReconcileFails, Sound
<1>4. CASE UpdateStatus
  <2>1. ~copy'.ready
    BY <1>0, <1>4 DEF UpdateStatus, CountMachines, Report
  <2>2. CASE EnsureKubeconfig /\ pc' = IF GetKubeconfig THEN "nodes" ELSE "conditions"
    BY <1>0, <1>4, <2>1, <2>2
    DEF UpdateStatus, EnsureKubeconfig, CanCreate, Missing, GetKubeconfig, SecretTypeOK, ContactInv, Sound
  <2>3. CASE pc' = "conditions" /\ UNCHANGED secretVars
    BY <1>0, <1>4, <2>1, <2>3, PassKeepsContact DEF UpdateStatus, Sound
  <2> QED
    BY <1>4, <2>2, <2>3 DEF UpdateStatus
<1>5. CASE KubeconfigFails
  <2>1. ~copy'.ready
    BY <1>0, <1>5 DEF KubeconfigFails, CountMachines, Report
  <2> QED
    BY <1>0, <1>5, <2>1, PassKeepsContact DEF KubeconfigFails, Sound
<1>6. CASE CountNodes
  <2>1. own = "shown"
    BY <1>6 DEF CountNodes, ContactInv
  <2>2. copy'.ready => copy'.initialized
    BY <1>0, <1>6 DEF CountNodes, Report
  <2> QED
    BY <1>0, <1>6, <2>1, <2>2, PassKeepsContact DEF CountNodes, Sound
<1>7. CASE NodesFail
  BY <1>0, <1>7, PassKeepsContact DEF NodesFail
<1>8. CASE PatchConditions
  BY <1>0, <1>8, WrittenParts, PassKeepsContact DEF PatchConditions, Sound
<1>9. CASE PatchConditionsFails
  BY <1>0, <1>9, PassKeepsContact DEF PatchConditionsFails
<1>10. CASE PatchStatus
  BY <1>0, <1>10, WrittenParts, PassKeepsContact DEF PatchStatus, Rest, Blank, Sound
<1>11. CASE Interrupt
  BY <1>0, <1>11, PassKeepsContact DEF Interrupt, Rest, Blank, Sound
<1>12. CASE Secrets
  BY <1>0, <1>12, SecretsKeepContact DEF Secrets
<1>13. ASSUME NEW m \in Machine, Observe(m) \/ MachineMoves(m) \/ TearDown(m) \/ NodeMoves(m)
       PROVE  ContactInv'
  BY <1>0, <1>13, SecretsKeepContact DEF Observe, MachineMoves, TearDown, NodeMoves
<1>14. CASE UNCHANGED vars
  BY <1>0, <1>14, SecretsKeepContact DEF vars
<1> QED
  BY <1>1, <1>2, <1>3, <1>4, <1>5, <1>6, <1>7, <1>8, <1>9, <1>10, <1>11, <1>12, <1>13,
     <1>14 DEF Next, Controller

\* updateStatus reports Ready only of a control plane that it has reached with the
\* Cluster's own kubeconfig, whatever Secrets of other Clusters have the same name,
\* and whichever of the two calls of a patch failed.
THEOREM ReadyIsEarned == Spec => []ReadyAfterContact
<1>1. Init => ContactInv
  <2>1. Init => own = "absent" /\ pc = "idle" /\ copy = Blank /\ stored = Blank
    BY Zenon DEF Init, SecretInit
  <2>2. ~Blank.ready
    BY DEF Blank
  <2> QED
    BY <2>1, <2>2 DEF ContactInv, Sound
<1>2. ContactInv => ReadyAfterContact
  BY DEF ContactInv, Sound, ReadyAfterContact
<1> QED
  BY <1>1, <1>2, InitTyped, StepTyped, StepContact, PTL DEF Spec
=============================================================================
