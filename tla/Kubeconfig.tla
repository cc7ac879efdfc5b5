----------------------------- MODULE Kubeconfig -----------------------------
(***************************************************************************)
(* kubeconfigForCluster: the kubeconfig Secret of one Cluster, looked up   *)
(* by its name alone, created from the CA Secret when it is missing, and   *)
(* read back through a cache that shows it later than it is created.  The  *)
(* certificate and the text of the kubeconfig are abstracted away: they    *)
(* come out of the CA Secret or the call fails.                            *)
(***************************************************************************)
EXTENDS Integers

VARIABLES
  endpoint,  \* does the Cluster have a control plane endpoint?
  ca,        \* does the cache show the Cluster's CA Secret?
  own,       \* its kubeconfig Secret: absent, created, shown by the cache
  namesake   \* does the cache show that of a Cluster of the same name in
             \* another namespace?

secretVars == <<endpoint, ca, own, namesake>>

SecretInit == endpoint = FALSE /\ ca = FALSE /\ own = "absent" /\ namesake \in BOOLEAN

SecretTypeOK ==
  /\ endpoint \in BOOLEAN /\ ca \in BOOLEAN /\ namesake \in BOOLEAN
  /\ own \in {"absent", "created", "shown"}

\* the list is of all namespaces, and only the name is compared
Found == own = "shown" \/ namesake

Missing == ~Found /\ endpoint

\* genarateKubeconfig fails without the CA, Create if the Secret exists
CanCreate == Missing /\ ca /\ own = "absent"

\* what remains of kubeconfigForCluster after a missing Secret was created
EnsureKubeconfig ==
  /\ Missing => CanCreate
  /\ own' = IF CanCreate THEN "created" ELSE own
  /\ UNCHANGED <<endpoint, ca, namesake>>

EnsureFails == Missing /\ ~CanCreate

\* a bug: the Secret that was found by its name is taken
GetByName == Found

\* Get asks for the Secret in the Cluster's own namespace
GetKubeconfig == own = "shown"

(* The informer, the infrastructure provider, the bootstrap provider, and   *)
(* the Clusters of other namespaces.                                        *)

ShowKubeconfig == own = "created" /\ own' = "shown" /\ UNCHANGED <<endpoint, ca, namesake>>
SetEndpoint    == ~endpoint /\ endpoint' = TRUE /\ UNCHANGED <<ca, own, namesake>>
StoreCA        == ~ca /\ ca' = TRUE /\ UNCHANGED <<endpoint, own, namesake>>
\* the namesake's Secret is looked at while there is none of the Cluster's own
NamesakeMoves == own = "absent" /\ namesake' = ~namesake /\ UNCHANGED <<endpoint, ca, own>>
=============================================================================
