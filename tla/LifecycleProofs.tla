--------------------------- MODULE LifecycleProofs ---------------------------
(***************************************************************************)
(* Theorems about module Lifecycle, for every number of Machines, every    *)
(* number of failures and every desired number of replicas.                *)
(***************************************************************************)
EXTENDS Lifecycle, TLAPS

\* The cache is never ahead of the API server, and goes on showing what it has shown.
CacheBehind == \A m \in Machine :
  /\ cache[m] = "gone" => machine[m] = "gone"
  /\ cache[m] # "none" => machine[m] # "none"
  /\ m \in listed => cache[m] # "none"

\* Once a pass is on its way to the release, nothing is left of what was ever listed.
ListedAreGone == pc = "release" \/ ~mcp.fin => listed \cap Existing(machine) = {}

-----------------------------------------------------------------------------
\* LifecycleTypeOK is inductive as it stands.
LEMMA InitTyped == Init => LifecycleTypeOK
BY LifecycleAssumption DEF Init, LifecycleTypeOK, Machine, Stage, Secret, Call

LEMMA BeginTyped ==
  ASSUME LifecycleTypeOK, NEW call \in Call \ {"delete"}, Begin(call), UNCHANGED todo,
         call # "finalize" => mcp.fin, List \/ UNCHANGED listed
  PROVE  LifecycleTypeOK'
BY DEF LifecycleTypeOK, Begin, Call, List, Existing

LEMMA StepTyped == LifecycleTypeOK /\ [Next]_vars => LifecycleTypeOK'
<1> SUFFICES ASSUME LifecycleTypeOK, [Next]_vars PROVE LifecycleTypeOK'
  OBVIOUS
<1> USE LifecycleAssumption
<1>1. CASE BeginFinalize
  BY <1>1, BeginTyped DEF BeginFinalize, Call
<1>2. CASE BeginReconcile
  BY <1>2, BeginTyped DEF BeginReconcile, Call
<1>3. CASE BeginDelete
  <2>1. CASE Existing(cache) = {}
    BY <1>3, <2>1, BeginTyped DEF BeginDelete, Call
  <2>2. CASE Existing(cache) # {}
    <3>1. Begin("delete") /\ mcp.fin /\ todo' \subseteq Machine /\ List
      BY <1>3, <2>2 DEF BeginDelete
    <3> QED BY <3>1 DEF LifecycleTypeOK, Begin, Call, List, Existing
  <2> QED BY <2>1, <2>2
<1>4. CASE PatchFinalizer
  BY <1>4 DEF PatchFinalizer, LifecycleTypeOK, Call
<1>5. CASE CreateMachine
  BY <1>5 DEF CreateMachine, LifecycleTypeOK, Call, Stage
<1>6. CASE CreateFails
  BY <1>6 DEF CreateFails, LifecycleTypeOK, Call
<1>7. CASE UpdateStatus
  BY <1>7 DEF UpdateStatus, LifecycleTypeOK, Call, Secret
<1>8. ASSUME NEW m \in Machine, DeleteMachine(m) PROVE LifecycleTypeOK'
  BY <1>8 DEF DeleteMachine, LifecycleTypeOK, Stage
<1>9. CASE AllDeleted
  BY <1>9 DEF AllDeleted, LifecycleTypeOK, Call
<1>10. CASE CleanSecrets \/ CleanSecretsPartly
  <2>1. CASE CleanSecrets
    BY <2>1 DEF CleanSecrets, LifecycleTypeOK, Call
  <2>2. CASE CleanSecretsPartly
    BY <2>2 DEF CleanSecretsPartly, LifecycleTypeOK, Call
  <2> QED BY <1>10, <2>1, <2>2
<1>11. CASE RemoveFinalizer
  BY <1>11 DEF RemoveFinalizer, LifecycleTypeOK, Call
<1>12. CASE Interrupt
  BY <1>12 DEF Interrupt, Rest, LifecycleTypeOK, Call
<1>13. CASE Prepare \/ Pause
  BY <1>13 DEF Prepare, Pause, LifecycleTypeOK
<1>14. CASE DeleteControlPlane
  BY <1>14 DEF DeleteControlPlane, LifecycleTypeOK
<1>15. CASE Bootstrap
  BY <1>15 DEF Bootstrap, LifecycleTypeOK, Secret
<1>16. ASSUME NEW m \in Machine, Observe(m) \/ Finish(m) \/ Take(m)
       PROVE  LifecycleTypeOK'
  BY <1>16 DEF Observe, Finish, Take, LifecycleTypeOK, Stage
<1>17. CASE Forget \/ Deliver
  BY <1>17 DEF Forget, Deliver, LifecycleTypeOK
<1>18. CASE UNCHANGED vars
  BY <1>18 DEF vars, LifecycleTypeOK
<1> QED
  BY <1>1, <1>2, <1>3, <1>4, <1>5, <1>6, <1>7, <1>8, <1>9, <1>10, <1>11, <1>12,
     <1>13, <1>14, <1>15, <1>16, <1>17, <1>18 DEF Next, Controller

\* Reconcile and reconcileDelete keep the types, and a pass past its prologue
\* works under the finalizer, whoever pauses or deletes the object meanwhile.
THEOREM LifecycleTyped == Spec => []LifecycleTypeOK
BY InitTyped, StepTyped, PTL DEF Spec

-----------------------------------------------------------------------------
\* Only CreateMachine adds to the Machines that exist.
LEMMA OnlyCreateAdds ==
  ASSUME LifecycleTypeOK, [Next]_vars, ~CreateMachine
  PROVE  Existing(machine') \subseteq Existing(machine)
<1> USE LifecycleAssumption
<1>1. CASE UNCHANGED machine
  BY <1>1
<1>2. ASSUME NEW m \in Machine, DeleteMachine(m)
      PROVE  Existing(machine') \subseteq Existing(machine)
  BY <1>2 DEF DeleteMachine, Existing, LifecycleTypeOK
<1>3. ASSUME NEW m \in Machine, Finish(m) \/ Take(m)
      PROVE  Existing(machine') \subseteq Existing(machine)
  BY <1>3 DEF Finish, Take, Existing, LifecycleTypeOK
<1>4. ~(\E m \in Machine : DeleteMachine(m) \/ Finish(m) \/ Take(m)) => UNCHANGED machine
  BY DEF Next, Controller, BeginFinalize, BeginReconcile, BeginDelete, Begin, PatchFinalizer,
         CreateFails, UpdateStatus, AllDeleted, CleanSecrets, CleanSecretsPartly,
         RemoveFinalizer, Interrupt, Prepare, Pause, DeleteControlPlane, Bootstrap, Observe,
         Forget, Deliver, vars
<1> QED BY <1>1, <1>2, <1>3, <1>4

LEMMA StepCreatesProtected ==
  LifecycleTypeOK /\ [Next]_vars
    => [Existing(machine') \subseteq Existing(machine) \/ mcp.fin]_vars
<1> SUFFICES ASSUME LifecycleTypeOK, [Next]_vars
             PROVE  Existing(machine') \subseteq Existing(machine) \/ mcp.fin
  OBVIOUS
<1>1. CASE CreateMachine
  BY <1>1 DEF CreateMachine, LifecycleTypeOK
<1>2. CASE ~CreateMachine
  BY <1>2, OnlyCreateAdds
<1> QED BY <1>1, <1>2

\* Reconcile adds its finalizer in a pass of its own before it creates anything:
\* no Machine is created for an object that the user's deletion could remove at
\* once, even if the list is stale and the deletion comes in the middle of a pass.
THEOREM CreatesUnderFinalizer == Spec => CreatesProtected
<1>1. LifecycleTypeOK /\ [Next]_vars
        => [Existing(machine') \subseteq Existing(machine) \/ mcp.fin]_vars
  BY StepCreatesProtected
<1> QED BY <1>1, LifecycleTyped, PTL DEF Spec, CreatesProtected

-----------------------------------------------------------------------------
LEMMA StepCacheBehind ==
  ASSUME LifecycleTypeOK, CacheBehind, [Next]_vars
  PROVE  CacheBehind'
<1> USE LifecycleAssumption
<1>1. CASE BeginReconcile \/ BeginDelete
  <2>1. UNCHANGED <<machine, cache>> /\ List
    BY <1>1 DEF BeginReconcile, BeginDelete, Begin
  <2> QED BY <2>1 DEF CacheBehind, List, Existing
<1>2. CASE CreateMachine
  BY <1>2 DEF CreateMachine, CacheBehind, LifecycleTypeOK
<1>3. ASSUME NEW m \in Machine, DeleteMachine(m) \/ Finish(m) \/ Take(m) PROVE CacheBehind'
  BY <1>3 DEF DeleteMachine, Finish, Take, CacheBehind, LifecycleTypeOK
<1>4. ASSUME NEW m \in Machine, Observe(m) PROVE CacheBehind'
  BY <1>4 DEF Observe, CacheBehind, LifecycleTypeOK
<1>5. CASE ~BeginReconcile /\ ~BeginDelete /\ ~CreateMachine
           /\ ~(\E m \in Machine : DeleteMachine(m) \/ Finish(m) \/ Take(m) \/ Observe(m))
  <2>1. UNCHANGED <<machine, cache, listed>>
    BY <1>5 DEF Next, Controller, BeginFinalize, Begin, PatchFinalizer, CreateFails,
       UpdateStatus, AllDeleted, CleanSecrets, CleanSecretsPartly, RemoveFinalizer, Interrupt,
       Prepare, Pause, DeleteControlPlane, Bootstrap, Forget, Deliver, vars
  <2> QED BY <2>1 DEF CacheBehind
<1> QED BY <1>1, <1>2, <1>3, <1>4, <1>5

LEMMA StepListedAreGone ==
  ASSUME LifecycleTypeOK, CacheBehind, ListedAreGone, [Next]_vars
  PROVE  ListedAreGone'
<1> SUFFICES ASSUME pc' = "release" \/ ~mcp'.fin PROVE listed' \cap Existing(machine') = {}
  BY DEF ListedAreGone
\* nothing but "gone" is shown of a Machine that was listed
<1>1. CASE BeginDelete
  <2>1. UNCHANGED <<mcp, machine>> /\ List /\ Existing(cache) = {}
    BY <1>1 DEF BeginDelete, Begin, LifecycleTypeOK
  <2>2. ASSUME NEW m \in listed PROVE machine[m] = "gone"
    BY <2>1, <2>2 DEF Existing, CacheBehind, LifecycleTypeOK, Stage
  <2> QED BY <2>1, <2>2 DEF List, Existing
<1>2. CASE RemoveFinalizer
  BY <1>2 DEF RemoveFinalizer, ListedAreGone
<1>3. CASE BeginReconcile
  BY <1>3 DEF BeginReconcile, Begin, LifecycleTypeOK
<1>4. CASE CreateMachine
  BY <1>4 DEF CreateMachine, LifecycleTypeOK
<1>5. CASE ~BeginDelete /\ ~RemoveFinalizer /\ ~BeginReconcile /\ ~CreateMachine
  <2>1. Existing(machine') \subseteq Existing(machine)
    BY <1>5, OnlyCreateAdds
  <2>2. /\ mcp.fin => mcp'.fin
        /\ pc' = "release" => pc = "release"
        /\ UNCHANGED listed
    BY <1>5 DEF LifecycleTypeOK, Next, Controller, BeginFinalize, Begin,
                PatchFinalizer, CreateFails, UpdateStatus, DeleteMachine, AllDeleted,
                CleanSecrets, CleanSecretsPartly, Interrupt, Prepare, Pause,
                DeleteControlPlane, Bootstrap, Observe, Finish, Take, Forget, Deliver, vars
  <2> QED BY <2>1, <2>2 DEF ListedAreGone
<1> QED BY <1>1, <1>2, <1>3, <1>4, <1>5

\* reconcileDelete removes the finalizer on an empty list from the cache.  However
\* stale that list is, and whoever else deletes Machines in the meantime, the object
\* outlives every Machine that any of its passes has listed.
THEOREM OutlivesWhatItListed == Spec => []OutlivesListed
<1>1. Init => CacheBehind /\ ListedAreGone
  BY DEF Init, CacheBehind, ListedAreGone
<1>2. LifecycleTypeOK /\ CacheBehind /\ ListedAreGone /\ [Next]_vars
        => CacheBehind' /\ ListedAreGone'
  BY StepCacheBehind, StepListedAreGone
<1>3. LifecycleTypeOK /\ ListedAreGone => OutlivesListed
  BY DEF LifecycleTypeOK, ListedAreGone, OutlivesListed
<1> QED BY <1>1, <1>2, <1>3, LifecycleTyped, PTL DEF Spec

-----------------------------------------------------------------------------
\* As long as nothing failed and nobody else deleted Machines, Secrets outside a
\* delete pass belong to a live Machine: such a pass takes both.
SecretsHeld ==
  faults = 0 /\ taken = {} /\ secrets # {} /\ pc \notin {"delete", "clean"}
    => \E m \in Machine : machine[m] = "live"

LEMMA StepSecretsHeld ==
  ASSUME LifecycleTypeOK, SecretsHeld, [Next]_vars
  PROVE  SecretsHeld'
<1> SUFFICES ASSUME faults' = 0, taken' = {}, secrets' # {}, pc' \notin {"delete", "clean"}
             PROVE  \E m \in Machine : machine'[m] = "live"
  BY DEF SecretsHeld
<1> USE LifecycleAssumption
<1>1. faults = 0 \/ CleanSecretsPartly \/ Interrupt \/ CreateFails \/ RemoveFinalizer
  BY DEF Next, Controller, BeginFinalize, BeginReconcile, BeginDelete, Begin, PatchFinalizer,
         CreateMachine, UpdateStatus, DeleteMachine, AllDeleted, CleanSecrets,
         Prepare, Pause, DeleteControlPlane, Bootstrap, Observe, Finish, Take, Forget, Deliver, vars
<1>2. faults = 0
  BY <1>1 DEF CleanSecretsPartly, Interrupt, CreateFails, RemoveFinalizer, LifecycleTypeOK
<1>3. ~CleanSecretsPartly /\ ~Interrupt /\ ~(\E m \in Machine : Take(m))
  BY <1>2 DEF CleanSecretsPartly, Interrupt, Take
<1>4. CASE Bootstrap
  BY <1>4 DEF Bootstrap
<1>5. CASE CleanSecrets \/ AllDeleted \/ \E m \in Machine : DeleteMachine(m)
  BY <1>5 DEF CleanSecrets, AllDeleted, DeleteMachine
<1>6. CASE CreateMachine
  BY <1>6 DEF CreateMachine, LifecycleTypeOK
<1>7. CASE \E m \in Machine : Finish(m)
  <2>1. PICK n \in Machine : Finish(n)
    BY <1>7
  <2>2. SecretsHeld /\ UNCHANGED <<taken, secrets, pc>>
    BY <2>1 DEF Finish
  <2>3. PICK m \in Machine : machine[m] = "live"
    BY <1>2, <2>2 DEF SecretsHeld
  <2> QED BY <2>1, <2>3 DEF Finish, LifecycleTypeOK
<1>8. CASE /\ ~Bootstrap /\ ~CleanSecrets /\ ~AllDeleted /\ ~CreateMachine
           /\ ~(\E m \in Machine : DeleteMachine(m) \/ Finish(m))
  <2>1. UNCHANGED <<machine, taken>> /\ secrets # {} /\ pc \notin {"delete", "clean"}
    BY <1>3, <1>8 DEF Next, Controller, BeginFinalize, BeginReconcile, BeginDelete, Begin,
         PatchFinalizer, CreateFails, UpdateStatus, RemoveFinalizer, Prepare, Pause,
         DeleteControlPlane, Observe, Forget, Deliver, vars
  <2> QED BY <1>2, <2>1 DEF SecretsHeld
<1> QED BY <1>4, <1>5, <1>6, <1>7, <1>8

\* reconcileDelete leaves no Secret of the workload cluster behind an object that is
\* gone with all of its Machines, if no call failed and nobody else deleted Machines,
\* even when the deferred updateStatus wrote the kubeconfig for an object being deleted.
THEOREM LeavesNoSecret == Spec => []NoSecretLeftUndisturbed
<1>1. Init => SecretsHeld
  BY DEF Init, SecretsHeld
<1>2. LifecycleTypeOK /\ SecretsHeld /\ [Next]_vars => SecretsHeld'
  BY StepSecretsHeld
<1>3. LifecycleTypeOK /\ SecretsHeld => NoSecretLeftUndisturbed
  BY DEF LifecycleTypeOK, SecretsHeld, NoSecretLeftUndisturbed, Existing
<1> QED BY <1>1, <1>2, <1>3, LifecycleTyped, PTL DEF Spec

-----------------------------------------------------------------------------
\* However a pass of Reconcile ends, whatever fails and whenever events arrive,
\* something is left that starts the next one, on stale lists as well.
THEOREM WakesUp == Spec => []NoWakeUpLost
<1>1. Init => NoWakeUpLost
  BY DEF Init, NoWakeUpLost
<1>2. LifecycleTypeOK /\ NoWakeUpLost /\ [Next]_vars => NoWakeUpLost'
  <2> SUFFICES ASSUME LifecycleTypeOK, NoWakeUpLost, [Next]_vars, mcp'.st # "gone"
               PROVE  pc' # "idle" \/ queue' # {}
    BY DEF NoWakeUpLost
  <2>1. CASE BeginFinalize \/ BeginReconcile \/ BeginDelete
    BY <2>1 DEF BeginFinalize, BeginReconcile, BeginDelete, Begin
  <2>2. CASE Forget \/ RemoveFinalizer
    BY <2>2 DEF Forget, RemoveFinalizer
  \* the patch of the finalizer has an event of its own
  <2>3. CASE PatchFinalizer
    BY <2>3 DEF PatchFinalizer, LifecycleTypeOK
  <2>4. CASE UpdateStatus \/ CleanSecrets \/ CleanSecretsPartly \/ Interrupt \/ Deliver
             \/ Prepare \/ Pause \/ DeleteControlPlane \/ \E m \in Machine : Observe(m)
    BY <2>4 DEF UpdateStatus, CleanSecrets, CleanSecretsPartly, Interrupt, Deliver, Prepare,
       Pause, DeleteControlPlane, Observe
  <2>5. CASE CreateMachine \/ CreateFails \/ AllDeleted \/ \E m \in Machine : DeleteMachine(m)
    BY <2>5 DEF CreateMachine, CreateFails, AllDeleted, DeleteMachine
  <2>6. CASE Bootstrap \/ (\E m \in Machine : Finish(m) \/ Take(m)) \/ UNCHANGED vars
    BY <2>6 DEF Bootstrap, Finish, Take, vars, NoWakeUpLost
  <2> QED
    BY <2>1, <2>2, <2>3, <2>4, <2>5, <2>6 DEF Next, Controller
<1> QED
  BY <1>1, <1>2, LifecycleTyped, PTL DEF Spec
=============================================================================
