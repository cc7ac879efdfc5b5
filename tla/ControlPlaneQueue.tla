-------------------------- MODULE ControlPlaneQueue --------------------------
(***************************************************************************)
(* What reconcileMachines promises of the Machines of one control plane: a *)
(* queue in the order of their creation.  New Machines are appended, and   *)
(* the controller only ever removes the head, and only if three serve      *)
(* without it.  Other clients take Machines from anywhere.                 *)
(***************************************************************************)
EXTENDS Integers, TLAPS

VARIABLES
  made,     \* Machines ever appended: 1, 2, ..., made
  joining,  \* those whose Node has not joined the cluster yet
  serving,  \* those that have joined
  leaving,  \* those being torn down
  taken     \* those that other clients removed

vars == <<made, joining, serving, leaving, taken>>

Init ==
  /\ made \in Nat /\ serving = 1 .. made
  /\ joining = {} /\ leaving = {} /\ taken = {}

Enqueue ==
  /\ made' = made + 1
  /\ joining' = joining \cup {made + 1}
  /\ UNCHANGED <<serving, leaving, taken>>

Join(m) ==
  /\ m \in joining
  /\ joining' = joining \ {m} /\ serving' = serving \cup {m}
  /\ UNCHANGED <<made, leaving, taken>>

ThreeOf(S) == \E a, b, c \in S : a # b /\ a # c /\ b # c

IsHead(m) == m \in serving /\ \A k \in joining \cup serving \cup leaving : m <= k

\* what others took away is not held against the controller
RemoveHead(m) ==
  /\ IsHead(m)
  /\ ThreeOf((serving \cup taken) \ {m})
  /\ serving' = serving \ {m} /\ leaving' = leaving \cup {m}
  /\ UNCHANGED <<made, joining, taken>>

Take(m) ==
  /\ m \in joining \cup serving
  /\ joining' = joining \ {m} /\ serving' = serving \ {m}
  /\ leaving' = leaving \cup {m} /\ taken' = taken \cup {m}
  /\ UNCHANGED made

Leave(m) ==
  /\ m \in leaving /\ leaving' = leaving \ {m}
  /\ UNCHANGED <<made, joining, serving, taken>>

Next == Enqueue \/ \E m \in 1 .. made : Join(m) \/ RemoveHead(m) \/ Take(m) \/ Leave(m)

Spec == Init /\ [][Next]_vars

-----------------------------------------------------------------------------
(* What a user of the queue may rely on.                                    *)

\* Once three Machines serve, and as long as nobody else has taken any, at least
\* three go on serving, whatever is enqueued or removed (reconcileMachines,
\* "Cannot scale down control plane nodes to less than 3 nodes").
KeepsServing == [][ThreeOf(serving) /\ taken' = {} => ThreeOf(serving')]_vars

\* The promise follows from removing only the head and only above three.
THEOREM QueueKeepsServing == Spec => KeepsServing
<1>1. [Next]_vars => [ThreeOf(serving) /\ taken' = {} => ThreeOf(serving')]_vars
  BY DEF Next, Enqueue, Join, RemoveHead, Take, Leave, ThreeOf
<1> QED
  BY <1>1, PTL DEF Spec, KeepsServing
=============================================================================
