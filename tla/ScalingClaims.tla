--------------------------- MODULE ScalingClaims ---------------------------
(***************************************************************************)
(* What comments of the operator say about scaling, checked against        *)
(* StorageScaling.  A clock of its own measures how long a chunk has been  *)
(* without slots, whatever the timestamp in the CR says.                   *)
(***************************************************************************)
EXTENDS StorageScaling

VARIABLE calm   \* calm[k]: time since a chunk beyond the first k held slots

claimVars == <<vars, calm>>

Older(t) == IF t < scaleDownWaitTime THEN t + 1 ELSE t

\* Time that passes without the timestamp of the CR getting older.
TickSaturated ==
    /\ waited = scaleDownWaitTime
    /\ \E k \in ChunkNumbers : slotted <= k /\ calm[k] < scaleDownWaitTime
    /\ calm' = [k \in ChunkNumbers |-> IF slotted > k THEN 0 ELSE Older(calm[k])]
    /\ UNCHANGED vars

ClaimInit == Init /\ calm = [k \in ChunkNumbers |-> scaleDownWaitTime]

ClaimNext ==
    \/ /\ Next
       /\ calm' = [k \in ChunkNumbers |->
                     IF slotted' > k THEN 0
                     ELSE IF waited' = waited + 1 THEN Older(calm[k]) ELSE calm[k]]
    \/ TickSaturated

ClaimSpec == ClaimInit /\ [][ClaimNext]_claimVars

\* "ScaleDownWaitTimestamp is used to wait for some time before scaling down
\* storage StatefulSet Pods": pods are removed only when their chunks have
\* been without slots for scaleDownWaitTime.
WaitsBeforeScaleDown ==
    [][ss'.replicas < ss.replicas =>
         \A k \in ChunkNumbers : Replicas(k) = ss'.replicas => calm[k] = scaleDownWaitTime
      ]_claimVars

\* "Before scaling, we need to wait for those TERMINATING pods to be killed
\* completely": slots are never given to a chunk with a pod that terminates.
ScalesAfterTermination ==
    [][slotted' > slotted /\ slotted > 0 =>
         \A p \in FirstPods(slotted') : pods[p] # "terminating"]_claimVars
=============================================================================
