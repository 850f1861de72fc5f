------------------------ MODULE StorageScalingProofs ------------------------
(***************************************************************************)
(* Proofs about StorageScaling for any number of chunks, pods per chunk,   *)
(* edits and faults.  ShrinkOnlyDrained needs to know that the operator's  *)
(* copy of the cluster info, though read earlier, never understates the    *)
(* chunks that hold slots when the StatefulSet is shrunk: in between, only *)
(* the migration moves slots, and it only lowers their number.             *)
(* RestsOnlyWhenDone needs to know, at every step of a reconcile, that     *)
(* what the steps before it have done is still done, or that something     *)
(* will wake the operator again: a request in the queue, or a change of    *)
(* the CR or of the StatefulSet that its cache has not seen (Resting).     *)
(***************************************************************************)
EXTENDS StorageScaling, FiniteSetTheorems, TLAPS

\* A migration never spreads slots further than they are when it runs.
MigrationLowers ==
    /\ target <= slotted
    /\ nodes = 0 => slotted = 0 /\ target = 0

\* The info of the second reconcileMeta is an upper bound when it is used.
InfoBoundsSlots == pc = "ScaleDown" => slotted <= local.infoSlotted

\* A copy of the StatefulSet with the current resourceVersion is the current one.
CacheIsCurrent == ssCacheFresh => ssCache = ss
CopyIsCurrent == local.stoFresh => local.sto = ss

\* A rolling update starts only from a copy that has the replicas asked for.
CopyHasReplicas == pc \in {"SetStable", "Finish"} => local.sto.replicas = ReplicaNum

IInv ==
    /\ TypeOK
    /\ MigrationLowers
    /\ InfoBoundsSlots
    /\ CacheIsCurrent
    /\ CopyIsCurrent
    /\ CopyHasReplicas

-----------------------------------------------------------------------------
\* The replica numbers the operator writes.
LEMMA ReplicaNumType == TypeOK => ReplicaNum \in {Replicas(k) : k \in ChunkNumbers}
  BY DEF TypeOK, Locals, ReplicaNum

\* More chunks have at least as many pods.
LEMMA ReplicasMonotone ==
    ASSUME NEW i \in Nat, NEW j \in Nat, i <= j
    PROVE  Replicas(i) <= Replicas(j)
  <1>1. PICK d \in Nat : j = i + d
    <2>1. j - i \in Nat /\ j = i + (j - i)
      OBVIOUS
    <2> QED
      BY <2>1
  <1>2. (i + d) * chunkShardNumber = i * chunkShardNumber + d * chunkShardNumber
    BY ScalingAssumption
  <1>3. d * chunkShardNumber \in Nat /\ i * chunkShardNumber \in Nat
    BY ScalingAssumption
  <1> QED
    BY <1>1, <1>2, <1>3 DEF Replicas

\* The counts of pods in the status of the StatefulSet are numbers.
LEMMA PodCounts == \A phases : Cardinality(PodsIn(phases)) \in Nat
  <1> TAKE phases
  <1>1. Replicas(MaxChunk) - 1 \in Int
    BY ScalingAssumption DEF Replicas
  <1>2. IsFiniteSet(Pods)
    BY <1>1, FS_Interval DEF Pods
  <1>3. PodsIn(phases) \subseteq Pods
    BY DEF PodsIn
  <1> QED
    BY <1>2, <1>3, FS_Subset, FS_CardinalityType

\* Initially nothing exists but the CR.
LEMMA InitIInv == Init => IInv
  <1>1. Init => TypeOK
    BY ScalingAssumption DEF Init, TypeOK, StatefulSets, NoStatefulSet, Locals, NoLocals,
       Phases, Steps, ChunkNumbers
  <1> QED
    BY <1>1 DEF Init, IInv, MigrationLowers, InfoBoundsSlots, CacheIsCurrent, CopyIsCurrent,
       CopyHasReplicas, NoLocals

\* The registry stays a set of proxies.
LEMMA RegistryType ==
    ASSUME TypeOK, ReconcileServerProxyRegistry
    PROVE  registered' \in SUBSET Pods /\ faults' \in 0..MaxFaults
  BY ScalingAssumption DEF ReconcileServerProxyRegistry, RegisterServerProxy,
     DeregisterServerProxy, Fault, NoFault, TypeOK, Locals

\* Every step keeps the types.
LEMMA NextTypeOK == TypeOK /\ [Next]_vars => TypeOK'
  <1> SUFFICES ASSUME TypeOK, [Next]_vars PROVE TypeOK'
    OBVIOUS
  <1>0. NoLocals \in Locals /\ "Idle" \in Steps /\ NoStatefulSet \in StatefulSets
    BY ScalingAssumption DEF StatefulSets, NoStatefulSet, Locals, NoLocals, Steps, ChunkNumbers
  <1> USE DEF vars, apiVars, cacheVars, k8sVars, brokerVars, opVars, At, NoFault
  <1>1. CASE ReconcileStart
    BY <1>0, <1>1 DEF ReconcileStart, TypeOK, Locals, Steps
  <1>2. CASE CreateStatefulSet
    <2>1. ss' \in StatefulSets
      BY <1>2, ReplicaNumType DEF CreateStatefulSet, WriteStatefulSet, TypeOK, StatefulSets,
         NoStatefulSet
    <2>2. local' \in Locals
      BY <1>0, <1>2, <2>1 DEF CreateStatefulSet, Retry, TypeOK, Locals
    <2> QED
      BY <1>0, <1>2, <2>1, <2>2 DEF CreateStatefulSet, WriteStatefulSet, Retry, TypeOK, Steps
  <1>3. CASE ScaleOut
    <2>1. ss' \in StatefulSets
      BY <1>3, ReplicaNumType DEF ScaleOut, WriteStatefulSet, TypeOK, StatefulSets
    <2>2. local' \in Locals
      BY <1>0, <1>3, <2>1 DEF ScaleOut, Retry, TypeOK, Locals
    <2> QED
      BY <1>0, <1>3, <2>1, <2>2 DEF ScaleOut, WriteStatefulSet, Retry, TypeOK, Steps
  <1>4. CASE ReconcileMaster
    BY <1>4 DEF ReconcileMaster, TypeOK, Locals, Steps
  <1>5. CASE GetServerProxies
    BY <1>5 DEF GetServerProxies, TypeOK, Locals, Steps
  <1>6. CASE StorageAllReady
    <2>1. AllReady \in BOOLEAN
      BY DEF AllReady
    <2>2. local' \in Locals
      BY <1>6, <2>1 DEF StorageAllReady, TypeOK, Locals
    <2> QED
      BY <1>6, <2>2 DEF StorageAllReady, TypeOK, Steps
  <1>7. CASE RegisterProxies
    <2>1. registered' \in SUBSET Pods /\ faults' \in 0..MaxFaults
      BY <1>7, RegistryType DEF RegisterProxies
    <2>2. local' \in Locals
      BY <1>0, <1>7 DEF RegisterProxies, Retry, TypeOK, Locals
    <2> QED
      BY <1>0, <1>7, <2>1, <2>2 DEF RegisterProxies, Retry, TypeOK, Steps
  <1>8. CASE DeregisterProxies
    <2>1. registered' \in SUBSET Pods /\ faults' \in 0..MaxFaults
      BY <1>8, RegistryType DEF DeregisterProxies
    <2>2. local' \in Locals /\ pc' \in Steps /\ queued' \in BOOLEAN
      BY <1>0, <1>8 DEF DeregisterProxies, Goto, Retry, TypeOK, Steps
    <2> QED
      BY <1>8, <2>1, <2>2 DEF DeregisterProxies, TypeOK
  <1>9. ASSUME NEW step, NEW next \in Steps, CreateCluster(step, next) PROVE TypeOK'
    <2>1. local' \in Locals /\ pc' \in Steps /\ queued' \in BOOLEAN
      BY <1>0, <1>9 DEF CreateCluster, ChangeClusterConfig, Goto, Retry, TypeOK
    <2>2. local.cr \in 0..MaxChunk
      BY ScalingAssumption DEF TypeOK, Locals, ChunkNumbers
    <2>3. nodes' \in 0..MaxChunk /\ slotted' \in 0..MaxChunk
      BY <1>9, <2>2 DEF CreateCluster, PostCluster, TypeOK
    <2> QED
      BY <1>9, <2>1, <2>3 DEF CreateCluster, TypeOK
  <1>10. ASSUME NEW step, NEW next \in Steps, GetClusterInfo(step, next) PROVE TypeOK'
    <2>1. (target # 0) \in BOOLEAN
      OBVIOUS
    <2>2. local' \in Locals
      BY <1>10, <2>1 DEF GetClusterInfo, TypeOK, Locals
    <2> QED
      BY <1>10, <2>2 DEF GetClusterInfo, TypeOK
  <1>11. CASE WaitStable
    BY <1>0, <1>11 DEF WaitStable, Goto, Retry, TypeOK, Steps
  <1>12. CASE ScaleNodes
    <2>1. local' \in Locals /\ pc' \in Steps /\ queued' \in BOOLEAN
      BY <1>0, <1>12 DEF ScaleNodes, ScaleUp, ScaleIn, FreeNodeFound, Goto, Retry,
         TypeOK, Locals, Steps
    <2>2. local.cr \in 0..MaxChunk
      BY ScalingAssumption DEF TypeOK, Locals, ChunkNumbers
    <2>3. nodes' \in 0..MaxChunk /\ slotted' \in 0..MaxChunk /\ target' \in 0..MaxChunk
      BY <1>12, <2>2 DEF ScaleNodes, ScaleUp, PostCluster, ScaleIn, FreeNodeFound, TypeOK
    <2> QED
      BY <1>12, <2>1, <2>3 DEF ScaleNodes, TypeOK
  <1>13. CASE RemoveFreeNodes
    BY <1>0, <1>13 DEF RemoveFreeNodes, DeleteFreeNodes, Goto, Retry, TypeOK, Steps
  <1>14. CASE ScaleDownSkip
    BY <1>0, <1>14 DEF ScaleDownSkip, Goto, Retry, TypeOK, Steps
  <1>15. CASE ScaleDownWait
    <2>1. waited' \in 0..scaleDownWaitTime
      BY <1>15, ScalingAssumption DEF ScaleDownWait, SetScaleState, TypeOK
    <2>2. crCacheFresh' \in BOOLEAN
      BY <1>15 DEF ScaleDownWait, SetScaleState, TypeOK
    <2> QED
      BY <1>0, <1>15, <2>1, <2>2 DEF ScaleDownWait, SetScaleState, Retry, TypeOK
  <1>16. CASE ScaleDown
    <2>1. local.sto \in StatefulSets
      BY DEF TypeOK, Locals
    <2>2. ss' \in StatefulSets
      BY <1>16, <2>1, ReplicaNumType DEF ScaleDown, WriteStatefulSet, TypeOK, StatefulSets
    <2>3. local' \in Locals
      BY <1>0, <1>16, <2>2 DEF ScaleDown, Retry, TypeOK, Locals
    <2> QED
      BY <1>0, <1>16, <2>2, <2>3 DEF ScaleDown, WriteStatefulSet, Retry, TypeOK, Steps
  <1>17. CASE SetStable
    <2>1. local' \in Locals /\ pc' \in Steps /\ queued' \in BOOLEAN
      BY <1>0, <1>17 DEF SetStable, Goto, Retry, TypeOK, Steps
    <2>2. waited' \in 0..scaleDownWaitTime
      BY <1>17, ScalingAssumption DEF SetStable, SetScaleState, TypeOK
    <2> QED
      BY <1>17, <2>1, <2>2 DEF SetStable, SetScaleState, TypeOK
  <1>18. CASE Finish
    BY <1>0, <1>18 DEF Finish, Retry, TypeOK
  <1>31. CASE RollStorage
    <2>1. local.sto \in StatefulSets
      BY DEF TypeOK, Locals
    <2>2. ss' \in StatefulSets
      BY <1>31, <2>1, ReplicaNumType DEF RollStorage, WriteStatefulSet, TypeOK, StatefulSets
    <2>3. local' \in Locals
      BY <1>0, <1>31 DEF RollStorage, Retry
    <2>4. edits' \in 0..MaxEdits
      BY <1>31, ScalingAssumption DEF RollStorage, TypeOK
    <2> QED
      BY <1>31, <2>2, <2>3, <2>4 DEF RollStorage, WriteStatefulSet, Retry, TypeOK, Steps
  <1>19. CASE Abort
    BY <1>0, <1>19, ScalingAssumption DEF Abort, Fault, Retry, TypeOK
  <1>20. ASSUME NEW k \in ChunkNumbers, UserScale(k) PROVE TypeOK'
    <2>1. local' \in Locals
      BY <1>20 DEF UserScale, TypeOK, Locals
    <2>2. edits' \in 0..MaxEdits
      BY <1>20, ScalingAssumption DEF UserScale, TypeOK
    <2> QED
      BY <1>20, <2>1, <2>2 DEF UserScale, TypeOK
  <1>21. CASE SyncCR \/ SyncStatefulSet
    BY <1>21 DEF SyncCR, SyncStatefulSet, TypeOK
  <1>22. CASE Resync
    BY <1>22, ScalingAssumption DEF Resync, Fault, TypeOK
  <1>23. CASE Tick
    BY <1>23, ScalingAssumption DEF Tick, TypeOK
  <1>24. ASSUME NEW p \in Pods, NEW from, NEW to \in Phases, PodStep(p, from, to),
               faults' \in 0..MaxFaults
         PROVE  TypeOK'
    BY <1>24 DEF PodStep, TypeOK
  <1>25. ASSUME NEW p \in Pods, PodController(p) \/ PodKilled(p) PROVE TypeOK'
    <2>1. faults' \in 0..MaxFaults
      BY <1>25, ScalingAssumption DEF PodController, CreatePod, PodStarts, DeletePod, PodGone,
         PodKilled, Fault, TypeOK
    <2> QED
      BY <1>24, <1>25, <2>1 DEF PodController, CreatePod, PodStarts, DeletePod, PodGone,
         PodKilled, Phases
  <1>26. CASE UpdateStatus
    BY <1>26, PodCounts DEF UpdateStatus, WriteStatefulSet, TypeOK, StatefulSets, Locals
  <1>27. CASE SyncEndpoints
    BY <1>27 DEF SyncEndpoints, PodsIn, TypeOK
  <1>28. CASE MigrationDone
    BY <1>28, ScalingAssumption DEF MigrationDone, TypeOK
  <1>29. CASE UNCHANGED vars
    BY <1>29 DEF TypeOK
  <1>30. {"Info1", "Stable", "Info2", "ScaleDown"} \subseteq Steps
    BY DEF Steps
  <1> QED
    BY <1>1, <1>2, <1>3, <1>4, <1>5, <1>6, <1>7, <1>8, <1>9, <1>10, <1>11, <1>12, <1>13,
       <1>14, <1>15, <1>16, <1>17, <1>18, <1>19, <1>20, <1>21, <1>22, <1>23, <1>25, <1>26,
       <1>27, <1>28, <1>29, <1>30, <1>31
       DEF Next, Reconcile, Faults

-----------------------------------------------------------------------------
(* Which steps write what *)

\* Steps that change the chunks of the cluster, its slots or its migration.
LEMMA NextMovesSlots ==
    ASSUME [Next]_vars
    PROVE  \/ \E step, next \in Steps : CreateCluster(step, next)
           \/ ScaleNodes \/ RemoveFreeNodes \/ MigrationDone
           \/ UNCHANGED <<nodes, slotted, target>>
  <1> USE DEF vars, apiVars, cacheVars, k8sVars, brokerVars, opVars
  <1>1. CASE CreateCluster("Cluster1", "Info1") \/ CreateCluster("Cluster2", "Info2")
    BY <1>1 DEF Steps
  <1>2. CASE \/ ReconcileStart \/ CreateStatefulSet \/ ScaleOut \/ ReconcileMaster
             \/ GetServerProxies \/ StorageAllReady \/ RegisterProxies
             \/ GetClusterInfo("Info1", "Stable") \/ WaitStable \/ DeregisterProxies
             \/ GetClusterInfo("Info2", "ScaleDown")
             \/ ScaleDownSkip \/ ScaleDownWait \/ ScaleDown \/ SetStable \/ Finish
    BY <1>2 DEF ReconcileStart, CreateStatefulSet, ScaleOut, ReconcileMaster,
       GetServerProxies, StorageAllReady, RegisterProxies, GetClusterInfo, WaitStable,
       DeregisterProxies, ScaleDownSkip, ScaleDownWait, ScaleDown, SetStable, Finish
  <1>3. CASE \/ Faults \/ SyncCR \/ SyncStatefulSet \/ Tick \/ UpdateStatus \/ SyncEndpoints
             \/ \E p \in Pods : PodController(p)
    BY <1>3 DEF Faults, RollStorage, Abort, Resync, UserScale, PodKilled, SyncCR,
       SyncStatefulSet, Tick,
       UpdateStatus, SyncEndpoints, PodController, CreatePod, PodStarts, DeletePod, PodGone,
       PodStep
  <1> QED
    BY <1>1, <1>2, <1>3 DEF Next, Reconcile

\* Steps that leave the reconcile about to scale down.
LEMMA NextKeepsInfo ==
    ASSUME IInv, [Next]_vars, pc' = "ScaleDown"
    PROVE  \/ GetClusterInfo("Info2", "ScaleDown")
           \/ pc = "ScaleDown" /\ slotted' <= slotted /\ local'.infoSlotted = local.infoSlotted
  <1>0. slotted \in Nat /\ target \in Nat /\ target <= slotted /\ local \in Locals
    BY DEF IInv, TypeOK, MigrationLowers
  <1> USE DEF vars, apiVars, cacheVars, k8sVars, brokerVars, opVars
  <1>1. ~(\/ ReconcileStart \/ CreateStatefulSet \/ ScaleOut \/ ReconcileMaster
          \/ GetServerProxies \/ StorageAllReady \/ RegisterProxies
          \/ CreateCluster("Cluster1", "Info1") \/ GetClusterInfo("Info1", "Stable")
          \/ WaitStable \/ ScaleNodes \/ RemoveFreeNodes \/ DeregisterProxies
          \/ CreateCluster("Cluster2", "Info2")
          \/ ScaleDownSkip \/ ScaleDownWait \/ ScaleDown \/ SetStable \/ Finish \/ Abort
          \/ RollStorage)
    BY DEF ReconcileStart, CreateStatefulSet, ScaleOut, ReconcileMaster, GetServerProxies,
       StorageAllReady, RegisterProxies, CreateCluster, ChangeClusterConfig, GetClusterInfo,
       WaitStable, ScaleNodes,
       ScaleUp, ScaleIn, FreeNodeFound, RemoveFreeNodes, DeregisterProxies, ScaleDownSkip,
       ScaleDownWait, ScaleDown, SetStable, Finish, Abort, RollStorage, Retry, Goto
  <1>2. CASE MigrationDone
    BY <1>0, <1>2 DEF MigrationDone
  <1>3. CASE UpdateStatus \/ \E k \in ChunkNumbers : UserScale(k)
    BY <1>0, <1>3 DEF UpdateStatus, UserScale, Locals
  <1>4. CASE \/ Resync \/ SyncCR \/ SyncStatefulSet \/ Tick \/ SyncEndpoints
             \/ \E p \in Pods : PodKilled(p) \/ PodController(p)
             \/ UNCHANGED vars
    BY <1>0, <1>4 DEF Resync, SyncCR, SyncStatefulSet, Tick, SyncEndpoints, PodKilled,
       PodController, CreatePod, PodStarts, DeletePod, PodGone, PodStep
  <1> QED
    BY <1>1, <1>2, <1>3, <1>4 DEF Next, Reconcile, Faults

\* Steps that write the StatefulSet or its cached copy.
LEMMA NextWritesStatefulSet ==
    ASSUME [Next]_vars
    PROVE  \/ CreateStatefulSet \/ ScaleOut \/ ScaleDown \/ RollStorage \/ UpdateStatus
           \/ SyncStatefulSet
           \/ UNCHANGED <<ss, ssCache, ssCacheFresh>>
  <1> USE DEF vars, apiVars, cacheVars, k8sVars, brokerVars, opVars
  <1>2. CASE \/ ReconcileStart \/ ReconcileMaster \/ GetServerProxies \/ StorageAllReady
             \/ RegisterProxies \/ CreateCluster("Cluster1", "Info1")
             \/ GetClusterInfo("Info1", "Stable") \/ WaitStable \/ ScaleNodes
             \/ RemoveFreeNodes \/ DeregisterProxies \/ CreateCluster("Cluster2", "Info2")
             \/ GetClusterInfo("Info2", "ScaleDown")
             \/ ScaleDownSkip \/ ScaleDownWait \/ SetStable \/ Finish
    BY <1>2 DEF ReconcileStart, ReconcileMaster, GetServerProxies, StorageAllReady,
       RegisterProxies, CreateCluster, GetClusterInfo, WaitStable, ScaleNodes, RemoveFreeNodes,
       DeregisterProxies, ScaleDownSkip, ScaleDownWait, SetStable, Finish
  <1>3. CASE \/ Abort \/ Resync \/ (\E k \in ChunkNumbers : UserScale(k))
             \/ (\E p \in Pods : PodKilled(p)) \/ SyncCR \/ Tick \/ SyncEndpoints \/ MigrationDone
             \/ \E p \in Pods : PodController(p)
    BY <1>3 DEF Abort, Resync, UserScale, PodKilled, SyncCR, Tick, SyncEndpoints,
       MigrationDone, PodController, CreatePod, PodStarts, DeletePod, PodGone, PodStep
  <1> QED
    BY <1>2, <1>3 DEF Next, Reconcile, Faults

\* Only scaleDownStorageStatefulSet lowers spec.replicas.
LEMMA OnlyScaleDownShrinks ==
    ASSUME IInv, Next, ss'.replicas < ss.replicas
    PROVE  ScaleDown /\ local.stoFresh /\ ss'.replicas = ReplicaNum
  <1>0. /\ ss \in StatefulSets /\ ssCache \in StatefulSets /\ local.sto \in StatefulSets
        /\ ss.replicas \in Nat
        /\ ReplicaNum \in Nat
    <2>1. \A k \in ChunkNumbers : Replicas(k) \in Nat
      BY ScalingAssumption DEF ChunkNumbers, Replicas
    <2> QED
      BY <2>1, ReplicaNumType DEF IInv, TypeOK, StatefulSets, Locals
  <1>1. ss' # ss
    BY <1>0
  <1>2. ~CreateStatefulSet
    BY <1>0, <1>1 DEF CreateStatefulSet, WriteStatefulSet, NoStatefulSet
  <1>3. ~ScaleOut
    BY <1>0, <1>1 DEF ScaleOut, MustScaleOut, WriteStatefulSet, IInv, CacheIsCurrent,
       StatefulSets
  <1>4. ~UpdateStatus
    <2>1. \A m, n : [ss EXCEPT !.statusReplicas = m, !.currentReplicas = n].replicas
                      = ss.replicas
      BY <1>0 DEF StatefulSets
    <2>2. ASSUME UpdateStatus PROVE ss'.replicas = ss.replicas
      BY <2>1, <2>2, Zenon DEF UpdateStatus, WriteStatefulSet
    <2> QED
      BY <1>0, <2>2
  <1>6. ~RollStorage
    BY <1>0, <1>1 DEF RollStorage, WriteStatefulSet, IInv, CopyIsCurrent, CopyHasReplicas,
       StatefulSets
  <1>5. ScaleDown
    <2>1. ~SyncStatefulSet /\ ~UNCHANGED <<ss, ssCache, ssCacheFresh>>
      BY <1>1 DEF SyncStatefulSet, apiVars
    <2> QED
      BY <1>2, <1>3, <1>4, <1>6, <2>1, NextWritesStatefulSet
  <1> QED
    BY <1>0, <1>1, <1>5 DEF ScaleDown, WriteStatefulSet, StatefulSets

-----------------------------------------------------------------------------
(* The inductive invariant *)

\* Slots only spread in createCluster and scaleNodes.
LEMMA NextMigration == IInv /\ [Next]_vars => MigrationLowers'
  <1> SUFFICES ASSUME IInv, [Next]_vars PROVE MigrationLowers'
    OBVIOUS
  <1>0. /\ nodes \in Nat /\ slotted \in Nat /\ target \in Nat
        /\ local.cr \in Nat /\ local.cr # 0
    BY ScalingAssumption DEF IInv, TypeOK, Locals, ChunkNumbers
  <1> USE DEF MigrationLowers
  <1>1. ASSUME NEW step, NEW next, CreateCluster(step, next) PROVE MigrationLowers'
    BY <1>0, <1>1 DEF IInv, CreateCluster, ClusterExists, PostCluster
  <1>2. CASE ScaleNodes
    BY <1>0, <1>2 DEF IInv, ScaleNodes, ScaleUp, PostCluster, ScaleIn, FreeNodeFound
  <1>3. CASE RemoveFreeNodes
    BY <1>0, <1>3 DEF IInv, RemoveFreeNodes, DeleteFreeNodes
  <1>4. CASE MigrationDone
    BY <1>0, <1>4 DEF IInv, MigrationDone
  <1>5. CASE UNCHANGED <<nodes, slotted, target>>
    BY <1>5 DEF IInv
  <1>6. \/ \E step, next \in Steps : CreateCluster(step, next)
        \/ ScaleNodes \/ RemoveFreeNodes \/ MigrationDone
        \/ UNCHANGED <<nodes, slotted, target>>
    BY NextMovesSlots
  <1> QED
    BY <1>1, <1>2, <1>3, <1>4, <1>5, <1>6

\* The info read last bounds the chunks with slots until the StatefulSet is
\* updated.
LEMMA NextInfo == IInv /\ [Next]_vars => InfoBoundsSlots'
  <1> SUFFICES ASSUME IInv, [Next]_vars, pc' = "ScaleDown" PROVE slotted' <= local'.infoSlotted
    BY DEF InfoBoundsSlots
  <1>0. /\ slotted \in Nat /\ target \in Nat /\ local \in Locals
        /\ slotted' \in Nat
    BY NextTypeOK DEF IInv, TypeOK
  <1>1. CASE GetClusterInfo("Info2", "ScaleDown")
    BY <1>0, <1>1 DEF GetClusterInfo, Locals, brokerVars
  <1>2. CASE pc = "ScaleDown" /\ slotted' <= slotted /\ local'.infoSlotted = local.infoSlotted
    BY <1>0, <1>2 DEF IInv, InfoBoundsSlots, Locals
  <1> QED
    BY <1>1, <1>2, NextKeepsInfo

\* A cached StatefulSet with the current resourceVersion stays the current one.
LEMMA NextCache == IInv /\ [Next]_vars => CacheIsCurrent'
  <1> SUFFICES ASSUME IInv, [Next]_vars PROVE CacheIsCurrent'
    OBVIOUS
  <1>1. CASE CreateStatefulSet \/ ScaleOut \/ ScaleDown \/ RollStorage \/ UpdateStatus
    BY <1>1 DEF CreateStatefulSet, ScaleOut, ScaleDown, RollStorage, UpdateStatus,
       WriteStatefulSet,
       IInv, CacheIsCurrent
  <1>2. CASE SyncStatefulSet
    BY <1>2 DEF SyncStatefulSet, apiVars, CacheIsCurrent
  <1>3. CASE UNCHANGED <<ss, ssCache, ssCacheFresh>>
    BY <1>3 DEF IInv, CacheIsCurrent
  <1> QED
    BY <1>1, <1>2, <1>3, NextWritesStatefulSet

\* The same for the operator's own copy: whoever else writes the StatefulSet
\* makes it stale.
LEMMA NextCopy == IInv /\ [Next]_vars => CopyIsCurrent'
  <1> SUFFICES ASSUME IInv, [Next]_vars PROVE CopyIsCurrent'
    OBVIOUS
  <1>0. local \in Locals
    BY DEF IInv, TypeOK
  <1> USE DEF vars, apiVars, cacheVars, k8sVars, brokerVars, opVars
  <1>1. CASE local' = NoLocals
    BY <1>1 DEF CopyIsCurrent, NoLocals
  <1>2. CASE ReconcileStart
    BY <1>2 DEF ReconcileStart, CopyIsCurrent, NoLocals
  <1>3. CASE CreateStatefulSet
    BY <1>0, <1>1, <1>3 DEF CreateStatefulSet, Retry, CopyIsCurrent, Locals
  <1>4. CASE ScaleOut
    BY <1>0, <1>1, <1>4 DEF ScaleOut, Retry, IInv, CacheIsCurrent, CopyIsCurrent, Locals
  <1>5. CASE ScaleDown
    BY <1>0, <1>1, <1>5 DEF ScaleDown, Retry, CopyIsCurrent, Locals
  <1>6. CASE UpdateStatus
    BY <1>0, <1>6 DEF UpdateStatus, CopyIsCurrent, Locals
  <1>7. CASE local'.stoFresh = local.stoFresh /\ local'.sto = local.sto /\ ss' = ss
    BY <1>7 DEF IInv, CopyIsCurrent
  <1>8. CASE \/ ReconcileMaster \/ GetServerProxies \/ StorageAllReady \/ RegisterProxies
             \/ GetClusterInfo("Info1", "Stable") \/ GetClusterInfo("Info2", "ScaleDown")
             \/ ScaleNodes \/ \E k \in ChunkNumbers : UserScale(k)
    <2>1. local' = NoLocals \/ (local'.stoFresh = local.stoFresh /\ local'.sto = local.sto)
      BY <1>0, <1>8 DEF ReconcileMaster, GetServerProxies, StorageAllReady, RegisterProxies,
         GetClusterInfo, ScaleNodes, ScaleUp, ScaleIn, FreeNodeFound, UserScale, Goto, Retry,
         Locals
    <2>2. ss' = ss
      BY <1>8 DEF ReconcileMaster, GetServerProxies, StorageAllReady, RegisterProxies,
         GetClusterInfo, ScaleNodes, UserScale
    <2> QED
      BY <1>1, <1>7, <2>1, <2>2
  <1>9. CASE \/ CreateCluster("Cluster1", "Info1") \/ CreateCluster("Cluster2", "Info2")
             \/ WaitStable \/ RemoveFreeNodes \/ DeregisterProxies
             \/ ScaleDownSkip \/ ScaleDownWait \/ SetStable \/ Finish \/ RollStorage
             \/ Abort
    <2>1. local' = NoLocals \/ (local' = local /\ ss' = ss)
      BY <1>9 DEF CreateCluster, ChangeClusterConfig, WaitStable, RemoveFreeNodes,
         DeregisterProxies, ScaleDownSkip,
         ScaleDownWait, SetStable, Finish, RollStorage, Abort, Goto, Retry
    <2> QED
      BY <1>1, <1>7, <2>1
  <1>10. CASE \/ Resync \/ SyncCR \/ SyncStatefulSet \/ Tick \/ SyncEndpoints \/ MigrationDone
              \/ \E p \in Pods : PodKilled(p) \/ PodController(p)
              \/ UNCHANGED vars
    <2>1. local' = local /\ ss' = ss
      BY <1>10 DEF Resync, SyncCR, SyncStatefulSet, Tick, SyncEndpoints, MigrationDone,
         PodKilled, PodController, CreatePod, PodStarts, DeletePod, PodGone, PodStep
    <2> QED
      BY <1>7, <2>1
  <1> QED
    BY <1>2, <1>3, <1>4, <1>5, <1>6, <1>8, <1>9, <1>10 DEF Next, Reconcile, Faults

\* scaleDownStorageStatefulSet returns only with the replicas asked for.
LEMMA NextReplicas == IInv /\ [Next]_vars => CopyHasReplicas'
  <1> SUFFICES ASSUME IInv, [Next]_vars, pc' \in {"SetStable", "Finish"}
               PROVE  (local.sto.replicas = ReplicaNum)'
    BY DEF CopyHasReplicas
  <1>0. local \in Locals /\ local.sto \in StatefulSets
    BY DEF IInv, TypeOK, Locals
  <1> USE DEF vars, apiVars, cacheVars, k8sVars, brokerVars, opVars, ReplicaNum
  <1>1. ~(\/ ReconcileStart \/ CreateStatefulSet \/ ScaleOut \/ ReconcileMaster
          \/ GetServerProxies \/ StorageAllReady \/ RegisterProxies
          \/ CreateCluster("Cluster1", "Info1") \/ GetClusterInfo("Info1", "Stable")
          \/ WaitStable \/ ScaleNodes \/ RemoveFreeNodes \/ DeregisterProxies
          \/ CreateCluster("Cluster2", "Info2") \/ GetClusterInfo("Info2", "ScaleDown")
          \/ ScaleDownWait \/ Finish \/ Abort \/ RollStorage)
    BY DEF ReconcileStart, CreateStatefulSet, ScaleOut, ReconcileMaster, GetServerProxies,
       StorageAllReady, RegisterProxies, CreateCluster, ChangeClusterConfig, GetClusterInfo,
       WaitStable, ScaleNodes,
       ScaleUp, ScaleIn, FreeNodeFound, RemoveFreeNodes, DeregisterProxies,
       ScaleDownWait, Finish, Abort, RollStorage, Retry, Goto
  <1>2. CASE ScaleDownSkip
    BY <1>2 DEF ScaleDownSkip, ReplicasMatch, Goto, Retry
  <1>3. CASE ScaleDown
    <2>1. /\ ss' = [local.sto EXCEPT !.replicas = ReplicaNum]
          /\ local' = [local EXCEPT !.sto = ss']
      BY <1>3 DEF ScaleDown, WriteStatefulSet, Retry
    <2>2. ss'.replicas = ReplicaNum
      BY <1>0, <2>1 DEF StatefulSets
    <2> QED
      BY <1>0, <2>1, <2>2 DEF Locals
  <1>4. CASE SetStable
    BY <1>4 DEF SetStable, At, Goto, Retry, IInv, CopyHasReplicas
  <1>5. CASE UpdateStatus \/ \E k \in ChunkNumbers : UserScale(k)
    <2>1. pc' = pc /\ local'.sto = local.sto /\ local'.cr = local.cr
      BY <1>0, <1>5 DEF UpdateStatus, UserScale, Locals
    <2> QED
      BY <2>1 DEF IInv, CopyHasReplicas
  <1>6. CASE \/ Resync \/ SyncCR \/ SyncStatefulSet \/ Tick \/ SyncEndpoints \/ MigrationDone
             \/ \E p \in Pods : PodKilled(p) \/ PodController(p)
             \/ UNCHANGED vars
    <2>1. pc' = pc /\ local' = local
      BY <1>6 DEF Resync, SyncCR, SyncStatefulSet, Tick, SyncEndpoints, MigrationDone,
         PodKilled, PodController, CreatePod, PodStarts, DeletePod, PodGone, PodStep
    <2> QED
      BY <2>1 DEF IInv, CopyHasReplicas
  <1> QED
    BY <1>1, <1>2, <1>3, <1>4, <1>5, <1>6 DEF Next, Reconcile, Faults

-----------------------------------------------------------------------------
(* Why the operator may go to sleep *)

\* The CR that Reconcile works with is the current one, or the event of a
\* later change is on its way or has asked for another reconcile.
CRSeen ==
    (~queued /\ crCacheFresh /\ pc \notin {"Idle", "CreateStorage", "ReconcileMaster"})
        => local.cr = crChunk

\* So with the StatefulSet.
CopySeen ==
    (~queued /\ ssCacheFresh /\ pc \notin {"Idle", "CreateStorage"}) => local.sto = ss

\* The steps after scaleNodes up to the update of the StatefulSet, and to the end.
Scaling == {"RemoveFreeNodes", "Registry2", "Cluster2", "Info2", "ScaleDown"}
ScalingToEnd == Scaling \cup {"SetStable", "Finish"}

CopyWasStable ==
    pc \in {"ScaleNodes"} \cup Scaling => local.sto.statusReplicas = local.sto.replicas

\* A pod that is not being deleted is asked for or is in the status still.
PodsCounted ==
    \A p \in PodsIn({"pending", "running"}) : p < ss.replicas \/ p < ss.statusReplicas

RetryAtOnce == local.retry => pc = "RemoveFreeNodes"

\* After scaleNodes a migration can only be the one to the chunks of the CR.
TargetIsCR == pc \in ScalingToEnd => target \in {0, local.cr}

\* What scaleNodes has left: a cluster of the size asked for, one that is being
\* drained, or one that has been drained meanwhile and has free nodes.  The
\* last takes running pods beyond the new size, so either the StatefulSet does
\* not have the replicas asked for or there is an event about it.
Scaled == nodes = local.cr /\ slotted = local.cr
Draining == pc \in Scaling /\ nodes = slotted /\ nodes > local.cr /\ target = local.cr
Drained ==
    /\ slotted = local.cr /\ nodes > local.cr /\ target = 0
    /\ ~(~queued /\ ssCacheFresh /\ local.sto.replicas = ReplicaNum)
NodesFollow == (pc \in ScalingToEnd /\ ~local.retry) => (Scaled \/ Draining \/ Drained)

AtRest == pc = "Idle" /\ ~queued /\ crCacheFresh /\ ssCacheFresh

\* A migration that runs on while the operator sleeps does not take slots away.
RestsWithTarget == AtRest => target \in {0, crChunk}

Follows ==
    /\ CRSeen /\ CopySeen /\ CopyWasStable /\ RetryAtOnce /\ TargetIsCR /\ NodesFollow
    /\ RestsOnlyWhenDone /\ RestsWithTarget

Resting == PodsCounted /\ Follows

\* Initially a request is queued and there is no pod.
LEMMA InitResting == Init => Resting
  BY DEF Init, Resting, Follows, PodsCounted, PodsIn, CRSeen, CopySeen, Scaling, ScalingToEnd,
     CopyWasStable, RetryAtOnce, TargetIsCR, NodesFollow, RestsOnlyWhenDone, RestsWithTarget,
     AtRest, NoLocals

\* More chunks have more pods.
LEMMA ReplicasStrict ==
    ASSUME NEW i \in Nat, NEW j \in Nat, i < j
    PROVE  Replicas(i) < Replicas(j) /\ Replicas(i) \in Nat /\ Replicas(j) \in Nat
  <1>1. Replicas(i + 1) <= Replicas(j)
    BY ReplicasMonotone
  <1>2. (i + 1) * chunkShardNumber = i * chunkShardNumber + chunkShardNumber
    BY ScalingAssumption
  <1>3. i * chunkShardNumber \in Nat /\ j * chunkShardNumber \in Nat
    BY ScalingAssumption
  <1> QED
    BY <1>1, <1>2, <1>3, ScalingAssumption DEF Replicas

\* The replicas in a StatefulSet are numbers.
LEMMA StatefulSetNumbers ==
    ASSUME NEW object \in StatefulSets
    PROVE  object.replicas \in Nat /\ object.statusReplicas \in Nat
  <1>1. \A k \in ChunkNumbers : Replicas(k) \in Nat
    BY ScalingAssumption DEF ChunkNumbers, Replicas
  <1> QED
    BY <1>1 DEF StatefulSets

\* When the StatefulSet is shrunk its status counts the pods to be deleted.
LEMMA NextPodsCounted == IInv /\ Resting /\ [Next]_vars => PodsCounted'
  <1> SUFFICES ASSUME IInv, Resting, [Next]_vars PROVE PodsCounted'
    OBVIOUS
  <1>0. /\ TypeOK /\ PodsCounted /\ local \in Locals
        /\ ss \in StatefulSets /\ ssCache \in StatefulSets /\ local.sto \in StatefulSets
        /\ ss.replicas \in Nat /\ ss.statusReplicas \in Nat /\ ReplicaNum \in Nat
    <2>1. \A k \in ChunkNumbers : Replicas(k) \in Nat
      BY ScalingAssumption DEF ChunkNumbers, Replicas
    <2> QED
      BY <2>1, ReplicaNumType, StatefulSetNumbers DEF IInv, Resting, TypeOK, Locals
  <1> USE DEF vars, apiVars, cacheVars, k8sVars, brokerVars, opVars, At, NoFault
  <1>1. CASE UNCHANGED <<ss, pods>>
    BY <1>0, <1>1 DEF PodsCounted, PodsIn
  <1>2. ASSUME pods' = pods, ss' \in StatefulSets, ss.replicas <= ss'.replicas,
               ss'.statusReplicas = ss.statusReplicas
        PROVE  PodsCounted'
    <2>1. ss'.replicas \in Nat
      BY <1>2, StatefulSetNumbers
    <2>2. PodsIn({"pending", "running"})' = PodsIn({"pending", "running"})
      BY <1>2 DEF PodsIn
    <2>3. \A p \in Pods : p < ss.replicas => p < ss'.replicas
      BY <1>0, <1>2, <2>1, ScalingAssumption DEF Pods, Replicas
    <2> QED
      BY <1>0, <1>2, <2>2, <2>3 DEF PodsCounted, PodsIn
  <1>3. ss' \in StatefulSets
    BY <1>0, NextTypeOK DEF TypeOK
  <1>4. CASE CreateStatefulSet
    <2>1. CASE ss' = ss
      BY <1>1, <1>4, <2>1 DEF CreateStatefulSet
    <2>2. CASE ss = NoStatefulSet /\ ss' = [NoStatefulSet EXCEPT !.replicas = ReplicaNum]
      BY <1>0, <1>2, <1>3, <1>4, <2>2 DEF CreateStatefulSet, NoStatefulSet
    <2> QED
      BY <1>4, <2>1, <2>2 DEF CreateStatefulSet, WriteStatefulSet
  <1>5. CASE ScaleOut
    <2>1. CASE ss' = ss
      BY <1>1, <1>5, <2>1 DEF ScaleOut
    <2>2. CASE MustScaleOut /\ ssCacheFresh /\ ss' = [ssCache EXCEPT !.replicas = ReplicaNum]
      <3>1. ssCache = ss
        BY <2>2 DEF IInv, CacheIsCurrent
      <3>2. ss'.replicas = ReplicaNum /\ ss'.statusReplicas = ss.statusReplicas
        BY <1>0, <2>2, <3>1 DEF StatefulSets
      <3> QED
        BY <1>0, <1>2, <1>3, <1>5, <2>2, <3>1, <3>2 DEF ScaleOut, MustScaleOut
    <2> QED
      BY <1>5, <2>1, <2>2 DEF ScaleOut, WriteStatefulSet
  <1>6. CASE ScaleDown
    <2>1. CASE ss' = ss
      BY <1>1, <1>6, <2>1 DEF ScaleDown
    <2>2. CASE local.stoFresh /\ ss' = [local.sto EXCEPT !.replicas = ReplicaNum]
      <3>1. ss.statusReplicas = ss.replicas /\ local.sto = ss
        BY <1>6, <2>2 DEF ScaleDown, Resting, Follows, CopyWasStable, Scaling, IInv, CopyIsCurrent
      <3>2. ss'.statusReplicas = ss.statusReplicas
        BY <1>0, <2>2, <3>1 DEF StatefulSets
      <3>3. PodsIn({"pending", "running"})' = PodsIn({"pending", "running"})
        BY <1>6 DEF ScaleDown, PodsIn
      <3> QED
        BY <1>0, <3>1, <3>2, <3>3 DEF PodsCounted
    <2> QED
      BY <1>6, <2>1, <2>2 DEF ScaleDown, WriteStatefulSet
  <1>7. CASE RollStorage
    <2>1. CASE ss' = ss
      BY <1>1, <1>7, <2>1 DEF RollStorage
    <2>2. CASE local.stoFresh /\ ss' = [local.sto EXCEPT !.replicas = ReplicaNum]
      <3>1. local.sto = ss /\ local.sto.replicas = ReplicaNum
        BY <1>7, <2>2 DEF RollStorage, IInv, CopyIsCurrent, CopyHasReplicas
      <3>2. ss'.replicas = ss.replicas /\ ss'.statusReplicas = ss.statusReplicas
        BY <1>0, <2>2, <3>1 DEF StatefulSets
      <3> QED
        BY <1>0, <1>2, <1>3, <1>7, <3>2 DEF RollStorage
    <2> QED
      BY <1>7, <2>1, <2>2 DEF RollStorage, WriteStatefulSet
  <1>8. CASE UpdateStatus
    <2>1. \A p \in PodsIn({"pending", "running"}) : p < ss.replicas
      BY <1>8 DEF UpdateStatus, PodsAsSpecified, PodsIn
    <2>2. \A m, n : [ss EXCEPT !.statusReplicas = m, !.currentReplicas = n].replicas = ss.replicas
      BY <1>0 DEF StatefulSets
    <2>3. ss'.replicas = ss.replicas
      BY <1>8, <2>2, Zenon DEF UpdateStatus, WriteStatefulSet
    <2>4. PodsIn({"pending", "running"})' = PodsIn({"pending", "running"})
      BY <1>8 DEF UpdateStatus, PodsIn
    <2> QED
      BY <2>1, <2>3, <2>4 DEF PodsCounted
  <1>9. ASSUME NEW p \in Pods, PodController(p) \/ PodKilled(p) PROVE PodsCounted'
    <2>1. ss' = ss
      BY <1>9 DEF PodController, CreatePod, PodStarts, DeletePod, PodGone, PodKilled, PodStep
    <2>2. \/ p < ss.replicas /\ pods' = [pods EXCEPT ![p] = "pending"]
          \/ pods[p] = "pending" /\ pods' = [pods EXCEPT ![p] = "running"]
          \/ pods' = [pods EXCEPT ![p] = "terminating"]
          \/ pods' = [pods EXCEPT ![p] = "absent"]
      BY <1>9 DEF PodController, CreatePod, PodStarts, DeletePod, PodGone, PodKilled, PodStep
    <2>3. \A q \in PodsIn({"pending", "running"})' :
            q \in PodsIn({"pending", "running"}) \/ q < ss.replicas
      BY <1>0, <2>2 DEF PodsIn, TypeOK
    <2> QED
      BY <1>0, <2>1, <2>3 DEF PodsCounted
  <1>10. \/ UNCHANGED <<ss, pods>>
         \/ CreateStatefulSet \/ ScaleOut \/ ScaleDown \/ RollStorage \/ UpdateStatus
         \/ \E p \in Pods : PodController(p) \/ PodKilled(p)
    <2>1. CASE Reconcile
      BY <2>1 DEF Reconcile, ReconcileStart, ReconcileMaster, GetServerProxies, StorageAllReady,
         RegisterProxies, CreateCluster, GetClusterInfo, WaitStable, ScaleNodes, RemoveFreeNodes,
         DeregisterProxies, ScaleDownSkip, ScaleDownWait, SetStable, Finish
    <2>2. CASE Faults
      BY <2>2 DEF Faults, Abort, Resync, UserScale
    <2>3. CASE SyncCR \/ SyncStatefulSet \/ Tick \/ SyncEndpoints \/ MigrationDone \/ UNCHANGED vars
      BY <2>3 DEF SyncCR, SyncStatefulSet, Tick, SyncEndpoints, MigrationDone
    <2> QED
      BY <2>1, <2>2, <2>3 DEF Next
  <1> QED
    BY <1>1, <1>4, <1>5, <1>6, <1>7, <1>8, <1>9, <1>10

\* The end of a reconcile that is to be tried again.
LEMMA RetryFollows ==
    ASSUME Retry
    PROVE  Follows'
  BY DEF Retry, NoLocals, Follows, CRSeen, CopySeen, Scaling, ScalingToEnd, CopyWasStable,
     RetryAtOnce, TargetIsCR, NodesFollow, RestsOnlyWhenDone, RestsWithTarget, AtRest

\* A step of someone else that moves no slots: it changes the CR and the
\* StatefulSet only together with their resourceVersion, and delivers one only
\* together with a request.
LEMMA OtherFollows ==
    ASSUME Follows, pc' = pc, UNCHANGED <<nodes, slotted, target>>,
           local'.cr = local.cr, local'.sto = local.sto, local'.retry = local.retry,
           ~queued' => ~queued,
           ~queued' /\ crCacheFresh' => crCacheFresh /\ crChunk' = crChunk,
           ~queued' /\ ssCacheFresh' => ssCacheFresh /\ ss' = ss
    PROVE  Follows'
  <1>1. CRSeen' /\ CopySeen' /\ CopyWasStable' /\ RetryAtOnce' /\ TargetIsCR'
    BY DEF Follows, CRSeen, CopySeen, CopyWasStable, RetryAtOnce, TargetIsCR
  <1>2. NodesFollow'
    BY DEF Follows, NodesFollow, Scaled, Draining, Drained, ReplicaNum
  <1>3. RestsOnlyWhenDone' /\ RestsWithTarget'
    BY DEF Follows, RestsOnlyWhenDone, RestsWithTarget, AtRest
  <1> QED
    BY <1>1, <1>2, <1>3 DEF Follows

\* What the reconcile has read stays as it is when it goes on and writes
\* neither the CR nor the StatefulSet.
LEMMA ForwardSeen ==
    ASSUME CRSeen, CopySeen, UNCHANGED <<crChunk, ss, crCacheFresh, ssCacheFresh, queued>>,
           local'.cr = local.cr, local'.sto = local.sto,
           pc \notin {"Idle", "CreateStorage", "ReconcileMaster"}
    PROVE  CRSeen' /\ CopySeen'
  BY DEF CRSeen, CopySeen

\* Up to scaleNodes there is no more to it.
LEMMA EarlyFollows ==
    ASSUME CRSeen', CopySeen', ~local'.retry,
           pc' \in {"CreateStorage", "ReconcileMaster", "GetServerProxies", "StorageAllReady",
                   "Registry1", "Cluster1", "Info1", "Stable"}
    PROVE  Follows'
  BY DEF Follows, Scaling, ScalingToEnd, CopyWasStable, RetryAtOnce, TargetIsCR, NodesFollow,
     RestsOnlyWhenDone, RestsWithTarget, AtRest

\* From there to the end the state of the cluster counts.
LEMMA LateFollows ==
    ASSUME CRSeen', CopySeen', CopyWasStable', TargetIsCR', NodesFollow', pc' \in ScalingToEnd,
           local'.retry => pc' = "RemoveFreeNodes"
    PROVE  Follows'
  BY DEF Follows, Scaling, ScalingToEnd, RetryAtOnce, RestsOnlyWhenDone, RestsWithTarget, AtRest

\* A migration off pods that the StatefulSet does not keep cannot end while
\* its status says that they are gone.
LEMMA NoPodsToDrain ==
    ASSUME IInv, Resting, MigrationDone, Draining,
           ~queued, ssCacheFresh, local.sto.replicas = ReplicaNum
    PROVE  FALSE
  <1>1. /\ slotted \in Nat /\ local.cr \in Nat /\ local.cr < slotted /\ slotted <= MaxChunk
    BY ScalingAssumption DEF IInv, TypeOK, Locals, ChunkNumbers, Draining
  <1>2. /\ Replicas(local.cr) < Replicas(slotted) /\ Replicas(slotted) <= Replicas(MaxChunk)
        /\ Replicas(local.cr) \in Nat /\ Replicas(slotted) \in Nat /\ Replicas(MaxChunk) \in Nat
    <2>1. MaxChunk * chunkShardNumber \in Nat
      BY ScalingAssumption
    <2> QED
      BY <1>1, <2>1, ReplicasStrict, ReplicasMonotone, ScalingAssumption DEF Replicas
  <1>3. Replicas(local.cr) \in FirstPods(slotted)
    BY <1>2 DEF FirstPods, Pods
  <1>4. Replicas(local.cr) \in PodsIn({"pending", "running"})
    BY <1>3 DEF MigrationDone, PodsIn
  <1>5. local.sto = ss /\ ss.statusReplicas = ss.replicas
    BY DEF Resting, Follows, CopySeen, CopyWasStable, Draining, Scaling
  <1> QED
    BY <1>2, <1>4, <1>5 DEF Resting, PodsCounted, ReplicaNum

\* The end of a migration keeps what has been found out.
LEMMA MigrationFollows == IInv /\ Resting /\ MigrationDone => Follows'
  <1> SUFFICES ASSUME IInv, Resting, MigrationDone PROVE Follows'
    OBVIOUS
  <1>1. /\ UNCHANGED <<crChunk, ss, crCacheFresh, ssCacheFresh, queued, pc, local, nodes>>
        /\ target # 0 /\ slotted' = target /\ target' = 0
    BY DEF MigrationDone, apiVars, cacheVars, opVars
  <1>2. CRSeen' /\ CopySeen' /\ CopyWasStable' /\ RetryAtOnce' /\ TargetIsCR'
    BY <1>1 DEF Resting, Follows, CRSeen, CopySeen, CopyWasStable, RetryAtOnce, TargetIsCR
  <1>3. NodesFollow'
    <2> SUFFICES ASSUME pc \in ScalingToEnd, ~local.retry PROVE (Scaled \/ Drained)'
      BY <1>1 DEF NodesFollow
    <2>1. Scaled \/ Draining
      BY <1>1 DEF Resting, Follows, NodesFollow, Drained
    <2>2. target = local.cr
      BY <1>1 DEF Resting, Follows, TargetIsCR
    <2>3. CASE Scaled
      BY <1>1, <2>2, <2>3 DEF Scaled
    <2>4. CASE Draining
      <3>1. ~(~queued /\ ssCacheFresh /\ local.sto.replicas = ReplicaNum)
        BY <2>4, NoPodsToDrain
      <3> QED
        BY <1>1, <2>2, <2>4, <3>1 DEF Draining, Drained, ReplicaNum
    <2> QED
      BY <2>1, <2>3, <2>4
  <1>4. RestsOnlyWhenDone' /\ RestsWithTarget'
    BY <1>1 DEF Resting, Follows, RestsOnlyWhenDone, RestsWithTarget, AtRest
  <1> QED
    BY <1>2, <1>3, <1>4 DEF Follows

\* Every step keeps what the operator may rely on when it goes to sleep.
LEMMA NextFollows == IInv /\ Resting /\ [Next]_vars => Follows'
  <1> SUFFICES ASSUME IInv, Resting, [Next]_vars PROVE Follows'
    OBVIOUS
  <1>0. /\ Follows /\ CRSeen /\ CopySeen /\ local \in Locals
        /\ nodes \in Nat /\ slotted \in Nat /\ target \in Nat
        /\ local.cr \in Nat /\ local.cr # 0
    BY ScalingAssumption DEF IInv, Resting, Follows, TypeOK, Locals, ChunkNumbers
  <1>r. ~local.retry \/ pc = "RemoveFreeNodes"
    BY <1>0 DEF Follows, RetryAtOnce
  <1> USE DEF vars, apiVars, cacheVars, k8sVars, brokerVars, opVars, At, NoFault
  <1>1. CASE ReconcileStart
    <2>1. pc' = "CreateStorage" /\ ~local'.retry
      BY <1>1 DEF ReconcileStart, NoLocals
    <2> QED
      BY <2>1, EarlyFollows DEF CRSeen, CopySeen
  <1>2. CASE CreateStatefulSet
    <2>1. CASE ~Retry
      <3>1. /\ pc = "CreateStorage" /\ pc' = "ReconcileMaster" /\ ~ssCacheFresh'
            /\ local'.retry = local.retry
        BY <1>0, <1>2, <2>1 DEF CreateStatefulSet, WriteStatefulSet, Locals
      <3> QED
        BY <1>r, <3>1, EarlyFollows DEF CRSeen, CopySeen
    <2> QED
      BY <2>1, RetryFollows
  <1>3. CASE ScaleOut
    <2>1. CASE ~Retry
      <3>1. /\ pc = "CreateStorage" /\ pc' = "ReconcileMaster" /\ local'.retry = local.retry
            /\ \/ ~ssCacheFresh'
               \/ local'.sto = ssCache /\ UNCHANGED <<ss, ssCacheFresh>>
        BY <1>0, <1>3, <2>1 DEF ScaleOut, WriteStatefulSet, Locals
      <3>2. CopySeen'
        BY <3>1 DEF CopySeen, IInv, CacheIsCurrent
      <3> QED
        BY <1>r, <3>1, <3>2, EarlyFollows DEF CRSeen
    <2> QED
      BY <2>1, RetryFollows
  <1>4. CASE ReconcileMaster
    <2>1. /\ pc = "ReconcileMaster" /\ pc' = "GetServerProxies"
          /\ UNCHANGED <<crChunk, ss, ssCacheFresh, queued>>
          /\ local'.cr = crChunk /\ local'.sto = local.sto /\ local'.retry = local.retry
      BY <1>0, <1>4 DEF ReconcileMaster, Locals
    <2> QED
      BY <1>0, <1>r, <2>1, EarlyFollows DEF CRSeen, CopySeen
  <1>5. CASE \/ GetServerProxies \/ StorageAllReady \/ RegisterProxies
             \/ CreateCluster("Cluster1", "Info1") \/ GetClusterInfo("Info1", "Stable")
    <2>1. CASE ~Retry
      <3>1. /\ UNCHANGED <<crChunk, ss, crCacheFresh, ssCacheFresh, queued>>
            /\ local'.cr = local.cr /\ local'.sto = local.sto /\ local'.retry = local.retry
            /\ pc \in {"GetServerProxies", "StorageAllReady", "Registry1", "Cluster1", "Info1"}
            /\ pc' \in {"StorageAllReady", "Registry1", "Cluster1", "Info1", "Stable"}
        BY <1>0, <1>5, <2>1 DEF GetServerProxies, StorageAllReady, RegisterProxies, CreateCluster,
           ChangeClusterConfig, GetClusterInfo, Goto, Locals
      <3>2. CRSeen' /\ CopySeen'
        BY <1>0, <3>1, ForwardSeen
      <3> QED
        BY <1>r, <3>1, <3>2, EarlyFollows
    <2> QED
      BY <2>1, RetryFollows
  <1>6. CASE WaitStable
    <2>1. CASE ~Retry
      <3>1. /\ UNCHANGED <<crChunk, ss, crCacheFresh, ssCacheFresh, queued, local>>
            /\ pc = "Stable" /\ pc' = "ScaleNodes"
            /\ local.sto.statusReplicas = local.sto.replicas
        BY <1>6, <2>1 DEF WaitStable, StorageAllReadyAndStable, Goto
      <3>2. CRSeen' /\ CopySeen'
        BY <1>0, <3>1, ForwardSeen
      <3> QED
        BY <1>r, <3>1, <3>2 DEF Follows, Scaling, ScalingToEnd, CopyWasStable, RetryAtOnce,
           TargetIsCR, NodesFollow, RestsOnlyWhenDone, RestsWithTarget, AtRest
    <2> QED
      BY <2>1, RetryFollows
  <1>7. CASE ScaleNodes
    <2>1. CASE ~Retry
      <3>1. /\ UNCHANGED <<crChunk, ss, crCacheFresh, ssCacheFresh, queued>>
            /\ local'.cr = local.cr /\ local'.sto = local.sto
            /\ pc = "ScaleNodes" /\ pc' = "RemoveFreeNodes"
        BY <1>0, <1>7, <2>1 DEF ScaleNodes, ScaleUp, ScaleIn, FreeNodeFound, Goto, Locals
      <3>2. CRSeen' /\ CopySeen'
        BY <1>0, <3>1, ForwardSeen
      <3>3. CopyWasStable'
        BY <1>0, <3>1 DEF Follows, CopyWasStable
      <3>4. \/ local'.retry /\ target' = 0
            \/ nodes' = local.cr /\ slotted' = local.cr /\ target' \in {0, local.cr}
            \/ nodes' = slotted' /\ nodes' > local.cr /\ target' = local.cr
        <4>1. CASE FreeNodeFound
          BY <1>0, <1>7, <2>1, <4>1 DEF ScaleNodes, ScaleUp, ScaleIn, FreeNodeFound, Goto, Locals
        <4>2. CASE nodes = slotted /\ target = 0
          BY <1>0, <1>7, <2>1, <4>2 DEF ScaleNodes, ScaleUp, ScaleIn, FreeNodeFound, PostCluster
        <4> QED
          BY <1>7, <2>1, <4>1, <4>2 DEF ScaleNodes
      <3>5. TargetIsCR' /\ NodesFollow'
        BY <3>1, <3>4 DEF TargetIsCR, NodesFollow, Scaled, Draining, Scaling
      <3> QED
        BY <3>1, <3>2, <3>3, <3>5, LateFollows DEF Scaling, ScalingToEnd
    <2> QED
      BY <2>1, RetryFollows
  <1>8. CASE RemoveFreeNodes
    <2>1. CASE ~Retry
      <3>1. /\ UNCHANGED <<crChunk, ss, crCacheFresh, ssCacheFresh, queued, local, slotted, target>>
            /\ pc = "RemoveFreeNodes" /\ pc' = "Registry2" /\ ~local.retry
            /\ nodes' = IF target = 0 THEN slotted ELSE nodes
        BY <1>8, <2>1 DEF RemoveFreeNodes, DeleteFreeNodes, Goto
      <3>2. CRSeen' /\ CopySeen'
        BY <1>0, <3>1, ForwardSeen
      <3>3. CopyWasStable' /\ TargetIsCR'
        BY <1>0, <3>1 DEF Follows, CopyWasStable, TargetIsCR, Scaling, ScalingToEnd
      <3>4. NodesFollow'
        BY <1>0, <3>1 DEF Follows, NodesFollow, Scaled, Draining, Drained, Scaling, ScalingToEnd
      <3> QED
        BY <3>1, <3>2, <3>3, <3>4, LateFollows DEF Scaling, ScalingToEnd
    <2> QED
      BY <2>1, RetryFollows
  <1>9. CASE \/ DeregisterProxies \/ CreateCluster("Cluster2", "Info2")
             \/ GetClusterInfo("Info2", "ScaleDown")
    <2>1. CASE ~Retry
      <3>1. /\ UNCHANGED <<crChunk, ss, crCacheFresh, ssCacheFresh, queued, target>>
            /\ local'.cr = local.cr /\ local'.sto = local.sto /\ local'.retry = local.retry
            /\ pc \in {"Registry2", "Cluster2", "Info2"}
            /\ pc' \in {"Cluster2", "Info2", "ScaleDown"}
        BY <1>0, <1>9, <2>1 DEF DeregisterProxies, CreateCluster, ChangeClusterConfig,
           GetClusterInfo, Goto, Locals
      <3>2. nodes # 0
        BY <1>0, <1>r, <3>1 DEF Follows, NodesFollow, Scaled, Draining, Drained, Scaling,
           ScalingToEnd
      <3>3. UNCHANGED <<nodes, slotted>>
        BY <1>9, <3>2 DEF DeregisterProxies, CreateCluster, ClusterExists, GetClusterInfo
      <3>4. CRSeen' /\ CopySeen'
        BY <1>0, <3>1, ForwardSeen
      <3>5. CopyWasStable' /\ TargetIsCR'
        BY <1>0, <3>1 DEF Follows, CopyWasStable, TargetIsCR, Scaling, ScalingToEnd
      <3>6. NodesFollow'
        BY <1>0, <3>1, <3>3 DEF Follows, NodesFollow, Scaled, Draining, Drained, ReplicaNum,
           Scaling, ScalingToEnd
      <3> QED
        BY <1>r, <3>1, <3>4, <3>5, <3>6, LateFollows DEF Scaling, ScalingToEnd
    <2> QED
      BY <2>1, RetryFollows
  <1>10. ASSUME pc = "ScaleDown", SlotsMatch PROVE Scaled \/ Drained
    <2>1. slotted <= local.cr
      BY <1>10 DEF IInv, InfoBoundsSlots, SlotsMatch
    <2> QED
      BY <1>0, <1>r, <1>10, <2>1 DEF Follows, NodesFollow, Scaled, Draining, Drained, Scaling,
         ScalingToEnd
  <1>11. CASE ScaleDownSkip
    <2>1. CASE ~Retry
      <3>1. /\ UNCHANGED <<crChunk, ss, crCacheFresh, ssCacheFresh, queued, local, nodes, slotted,
                           target>>
            /\ pc = "ScaleDown" /\ pc' = "Finish" /\ SlotsMatch
        BY <1>11, <2>1 DEF ScaleDownSkip, Goto
      <3>2. CRSeen' /\ CopySeen'
        BY <1>0, <3>1, ForwardSeen
      <3>3. CopyWasStable' /\ TargetIsCR'
        BY <1>0, <3>1 DEF Follows, CopyWasStable, TargetIsCR, Scaling, ScalingToEnd
      <3>4. NodesFollow'
        BY <1>10, <3>1 DEF NodesFollow, Scaled, Drained, ReplicaNum
      <3> QED
        BY <1>r, <3>1, <3>2, <3>3, <3>4, LateFollows DEF Scaling, ScalingToEnd
    <2> QED
      BY <2>1, RetryFollows
  <1>12. CASE ScaleDown
    <2>1. CASE ~Retry
      <3>1. /\ UNCHANGED <<crChunk, crCacheFresh, queued, nodes, slotted, target>>
            /\ local'.cr = local.cr /\ local'.retry = local.retry /\ ~ssCacheFresh'
            /\ pc = "ScaleDown" /\ pc' = "SetStable" /\ SlotsMatch
        BY <1>0, <1>12, <2>1 DEF ScaleDown, WriteStatefulSet, Locals
      <3>2. CRSeen' /\ CopySeen'
        BY <1>0, <3>1 DEF CRSeen, CopySeen
      <3>3. CopyWasStable' /\ TargetIsCR'
        BY <1>0, <3>1 DEF Follows, CopyWasStable, TargetIsCR, Scaling, ScalingToEnd
      <3>4. NodesFollow'
        BY <1>10, <3>1 DEF NodesFollow, Scaled, Drained
      <3> QED
        BY <1>r, <3>1, <3>2, <3>3, <3>4, LateFollows DEF Scaling, ScalingToEnd
    <2> QED
      BY <2>1, RetryFollows
  <1>13. CASE SetStable
    <2>1. CASE ~Retry
      <3>1. /\ UNCHANGED <<crChunk, ss, ssCacheFresh, queued, local, nodes, slotted, target>>
            /\ ~crCacheFresh' /\ pc = "SetStable" /\ pc' = "Finish"
        BY <1>13, <2>1 DEF SetStable, SetScaleState, Goto
      <3>2. CRSeen' /\ CopySeen'
        BY <1>0, <3>1 DEF CRSeen, CopySeen
      <3>3. CopyWasStable' /\ TargetIsCR'
        BY <1>0, <3>1 DEF Follows, CopyWasStable, TargetIsCR, Scaling, ScalingToEnd
      <3>4. NodesFollow'
        BY <1>0, <3>1 DEF Follows, NodesFollow, Scaled, Draining, Drained, ReplicaNum, Scaling,
           ScalingToEnd
      <3> QED
        BY <1>r, <3>1, <3>2, <3>3, <3>4, LateFollows DEF Scaling, ScalingToEnd
    <2> QED
      BY <2>1, RetryFollows
  <1>14. CASE Finish
    <2>1. CASE ~Retry
      <3>1. /\ UNCHANGED <<crChunk, ss, crCacheFresh, ssCacheFresh, queued, nodes, slotted, target>>
            /\ pc = "Finish" /\ pc' = "Idle" /\ local' = NoLocals
        BY <1>14, <2>1 DEF Finish
      <3>2. ASSUME ~queued, crCacheFresh, ssCacheFresh
            PROVE  /\ ss.replicas = Replicas(crChunk) /\ nodes = crChunk /\ slotted = crChunk
                   /\ target \in {0, crChunk}
        <4>1. local.cr = crChunk /\ local.sto = ss
          BY <1>0, <3>1, <3>2 DEF CRSeen, CopySeen
        <4>2. local.sto.replicas = Replicas(local.cr)
          BY <3>1 DEF IInv, CopyHasReplicas, ReplicaNum
        <4>3. Scaled
          BY <1>0, <1>r, <3>1, <3>2, <4>2 DEF Follows, NodesFollow, Draining, Drained, ReplicaNum,
             Scaling, ScalingToEnd
        <4>4. target \in {0, local.cr}
          BY <1>0, <3>1 DEF Follows, TargetIsCR, ScalingToEnd
        <4> QED
          BY <4>1, <4>2, <4>3, <4>4 DEF Scaled
      <3> QED
        BY <3>1, <3>2 DEF NoLocals, Follows, CRSeen, CopySeen, Scaling, ScalingToEnd,
           CopyWasStable, RetryAtOnce, TargetIsCR, NodesFollow, RestsOnlyWhenDone,
           RestsWithTarget, AtRest
    <2> QED
      BY <2>1, RetryFollows
  <1>15. CASE ScaleDownWait \/ RollStorage \/ Abort
    BY <1>15, RetryFollows DEF ScaleDownWait, RollStorage, Abort
  <1>16. CASE MigrationDone
    BY <1>16, MigrationFollows
  <1>17. CASE \/ Resync \/ (\E k \in ChunkNumbers : UserScale(k)) \/ SyncCR \/ SyncStatefulSet
              \/ Tick \/ UpdateStatus \/ SyncEndpoints \/ UNCHANGED vars
              \/ \E p \in Pods : PodKilled(p) \/ PodController(p)
    <2>1. /\ pc' = pc /\ UNCHANGED <<nodes, slotted, target>>
          /\ ~queued' => ~queued
      BY <1>17 DEF Resync, UserScale, SyncCR, SyncStatefulSet, Tick, UpdateStatus, SyncEndpoints,
         PodKilled, PodController, CreatePod, PodStarts, DeletePod, PodGone, PodStep
    <2>2. local'.cr = local.cr /\ local'.sto = local.sto /\ local'.retry = local.retry
      BY <1>0, <1>17 DEF Resync, UserScale, SyncCR, SyncStatefulSet, Tick, UpdateStatus,
         SyncEndpoints, PodKilled, PodController, CreatePod, PodStarts, DeletePod, PodGone,
         PodStep, Locals
    <2>3. ~queued' /\ crCacheFresh' => crCacheFresh /\ crChunk' = crChunk
      BY <1>17 DEF Resync, UserScale, SyncCR, SyncStatefulSet, Tick, UpdateStatus, SyncEndpoints,
         PodKilled, PodController, CreatePod, PodStarts, DeletePod, PodGone, PodStep
    <2>4. ~queued' /\ ssCacheFresh' => ssCacheFresh /\ ss' = ss
      BY <1>17 DEF Resync, UserScale, SyncCR, SyncStatefulSet, Tick, UpdateStatus,
         WriteStatefulSet, SyncEndpoints,
         PodKilled, PodController, CreatePod, PodStarts, DeletePod, PodGone, PodStep
    <2> QED
      BY <1>0, <2>1, <2>2, <2>3, <2>4, OtherFollows
  <1> QED
    BY <1>1, <1>2, <1>3, <1>4, <1>5, <1>6, <1>7, <1>8, <1>9, <1>11, <1>12, <1>13, <1>14, <1>15,
       <1>16, <1>17
       DEF Next, Reconcile, Faults

\* The invariant is inductive.
LEMMA NextIInv == IInv /\ [Next]_vars => IInv'
  BY NextTypeOK, NextMigration, NextInfo, NextCache, NextCopy, NextReplicas DEF IInv

\* The inductive invariant holds in every reachable state.
THEOREM Invariance == Spec => [](IInv /\ Resting)
  <1>1. (IInv /\ Resting) /\ [Next]_vars => (IInv /\ Resting)'
    BY NextIInv, NextPodsCounted, NextFollows DEF Resting
  <1> QED
    BY InitIInv, InitResting, <1>1, PTL DEF Spec

\* Every variable keeps its type, whatever the size of the cluster.
THEOREM TypeCorrect == Spec => []TypeOK
  <1>1. IInv => TypeOK
    BY DEF IInv
  <1> QED
    BY <1>1, Invariance, PTL

\* The operator never removes a pod of a chunk that holds slots by shrinking
\* the StatefulSet, whatever the size of the cluster and the interleaving of
\* its steps with edits, faults, stale caches and migrations.
THEOREM NeverShrinksOntoSlots == Spec => ShrinkOnlyDrained
  <1>1. IInv /\ [Next]_vars =>
          [ss'.replicas < ss.replicas => Replicas(slotted) <= ss'.replicas]_vars
    <2> SUFFICES ASSUME IInv, Next, ss'.replicas < ss.replicas
                 PROVE  Replicas(slotted) <= ss'.replicas
      BY DEF vars
    <2>1. ScaleDown /\ local.stoFresh /\ ss'.replicas = ReplicaNum
      BY OnlyScaleDownShrinks
    <2>2. slotted <= local.cr /\ slotted \in Nat /\ local.cr \in Nat
      <3>1. slotted <= local.infoSlotted /\ local.infoSlotted = local.cr
        BY <2>1 DEF ScaleDown, At, SlotsMatch, IInv, InfoBoundsSlots
      <3> QED
        BY <3>1, ScalingAssumption DEF IInv, TypeOK, Locals, ChunkNumbers
    <2> QED
      BY <2>1, <2>2, ReplicasMonotone DEF ReplicaNum
  <1> QED
    BY <1>1, Invariance, PTL DEF Spec, ShrinkOnlyDrained

\* Reconcile goes to sleep only when the StatefulSet, the chunks of the cluster
\* and the slots are what the CR asks for, or when an event is on its way:
\* nothing is left undone because a request was dropped, for any number of
\* chunks, edits and faults.
THEOREM NoWorkIsMissed == Spec => []RestsOnlyWhenDone
  <1>1. Resting => RestsOnlyWhenDone
    BY DEF Resting, Follows
  <1> QED
    BY <1>1, Invariance, PTL
=============================================================================
