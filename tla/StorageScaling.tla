--------------------------- MODULE StorageScaling ---------------------------
(***************************************************************************)
(* How the operator follows spec.chunkNumber of the custom resource (CR):  *)
(* the part of UndermoonReconciler.Reconcile that grows the storage        *)
(* StatefulSet, registers its proxies in the broker, asks the broker to    *)
(* migrate slots, and shrinks the StatefulSet once the slots have left.    *)
(*                                                                         *)
(* One reconcile is a sequence of calls to the API server and the broker;  *)
(* each call is a step of its own, so everything else (the user, the       *)
(* StatefulSet and Endpoints controllers, the informer caches, the slot    *)
(* migration, the clock) may act between two calls.  The broker and        *)
(* Kubernetes are external: they are modelled from how the operator uses   *)
(* them.  Nodes are counted in chunks: NodeNumber / chunkNodeNumber.       *)
(***************************************************************************)
EXTENDS Integers, FiniteSets

CONSTANTS
    MaxChunk,           \* bound on spec.chunkNumber
    chunkShardNumber,   \* pods per chunk, 2 in the code
    scaleDownWaitTime,  \* in ticks, 30 seconds in the code
    MaxEdits,           \* bound on the user's changes of the CR
    MaxFaults           \* bound on failed calls, crashes and killed pods

ASSUME ScalingAssumption ==
    /\ MaxChunk \in Nat \ {0}
    /\ chunkShardNumber \in Nat \ {0}
    /\ scaleDownWaitTime \in Nat \ {0}
    /\ MaxEdits \in Nat
    /\ MaxFaults \in Nat

ChunkNumbers == 1..MaxChunk
Replicas(k) == k * chunkShardNumber
Pods == 0..(Replicas(MaxChunk) - 1)

\* genStorageStatefulSetAddrs: the proxies of the first k chunks.
FirstPods(k) == {p \in Pods : p < Replicas(k)}

VARIABLES
    crChunk,      \* spec.chunkNumber in the API server
    scaleState,   \* status.scaleState in the API server
    waited,       \* time since status.scaleDownWaitTimestamp, saturating
    ss,           \* the storage StatefulSet in the API server
    crCache,      \* spec.chunkNumber in the operator's informer cache
    crCacheFresh, \* crCache has the resourceVersion of the CR
    ssCache,      \* the StatefulSet in the operator's informer cache
    ssCacheFresh, \* ssCache has the resourceVersion of ss
    pods,         \* phase of each storage pod
    endpoints,    \* pods listed by the Endpoints of the storage service
    registered,   \* proxies registered in the broker
    nodes,        \* chunks allocated to the cluster, 0: no cluster yet
    slotted,      \* chunks that hold slots
    target,       \* chunks that will hold slots after the running migration, 0: none
    queued,       \* a reconcile request waits in the work queue
    pc,           \* next call of the reconcile in progress
    local,        \* its local variables
    edits,        \* edits by the user so far, of chunkNumber or the pod template
    faults        \* faults so far

apiVars    == <<crChunk, scaleState, waited, ss>>
cacheVars  == <<crCache, crCacheFresh, ssCache, ssCacheFresh>>
k8sVars    == <<pods, endpoints>>
brokerVars == <<registered, nodes, slotted, target>>
opVars     == <<queued, pc, local>>
vars == <<apiVars, cacheVars, k8sVars, brokerVars, opVars, edits, faults>>

Phases == {"absent", "pending", "running", "terminating"}
StatefulSets == [replicas : {0} \cup {Replicas(k) : k \in ChunkNumbers},
                 statusReplicas : Nat, currentReplicas : Nat]
NoStatefulSet == [replicas |-> 0, statusReplicas |-> 0, currentReplicas |-> 0]

Steps == {"Idle", "CreateStorage", "ReconcileMaster", "GetServerProxies",
          "StorageAllReady", "Registry1", "Cluster1", "Info1", "Stable",
          "ScaleNodes", "RemoveFreeNodes", "Registry2", "Cluster2", "Info2",
          "ScaleDown", "SetStable", "Finish"}

\* cr, crFresh: chunkNumber of the operator's CR, and whether its
\* resourceVersion is still the current one; sto, stoFresh: likewise for the
\* StatefulSet; retry: scaleNodes answered FREE_NODE_FOUND.
Locals == [cr : ChunkNumbers, crFresh : BOOLEAN,
           sto : StatefulSets, stoFresh : BOOLEAN,
           proxies : SUBSET Pods, allReady : BOOLEAN, retry : BOOLEAN,
           infoSlotted : 0..MaxChunk, infoMigrating : BOOLEAN]
NoLocals == [cr |-> 1, crFresh |-> FALSE,
             sto |-> NoStatefulSet, stoFresh |-> FALSE,
             proxies |-> {}, allReady |-> FALSE, retry |-> FALSE,
             infoSlotted |-> 0, infoMigrating |-> FALSE]

TypeOK ==
    /\ crChunk \in ChunkNumbers
    /\ scaleState \in {"Unset", "Stable", "ScaleDownWait"}
    /\ waited \in 0..scaleDownWaitTime
    /\ ss \in StatefulSets
    /\ crCache \in ChunkNumbers
    /\ crCacheFresh \in BOOLEAN
    /\ ssCache \in StatefulSets
    /\ ssCacheFresh \in BOOLEAN
    /\ pods \in [Pods -> Phases]
    /\ endpoints \in SUBSET Pods
    /\ registered \in SUBSET Pods
    /\ nodes \in 0..MaxChunk
    /\ slotted \in 0..MaxChunk
    /\ target \in 0..MaxChunk
    /\ queued \in BOOLEAN
    /\ pc \in Steps
    /\ local \in Locals
    /\ edits \in 0..MaxEdits
    /\ faults \in 0..MaxFaults

\* The CR has just been created; nothing else exists.
Init ==
    /\ crChunk \in ChunkNumbers
    /\ scaleState = "Unset"
    /\ waited = scaleDownWaitTime
    /\ ss = NoStatefulSet
    /\ crCache = crChunk
    /\ crCacheFresh = TRUE
    /\ ssCache = NoStatefulSet
    /\ ssCacheFresh = TRUE
    /\ pods = [p \in Pods |-> "absent"]
    /\ endpoints = {}
    /\ registered = {}
    /\ nodes = 0
    /\ slotted = 0
    /\ target = 0
    /\ queued = TRUE
    /\ pc = "Idle"
    /\ local = NoLocals
    /\ edits = 0
    /\ faults = 0

-----------------------------------------------------------------------------
(* The reconcile in progress *)

\* Any error, and errRetryReconciliation, end the reconcile and requeue it.
Retry == pc' = "Idle" /\ queued' = TRUE /\ local' = NoLocals

NoFault == UNCHANGED faults
Fault == faults < MaxFaults /\ faults' = faults + 1

Goto(step) == pc' = step /\ UNCHANGED <<queued, local>>

At(step) == pc = step /\ UNCHANGED edits

\* The StatefulSet object of the operator is written with its
\* resourceVersion; the API server returns the stored object.
WriteStatefulSet(object) ==
    /\ ss' = object
    /\ ssCacheFresh' = FALSE

\* replicaNum, as every function of the storage controller computes it.
ReplicaNum_OneMore == Replicas(local.cr + 1)    \* mutant: one chunk too many
ReplicaNum == Replicas(local.cr)

\* Reconcile takes a request from the queue and reads the CR from the cache.
ReconcileStart ==
    /\ At("Idle") /\ NoFault
    /\ queued
    /\ queued' = FALSE
    /\ pc' = "CreateStorage"
    /\ local' = [NoLocals EXCEPT !.cr = crCache]
    /\ UNCHANGED <<apiVars, cacheVars, k8sVars, brokerVars>>

\* getOrCreateStorageStatefulSet did not find the StatefulSet in the cache.
CreateStatefulSet ==
    /\ At("CreateStorage") /\ NoFault
    /\ ssCache = NoStatefulSet
    /\ \/ /\ ss = NoStatefulSet
          /\ WriteStatefulSet([NoStatefulSet EXCEPT !.replicas = ReplicaNum])
          /\ pc' = "ReconcileMaster"
          /\ local' = [local EXCEPT !.sto = ss', !.stoFresh = TRUE]
          /\ UNCHANGED queued
       \/ /\ ss # NoStatefulSet          \* AlreadyExists, three times
          /\ Retry
          /\ UNCHANGED <<ss, ssCacheFresh>>
    /\ UNCHANGED <<crChunk, scaleState, waited, crCache, crCacheFresh, ssCache,
                   k8sVars, brokerVars>>

\* createStorage found it: only scaling out happens here.
MustScaleOut_OrIn == ReplicaNum # ssCache.replicas    \* mutant: in both directions
MustScaleOut == ReplicaNum > ssCache.replicas

ScaleOut ==
    /\ At("CreateStorage") /\ NoFault
    /\ ssCache # NoStatefulSet
    /\ \/ /\ ~MustScaleOut
          /\ pc' = "ReconcileMaster"
          /\ local' = [local EXCEPT !.sto = ssCache, !.stoFresh = ssCacheFresh]
          /\ UNCHANGED <<queued, ss, ssCacheFresh>>
       \/ /\ MustScaleOut
          /\ ssCacheFresh
          /\ WriteStatefulSet([ssCache EXCEPT !.replicas = ReplicaNum])
          /\ pc' = "ReconcileMaster"
          /\ local' = [local EXCEPT !.sto = ss', !.stoFresh = TRUE]
          /\ UNCHANGED queued
       \/ /\ MustScaleOut
          /\ ~ssCacheFresh               \* conflict
          /\ Retry
          /\ UNCHANGED <<ss, ssCacheFresh>>
    /\ UNCHANGED <<crChunk, scaleState, waited, crCache, crCacheFresh, ssCache,
                   k8sVars, brokerVars>>

\* setMasterBrokerStatus patches the CR: the operator's copy is replaced by
\* the API server's answer, spec and resourceVersion included.
ReconcileMaster ==
    /\ At("ReconcileMaster") /\ NoFault
    /\ pc' = "GetServerProxies"
    /\ local' = [local EXCEPT !.cr = crChunk, !.crFresh = TRUE]
    /\ UNCHANGED <<queued, apiVars, cacheVars, k8sVars, brokerVars>>

GetServerProxies ==
    /\ At("GetServerProxies") /\ NoFault
    /\ pc' = "StorageAllReady"
    /\ local' = [local EXCEPT !.proxies = endpoints]
    /\ UNCHANGED <<queued, apiVars, cacheVars, k8sVars, brokerVars>>

AllReady == Cardinality(endpoints) >= ReplicaNum

StorageAllReady ==
    /\ At("StorageAllReady") /\ NoFault
    /\ pc' = "Registry1"
    /\ local' = [local EXCEPT !.allReady = AllReady]
    /\ UNCHANGED <<queued, apiVars, cacheVars, k8sVars, brokerVars>>

\* Client calls on the registry of the broker.  A proxy that is there already,
\* or is no longer, is no error; the broker keeps the proxies the cluster uses.
RegisterServerProxy(proxies) == registered \cup proxies
DeregisterServerProxy(existing, proxies) == existing \ (proxies \ FirstPods(nodes))

\* registerServerProxies then deregisterServerProxies.  The keepSet has the
\* proxies of the chunks the CR asks for and the proxies passed by the
\* caller.  RETRY from the broker ends the reconcile, any other error is logged
\* and skipped: a fault leaves any part of the work done.
KeepSet == FirstPods(local.cr) \cup local.proxies
DeleteList(existing) == existing \ KeepSet

ReconcileServerProxyRegistry ==
    \E added \in SUBSET local.proxies :
        \E removed \in SUBSET DeleteList(RegisterServerProxy(added)) :
            /\ \/ /\ added = local.proxies
                  /\ removed = DeleteList(RegisterServerProxy(added))
                  /\ NoFault
               \/ Fault
            /\ registered' = DeregisterServerProxy(RegisterServerProxy(added), removed)

\* The first reconcileMeta registers the proxies of the Endpoints.
RegisterProxies ==
    /\ At("Registry1")
    /\ ReconcileServerProxyRegistry
    /\ \/ /\ local.allReady
          /\ pc' = "Cluster1"
          /\ local' = [local EXCEPT !.proxies = {}]
          /\ UNCHANGED queued
       \/ (~local.allReady \/ faults' # faults) /\ Retry
    /\ UNCHANGED <<apiVars, cacheVars, k8sVars, nodes, slotted, target>>

\* The second one passes no proxies, which leaves only the deregistration.
DeregisterProxies ==
    /\ At("Registry2")
    /\ ReconcileServerProxyRegistry
    /\ Goto("Cluster2") \/ (faults' # faults /\ Retry)
    /\ UNCHANGED <<apiVars, cacheVars, k8sVars, nodes, slotted, target>>

\* Client calls on the cluster.  Without a registered proxy for every pod the
\* broker answers NO_AVAILABLE_RESOURCE; it may refuse a new configuration while
\* slots migrate.
ClusterExists == nodes # 0
NoAvailableResource == ~(FirstPods(local.cr) \subseteq registered)
PostCluster == nodes' = local.cr /\ slotted' = local.cr
ChangeClusterConfig == target # 0 /\ Retry

\* createCluster, then changeClusterConfig.
CreateCluster(step, next) ==
    /\ At(step) /\ NoFault
    /\ \/ ~ClusterExists /\ ~NoAvailableResource /\ PostCluster /\ Goto(next)
       \/ ~ClusterExists /\ NoAvailableResource /\ Retry /\ UNCHANGED <<nodes, slotted>>
       \/ ClusterExists /\ Goto(next) /\ UNCHANGED <<nodes, slotted>>
       \/ ClusterExists /\ ChangeClusterConfig /\ UNCHANGED <<nodes, slotted>>
    /\ UNCHANGED <<apiVars, cacheVars, k8sVars, registered, target>>

GetClusterInfo(step, next) ==
    /\ At(step) /\ NoFault
    /\ pc' = next
    /\ local' = [local EXCEPT !.infoSlotted = slotted, !.infoMigrating = (target # 0)]
    /\ UNCHANGED <<queued, apiVars, cacheVars, k8sVars, brokerVars>>

StorageAllReadyAndStable ==
    /\ AllReady
    /\ local.sto.currentReplicas = local.sto.replicas
    /\ local.sto.statusReplicas = local.sto.replicas

\* "Before scaling, we need to wait for those TERMINATING pods to be killed."
WaitStable ==
    /\ At("Stable") /\ NoFault
    /\ IF StorageAllReadyAndStable THEN Goto("ScaleNodes") ELSE Retry
    /\ UNCHANGED <<apiVars, cacheVars, k8sVars, brokerVars>>

\* changeMeta, first half: POST clusters/migrations/auto.  A scale-up adds
\* the chunks and starts to migrate slots onto them, a scale-down starts to
\* migrate slots off the chunks beyond the new number.
ScaleUp ==
    /\ local.cr > nodes
    /\ ~NoAvailableResource
    /\ PostCluster
    /\ target' = local.cr
    /\ Goto("RemoveFreeNodes")

ScaleIn ==
    /\ local.cr < nodes
    /\ target' = local.cr
    /\ Goto("RemoveFreeNodes")
    /\ UNCHANGED <<nodes, slotted>>

\* Mutant: the error is returned before removeFreeNodes is called.
FreeNodeFound_NoRemove ==
    nodes > slotted /\ Retry /\ UNCHANGED <<nodes, slotted, target>>

FreeNodeFound ==
    /\ nodes > slotted
    /\ pc' = "RemoveFreeNodes"
    /\ local' = [local EXCEPT !.retry = TRUE]
    /\ UNCHANGED <<queued, nodes, slotted, target>>

\* changeMeta leaves a cluster alone whose info says that it is migrating.
MayChange == ~local.infoMigrating

ScaleNodes ==
    /\ At("ScaleNodes") /\ NoFault
    /\ \/ /\ ~MayChange \/ target # 0
          /\ Retry
          /\ UNCHANGED <<nodes, slotted, target>>
       \/ /\ MayChange
          /\ target = 0
          /\ FreeNodeFound
       \/ /\ MayChange
          /\ target = 0
          /\ nodes = slotted
          /\ \/ ScaleUp
             \/ ScaleIn
             \/ /\ local.cr = nodes
                /\ Goto("RemoveFreeNodes")
                /\ UNCHANGED <<nodes, slotted, target>>
             \/ /\ local.cr > nodes                 \* out of order
                /\ NoAvailableResource
                /\ Retry
                /\ UNCHANGED <<nodes, slotted, target>>
    /\ UNCHANGED <<apiVars, cacheVars, k8sVars, registered>>

\* changeMeta, second half: no free nodes is no error, a migration is one.
DeleteFreeNodes == nodes' = IF target = 0 THEN slotted ELSE nodes

RemoveFreeNodes ==
    /\ At("RemoveFreeNodes") /\ NoFault
    /\ DeleteFreeNodes
    /\ \/ ~local.retry /\ Goto("Registry2")
       \/ (local.retry \/ target # 0) /\ Retry
    /\ UNCHANGED <<apiVars, cacheVars, k8sVars, registered, slotted, target>>

\* setScaleState is an update of the CR with its resourceVersion.
SetScaleState(state, time) ==
    /\ scaleState' = state
    /\ waited' = time
    /\ crCacheFresh' = FALSE

\* scaleDownStorageStatefulSet up to the update of the StatefulSet.
SlotsMatch == local.infoSlotted = local.cr
ReplicasMatch == local.sto.replicas = ReplicaNum

\* Mutant: a cluster with other slots than asked for is not requeued.
ScaleDownSkip_NoRetry ==
    /\ At("ScaleDown") /\ NoFault
    /\ ~SlotsMatch \/ ReplicasMatch
    /\ Goto("Finish")
    /\ UNCHANGED <<apiVars, cacheVars, k8sVars, brokerVars>>

ScaleDownSkip ==
    /\ At("ScaleDown") /\ NoFault
    /\ \/ ~SlotsMatch /\ Retry
       \/ SlotsMatch /\ ReplicasMatch /\ Goto("Finish")
    /\ UNCHANGED <<apiVars, cacheVars, k8sVars, brokerVars>>

ScaleDownWait ==
    /\ At("ScaleDown") /\ NoFault
    /\ SlotsMatch /\ ~ReplicasMatch
    /\ \/ /\ scaleState # "ScaleDownWait"
          /\ local.crFresh
          /\ SetScaleState("ScaleDownWait", 0)
       \/ /\ scaleState # "ScaleDownWait" => ~local.crFresh
          /\ scaleState = "ScaleDownWait" => waited < scaleDownWaitTime
          /\ UNCHANGED <<scaleState, waited, crCacheFresh>>
    /\ Retry
    /\ UNCHANGED <<crChunk, ss, crCache, ssCache, ssCacheFresh, k8sVars, brokerVars>>

ScaleDown ==
    /\ At("ScaleDown") /\ NoFault
    /\ SlotsMatch /\ ~ReplicasMatch
    /\ scaleState = "ScaleDownWait"
    /\ waited = scaleDownWaitTime
    /\ \/ /\ local.stoFresh
          /\ WriteStatefulSet([local.sto EXCEPT !.replicas = ReplicaNum])
          /\ pc' = "SetStable"
          /\ local' = [local EXCEPT !.sto = ss']
          /\ UNCHANGED queued
       \/ /\ ~local.stoFresh
          /\ Retry
          /\ UNCHANGED <<ss, ssCacheFresh>>
    /\ UNCHANGED <<crChunk, scaleState, waited, crCache, crCacheFresh, ssCache,
                   k8sVars, brokerVars>>

SetStable ==
    /\ At("SetStable") /\ NoFault
    /\ \/ /\ local.crFresh
          /\ SetScaleState("Stable", scaleDownWaitTime)
          /\ Goto("Finish")
       \/ /\ ~local.crFresh
          /\ Retry
          /\ UNCHANGED <<scaleState, waited, crCacheFresh>>
    /\ UNCHANGED <<crChunk, ss, crCache, ssCache, ssCacheFresh, k8sVars, brokerVars>>

\* triggerRollingUpdate when the user has changed the pod template of the
\* storage: the whole spec is replaced, replicas included.  The restarts of the
\* pods that follow are PodKilled.
RollStorage ==
    /\ pc = "Finish"
    /\ edits < MaxEdits
    /\ edits' = edits + 1
    /\ \/ /\ local.stoFresh
          /\ WriteStatefulSet([local.sto EXCEPT !.replicas = ReplicaNum])
       \/ ~local.stoFresh /\ UNCHANGED <<ss, ssCacheFresh>>
    /\ Retry
    /\ UNCHANGED <<crChunk, scaleState, waited, crCache, crCacheFresh, ssCache,
                   k8sVars, brokerVars, faults>>

\* The last check of triggerRollingUpdate, when no template has changed.
Finish ==
    /\ At("Finish") /\ NoFault
    /\ \/ /\ StorageAllReadyAndStable
          /\ pc' = "Idle"
          /\ local' = NoLocals
          /\ UNCHANGED queued
       \/ ~StorageAllReadyAndStable /\ Retry
    /\ UNCHANGED <<apiVars, cacheVars, k8sVars, brokerVars>>

\* A call fails before or after it took effect, the broker or a coordinator
\* is not ready, or the operator crashes and its successor lists every CR.
Abort ==
    /\ pc # "Idle"
    /\ Fault
    /\ Retry
    /\ UNCHANGED <<apiVars, cacheVars, k8sVars, brokerVars, edits>>

-----------------------------------------------------------------------------
(* The user and the operator's informers *)

UserScale(k) ==
    /\ edits < MaxEdits
    /\ edits' = edits + 1
    /\ k # crChunk
    /\ crChunk' = k
    /\ crCacheFresh' = FALSE
    /\ local' = [local EXCEPT !.crFresh = FALSE]
    /\ UNCHANGED <<scaleState, waited, ss, crCache, ssCache, ssCacheFresh, k8sVars, brokerVars,
                   queued, pc, faults>>

SyncCR ==
    /\ ~crCacheFresh
    /\ crCache' = crChunk
    /\ crCacheFresh' = TRUE
    /\ queued' = TRUE
    /\ UNCHANGED <<apiVars, ssCache, ssCacheFresh, k8sVars, brokerVars,
                   pc, local, edits, faults>>

SyncStatefulSet ==
    /\ ~ssCacheFresh
    /\ ssCache' = ss
    /\ ssCacheFresh' = TRUE
    /\ queued' = TRUE
    /\ UNCHANGED <<apiVars, crCache, crCacheFresh, k8sVars, brokerVars,
                   pc, local, edits, faults>>

\* Requests the queue gets for no change: the periodic resync of the caches.
Resync ==
    /\ Fault
    /\ ~queued
    /\ queued' = TRUE
    /\ UNCHANGED <<apiVars, cacheVars, k8sVars, brokerVars, pc, local, edits>>

Tick ==
    /\ waited < scaleDownWaitTime
    /\ waited' = waited + 1
    /\ UNCHANGED <<crChunk, scaleState, ss, cacheVars, k8sVars, brokerVars,
                   opVars, edits, faults>>

-----------------------------------------------------------------------------
(* The StatefulSet and Endpoints controllers of Kubernetes and the pods *)

PodStep(p, from, to) ==
    /\ pods[p] = from
    /\ pods' = [pods EXCEPT ![p] = to]
    /\ UNCHANGED <<apiVars, cacheVars, endpoints, brokerVars, opVars, edits>>

CreatePod(p) == p < ss.replicas /\ PodStep(p, "absent", "pending") /\ NoFault

PodStarts(p) == PodStep(p, "pending", "running") /\ NoFault

\* A pod beyond spec.replicas is deleted; one that runs gets its grace period.
DeletePod(p) ==
    /\ p >= ss.replicas
    /\ PodStep(p, "running", "terminating") \/ PodStep(p, "pending", "absent")
    /\ NoFault

PodGone(p) == PodStep(p, "terminating", "absent") /\ NoFault

PodKilled(p) == PodStep(p, "running", "terminating") /\ Fault

PodsIn(phases) == {p \in Pods : pods[p] \in phases}

\* The controller creates and deletes pods before it writes the status, in
\* which replicas counts the pods that exist and currentReplicas the ones not
\* being deleted.
PodsAsSpecified ==
    \A p \in Pods : IF p < ss.replicas THEN pods[p] # "absent"
                   ELSE pods[p] \in {"absent", "terminating"}

UpdateStatus ==
    LET status == [ss EXCEPT
            !.statusReplicas = Cardinality(PodsIn(Phases \ {"absent"})),
            !.currentReplicas = Cardinality(PodsIn({"pending", "running"}))]
    IN  /\ ss.replicas > 0
        /\ PodsAsSpecified
        /\ status # ss
        /\ WriteStatefulSet(status)
        /\ local' = [local EXCEPT !.stoFresh = FALSE]
        /\ UNCHANGED <<crChunk, scaleState, waited, crCache, crCacheFresh, ssCache, k8sVars,
                       brokerVars, queued, pc, edits, faults>>

\* The storage service publishes addresses that are not ready: a pod is
\* listed from its start until it is gone.
SyncEndpoints ==
    /\ endpoints # PodsIn({"running", "terminating"})
    /\ endpoints' = PodsIn({"running", "terminating"})
    /\ UNCHANGED <<apiVars, cacheVars, pods, brokerVars, opVars, edits, faults>>

\* The proxies move the slots and the broker commits the migration.
MigrationDone ==
    /\ target # 0
    /\ FirstPods(slotted) \subseteq PodsIn({"running"})
    /\ slotted' = target
    /\ target' = 0
    /\ UNCHANGED <<apiVars, cacheVars, k8sVars, registered, nodes, opVars, edits, faults>>

-----------------------------------------------------------------------------
Reconcile ==
    \/ ReconcileStart \/ CreateStatefulSet \/ ScaleOut \/ ReconcileMaster
    \/ GetServerProxies \/ StorageAllReady \/ RegisterProxies
    \/ CreateCluster("Cluster1", "Info1") \/ GetClusterInfo("Info1", "Stable")
    \/ WaitStable \/ ScaleNodes \/ RemoveFreeNodes \/ DeregisterProxies
    \/ CreateCluster("Cluster2", "Info2") \/ GetClusterInfo("Info2", "ScaleDown")
    \/ ScaleDownSkip \/ ScaleDownWait \/ ScaleDown \/ SetStable \/ Finish

PodController(p) == CreatePod(p) \/ PodStarts(p) \/ DeletePod(p) \/ PodGone(p)

Faults ==
    \/ Abort \/ Resync
    \/ RollStorage
    \/ \E k \in ChunkNumbers : UserScale(k)
    \/ \E p \in Pods : PodKilled(p)

Next ==
    \/ Reconcile
    \/ Faults
    \/ SyncCR \/ SyncStatefulSet \/ Tick
    \/ UpdateStatus \/ SyncEndpoints \/ MigrationDone
    \/ \E p \in Pods : PodController(p)

\* The work queue is served, caches are delivered, the clock runs, pods start
\* and stop, and a migration whose proxies run ends.  No fault is fair.
Fairness ==
    /\ WF_vars(Reconcile)
    /\ WF_vars(SyncCR)
    /\ WF_vars(SyncStatefulSet)
    /\ WF_vars(Tick)
    /\ WF_vars(UpdateStatus)
    /\ WF_vars(SyncEndpoints)
    /\ WF_vars(MigrationDone)
    /\ \A p \in Pods : WF_vars(PodController(p))

Spec == Init /\ [][Next]_vars
FairSpec == Spec /\ Fairness

-----------------------------------------------------------------------------
\* Slots are never left without a pod by the operator: when it lowers
\* spec.replicas of the StatefulSet, every chunk that holds slots at that
\* moment keeps its pods.
ShrinkOnlyDrained ==
    [][ss'.replicas < ss.replicas => Replicas(slotted) <= ss'.replicas]_vars

\* Reconcile returns without a requeue, and waits for an event it may never
\* get, only when the work is done: with no request queued and no event on its
\* way, the StatefulSet and the slots are what the CR asks for.
RestsOnlyWhenDone ==
    (pc = "Idle" /\ ~queued /\ crCacheFresh /\ ssCacheFresh) =>
        /\ ss.replicas = Replicas(crChunk)
        /\ nodes = crChunk
        /\ slotted = crChunk

Converged ==
    /\ ss.replicas = Replicas(crChunk)
    /\ nodes = crChunk /\ slotted = crChunk /\ target = 0
    /\ PodsIn({"running"}) = FirstPods(crChunk)
    /\ PodsIn({"terminating", "pending"}) = {}

\* A migration waits for a pod that nobody asks for any more: it was started on
\* a status older than the last shrink, and the user went back.
Stranded == target # 0 /\ ss.replicas < Replicas(slotted)

\* Once the user and the faults stop (both are bounded) the cluster gets to the
\* size the CR asks for and stays there: pods, StatefulSet, broker metadata and
\* slots agree, no migration is left.  The one other end is a migration that
\* was stranded, which the broker's refusal of any other one makes permanent
\* until the user asks for the larger size again.
Convergence == <>[]Converged \/ <>[]Stranded
=============================================================================
