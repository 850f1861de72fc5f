--------------------------- MODULE RollingUpdate ---------------------------
(***************************************************************************)
(* How a change of the image, of a component's resources or of the         *)
(* migration limit in the custom resource (CR) gets to the pods:           *)
(* triggerRollingUpdate, which compares the StatefulSets of broker,        *)
(* coordinator and storage with the CR in this order, and the parts of     *)
(* Reconcile it depends on.  The three StatefulSets exist and the chunk    *)
(* number does not change (that is StorageScaling).  Kubernetes is         *)
(* external: it restarts the pods of a StatefulSet with another template   *)
(* one by one, and the operator sees StatefulSets through a cache.         *)
(***************************************************************************)
EXTENDS Integers, FiniteSets, Comparison

CONSTANTS
    brokerNum,       \* broker pods, 2 in the code
    coordinatorNum,  \* coordinator pods, 2 in the code
    storageNum,      \* storage pods: chunkNumber * chunkShardNumber
    Editable,        \* the fields of the CR that the user edits
    MaxEdits,        \* bound on the edits of the CR
    MaxFaults,       \* bound on failed calls, crashes and failing containers
    MaxEvents        \* bound on edits and faults together

Components == {"broker", "coordinator", "storage"}

ASSUME RollingAssumption ==
    /\ brokerNum \in Nat \ {0}
    /\ coordinatorNum \in Nat \ {0}
    /\ storageNum \in Nat \ {0}
    /\ MaxEdits \in Nat
    /\ MaxFaults \in Nat
    /\ MaxEvents \in Nat
    /\ Editable \subseteq Components \cup {"image", "limit"}

podNum == [c \in Components |-> IF c = "broker" THEN brokerNum
                                ELSE IF c = "coordinator" THEN coordinatorNum
                                ELSE storageNum]
Pods(c) == 0..(podNum[c] - 1)
Versions == 0..MaxEdits

VARIABLES
    cr,         \* the CR in the API server
    crCache,    \* the CR in the operator's cache
    set,        \* the StatefulSets in the API server
    setCache,   \* the StatefulSets in the operator's cache
    setFresh,   \* setFresh[c]: the cached one has the current resourceVersion
    pods,       \* template and readiness of every pod
    endpoints,  \* number of addresses in the Endpoints of each component
    queued,     \* a reconcile request waits in the work queue
    pc,         \* next step of the reconcile in progress
    local,      \* its local variables: the CR, the StatefulSets, their freshness
    edits, faults

apiVars == <<cr, set>>
cacheVars == <<crCache, setCache, setFresh>>
k8sVars == <<pods, endpoints>>
opVars == <<queued, pc, local>>
vars == <<apiVars, cacheVars, k8sVars, opVars, edits, faults>>

\* spec.undermoonImage, spec.migrationLimit and the resources and environment
\* of each component, by the number of the edit that set them.
CRs == [image : Versions, limit : Versions, resources : [Components -> Versions]]
Templates == [image : Versions, limit : Versions, resources : Versions]

\* The pod templates made from the CR; only brokers have the migration limit.
CreateBrokerStatefulSet_NoResources(spec) ==    \* mutant: resources are never set
    [image |-> spec.image, limit |-> spec.limit]
CreateBrokerStatefulSet(spec) ==
    [image |-> spec.image, limit |-> spec.limit, resources |-> spec.resources["broker"]]
CreateCoordinatorStatefulSet(spec) ==
    [image |-> spec.image, limit |-> 0, resources |-> spec.resources["coordinator"]]
CreateStorageStatefulSet(spec) ==
    [image |-> spec.image, limit |-> 0, resources |-> spec.resources["storage"]]

Template(c, spec) ==
    IF c = "broker" THEN CreateBrokerStatefulSet(spec)
    ELSE IF c = "coordinator" THEN CreateCoordinatorStatefulSet(spec)
    ELSE CreateStorageStatefulSet(spec)

\* current: pods of the revision the last complete rollout has left.
StatefulSets == [template : Templates, ready : Nat, current : Nat]

Steps == {"Idle", "CreateResources", "ReconcileMaster", "Roll"}
Locals == [cr : CRs, set : [Components -> StatefulSets],
           fresh : [Components -> BOOLEAN], rolling : Components]

FirstCR == [image |-> 0, limit |-> 0, resources |-> [c \in Components |-> 0]]
FirstSet(c) == [template |-> Template(c, FirstCR), ready |-> podNum[c], current |-> podNum[c]]
NoLocals == [cr |-> FirstCR, set |-> [c \in Components |-> FirstSet(c)],
             fresh |-> [c \in Components |-> FALSE], rolling |-> "broker"]

TypeOK ==
    /\ cr \in CRs /\ crCache \in CRs
    /\ set \in [Components -> StatefulSets]
    /\ setCache \in [Components -> StatefulSets]
    /\ setFresh \in [Components -> BOOLEAN]
    /\ \A c \in Components : pods[c] \in [Pods(c) -> [template : Templates, up : BOOLEAN]]
    /\ DOMAIN pods = Components
    /\ endpoints \in [Components -> Nat]
    /\ queued \in BOOLEAN
    /\ pc \in Steps
    /\ local \in Locals
    /\ edits \in 0..MaxEdits
    /\ faults \in 0..MaxFaults

\* A cluster that has been created and is at rest.
Init ==
    /\ cr = FirstCR /\ crCache = FirstCR
    /\ set = [c \in Components |-> FirstSet(c)]
    /\ setCache = set
    /\ setFresh = [c \in Components |-> TRUE]
    /\ pods = [c \in Components |->
                 [p \in Pods(c) |-> [template |-> Template(c, FirstCR), up |-> TRUE]]]
    /\ endpoints = podNum
    /\ queued = FALSE
    /\ pc = "Idle"
    /\ local = NoLocals
    /\ edits = 0
    /\ faults = 0

-----------------------------------------------------------------------------
(* The reconcile in progress *)

\* errRetryReconciliation and every other error requeue the request.
Retry == pc' = "Idle" /\ queued' = TRUE /\ local' = NoLocals

AsIs == UNCHANGED <<apiVars, cacheVars, k8sVars, edits, faults>>

\* The copy of the CR that Reconcile takes from the cache is replaced
\* (ReconcileMaster) before anything here uses it.
ReconcileStart ==
    /\ pc = "Idle" /\ queued
    /\ queued' = FALSE
    /\ pc' = "CreateResources"
    /\ local' = NoLocals
    /\ AsIs

\* createResources finds the StatefulSets in the cache, one after the other:
\* a cache that changes in between is one that changes later, as each kind is
\* delivered with any delay.
CreateResources ==
    /\ pc = "CreateResources"
    /\ pc' = "ReconcileMaster"
    /\ local' = [local EXCEPT !.set = setCache, !.fresh = setFresh]
    /\ UNCHANGED queued
    /\ AsIs

\* brokerAndCoordinatorReady: enough of them to work with.
BrokerAndCoordinatorReady ==
    /\ local.set["broker"].ready >= brokerNum - 1
    /\ endpoints["broker"] >= brokerNum - 1
    /\ local.set["coordinator"].ready >= 1
    /\ endpoints["coordinator"] >= 1

StorageAllReadyAndStable ==
    /\ endpoints["storage"] >= storageNum
    /\ local.set["storage"].current = storageNum

\* With brokers and coordinators ready, setMasterBrokerStatus patches the CR,
\* whose answer replaces the copy; the storage must be ready to go on.  The
\* Endpoints, which also come with any delay, are read just before and after.
ReconcileMaster_IfChanged ==    \* mutant: no patch when the master is the same
    /\ pc = "ReconcileMaster"
    /\ \/ /\ BrokerAndCoordinatorReady /\ StorageAllReadyAndStable
          /\ pc' = "Roll"
          /\ \E spec \in {cr, crCache} : local' = [local EXCEPT !.cr = spec]
          /\ UNCHANGED queued
       \/ ~(BrokerAndCoordinatorReady /\ StorageAllReadyAndStable) /\ Retry
    /\ AsIs
ReconcileMaster ==
    /\ pc = "ReconcileMaster"
    /\ \/ /\ BrokerAndCoordinatorReady /\ StorageAllReadyAndStable
          /\ pc' = "Roll"
          /\ local' = [local EXCEPT !.cr = cr]
          /\ UNCHANGED queued
       \/ ~(BrokerAndCoordinatorReady /\ StorageAllReadyAndStable) /\ Retry
    /\ AsIs

\* The migration limit is not compared.
BrokerStatefulSetChanged(spec, template) ==
    spec.image # template.image \/ spec.resources["broker"] # template.resources
CoordinatorStatefulSetChanged(spec, template) ==
    spec.image # template.image \/ spec.resources["coordinator"] # template.resources
StorageStatefulSetChanged_NoImage(spec, template) ==    \* mutant: image not compared
    spec.resources["storage"] # template.resources
StorageStatefulSetChanged(spec, template) ==
    spec.image # template.image \/ spec.resources["storage"] # template.resources

NeedRollingUpdate(c, spec, template) ==
    IF c = "broker" THEN BrokerStatefulSetChanged(spec, template)
    ELSE IF c = "coordinator" THEN CoordinatorStatefulSetChanged(spec, template)
    ELSE StorageStatefulSetChanged(spec, template)

BrokerAllReady ==
    local.set["broker"].ready = brokerNum /\ endpoints["broker"] >= brokerNum
CoordinatorAllReady ==
    local.set["coordinator"].ready >= coordinatorNum /\ endpoints["coordinator"] >= coordinatorNum

AllReady(c) ==
    IF c = "broker" THEN BrokerAllReady
    ELSE IF c = "coordinator" THEN CoordinatorAllReady
    ELSE StorageAllReadyAndStable

\* The component triggerRollingUpdate looks at after c.
After_SkipsCoordinator(c) == "storage"    \* mutant: storage before coordinator
After(c) == IF c = "broker" THEN "coordinator" ELSE "storage"

\* updateStatefulSetHelper replaces the whole spec; the resourceVersion is the
\* one the operator read.  Whether it succeeds or conflicts, the reconcile is
\* tried again.
TriggerRollingUpdate ==
    LET c == local.rolling
        object == [local.set[c] EXCEPT !.template = Template(c, local.cr)]
    IN  /\ pc = "Roll"
        /\ NeedRollingUpdate(c, local.cr, local.set[c].template)
        /\ IF local.fresh[c]
           THEN /\ set' = [set EXCEPT ![c] = object]
                /\ setFresh' = [setFresh EXCEPT ![c] = FALSE]
           ELSE UNCHANGED <<set, setFresh>>
        /\ Retry
        /\ UNCHANGED <<cr, crCache, setCache, k8sVars, edits, faults>>

\* Mutant: a component that is not ready ends the reconcile.
NextComponent_NoRetry ==
    LET c == local.rolling
    IN  /\ pc = "Roll"
        /\ ~NeedRollingUpdate(c, local.cr, local.set[c].template)
        /\ \/ /\ AllReady(c)
              /\ c # "storage"
              /\ local' = [local EXCEPT !.rolling = After(c)]
              /\ UNCHANGED <<queued, pc>>
           \/ /\ AllReady(c) => c = "storage"
              /\ pc' = "Idle"
              /\ local' = NoLocals
              /\ UNCHANGED queued
        /\ AsIs

\* A component that has not changed must be ready before the next one is
\* looked at; after the last one the reconcile is done.
NextComponent ==
    LET c == local.rolling
    IN  /\ pc = "Roll"
        /\ ~NeedRollingUpdate(c, local.cr, local.set[c].template)
        /\ \/ /\ AllReady(c)
              /\ c # "storage"
              /\ local' = [local EXCEPT !.rolling = After(c)]
              /\ UNCHANGED <<queued, pc>>
           \/ /\ AllReady(c)
              /\ c = "storage"
              /\ pc' = "Idle"
              /\ local' = NoLocals
              /\ UNCHANGED queued
           \/ ~AllReady(c) /\ Retry
        /\ AsIs

Event == edits + faults < MaxEvents

Fault == Event /\ faults < MaxFaults /\ faults' = faults + 1

\* A call fails, or the operator crashes and its successor lists every CR.
Abort ==
    /\ pc # "Idle"
    /\ Fault
    /\ Retry
    /\ UNCHANGED <<apiVars, cacheVars, k8sVars, edits>>

-----------------------------------------------------------------------------
(* The user, the informers, Kubernetes *)

UserEdit(spec) ==
    /\ Event
    /\ edits < MaxEdits
    /\ edits' = edits + 1
    /\ cr' = spec
    /\ UNCHANGED <<set, cacheVars, k8sVars, opVars, faults>>

SyncCR ==
    /\ crCache # cr
    /\ crCache' = cr
    /\ queued' = TRUE
    /\ UNCHANGED <<apiVars, setCache, setFresh, k8sVars, pc, local, edits, faults>>

SyncStatefulSet(c) ==
    /\ ~setFresh[c]
    /\ setCache' = [setCache EXCEPT ![c] = set[c]]
    /\ setFresh' = [setFresh EXCEPT ![c] = TRUE]
    /\ queued' = TRUE
    /\ UNCHANGED <<apiVars, crCache, k8sVars, pc, local, edits, faults>>

Up(c) == {p \in Pods(c) : pods[c][p].up}
Outdated(c) == {p \in Pods(c) : pods[c][p].template # set[c].template}

\* Of the status the operator reads how many brokers and coordinators are
\* ready and how many storage pods have the current revision: the other
\* number is left alone.
Status(c, object, ready, current) ==
    IF c = "storage" THEN [object EXCEPT !.current = current]
    ELSE [object EXCEPT !.ready = ready]

\* A pod of c changes, and with it the status of the StatefulSet: the pods
\* that are ready, and the pods of the revision that is being replaced, which
\* becomes the new revision when all pods have it and are ready.
PodStep(c, p, pod, current) ==
    /\ pods' = [pods EXCEPT ![c][p] = pod]
    /\ set' = [set EXCEPT ![c] = Status(c, set[c], Cardinality(Up(c)'), current)]
    /\ setFresh' = [setFresh EXCEPT ![c] = FALSE]
    /\ local' = [local EXCEPT !.fresh[c] = FALSE]
    /\ UNCHANGED <<cr, crCache, setCache, endpoints, queued, pc, edits>>

\* The last outdated pod is replaced once all pods of the component are up.
RestartPod(c, p) ==
    /\ Up(c) = Pods(c)
    /\ p \in Outdated(c)
    /\ \A q \in Outdated(c) : q <= p
    /\ PodStep(c, p, [template |-> set[c].template, up |-> FALSE],
               Cardinality(Outdated(c) \ {p}))
    /\ UNCHANGED faults

PodStarts(c, p) ==
    /\ ~pods[c][p].up
    /\ PodStep(c, p, [pods[c][p] EXCEPT !.up = TRUE],
               IF Outdated(c) = {} /\ Up(c) = Pods(c) \ {p}
               THEN podNum[c] ELSE set[c].current)
    /\ UNCHANGED faults

PodFails(c, p) ==
    /\ pods[c][p].up
    /\ Fault
    /\ PodStep(c, p, [pods[c][p] EXCEPT !.up = FALSE], set[c].current)

\* The storage service also publishes pods that run and are not ready yet; here
\* such a pod is counted until the change of its readiness is delivered, and
\* the operator may have to wait longer.  No proof depends on these numbers.
SyncEndpoints(c) ==
    /\ endpoints[c] # Cardinality(Up(c))
    /\ endpoints' = [endpoints EXCEPT ![c] = Cardinality(Up(c))]
    /\ UNCHANGED <<apiVars, cacheVars, pods, opVars, edits, faults>>

-----------------------------------------------------------------------------
Reconcile ==
    \/ ReconcileStart \/ CreateResources \/ ReconcileMaster
    \/ TriggerRollingUpdate \/ NextComponent

\* An edit gives the next version to one field: the image, the limit, or the
\* resources of a component.
Edited(field) ==
    IF field = "image" THEN [cr EXCEPT !.image = edits + 1]
    ELSE IF field = "limit" THEN [cr EXCEPT !.limit = edits + 1]
    ELSE [cr EXCEPT !.resources[field] = edits + 1]

Edit == \E field \in Editable : UserEdit(Edited(field))

Kubernetes(c) ==
    \/ SyncStatefulSet(c) \/ SyncEndpoints(c)
    \/ \E p \in Pods(c) : RestartPod(c, p) \/ PodStarts(c, p)

Next ==
    \/ Reconcile \/ Abort \/ Edit \/ SyncCR
    \/ \E c \in Components : Kubernetes(c) \/ \E p \in Pods(c) : PodFails(c, p)

Spec == Init /\ [][Next]_vars

\* The work queue is served; caches are delivered, pods restart and start in
\* whatever order, as long as this does not stop altogether.
Fairness ==
    /\ WF_vars(Reconcile)
    /\ WF_vars(SyncCR \/ \E c \in Components : Kubernetes(c))

FairSpec == Spec /\ Fairness

-----------------------------------------------------------------------------
\* An image reaches the storage StatefulSet only after the coordinator's, and
\* the coordinator's only after the broker's, although the operator compares
\* copies of StatefulSets that may be long out of date.
UpgradeOrder ==
    /\ set["storage"].template.image <= set["coordinator"].template.image
    /\ set["coordinator"].template.image <= set["broker"].template.image

\* The images of the StatefulSets, as the versions of an ordered upgrade.
Upgrades == INSTANCE Upgrade WITH
    Parts <- Components,
    First <- "broker",
    Previous <- [c \in Components \ {"broker"} |->
                   IF c = "coordinator" THEN "broker" ELSE "coordinator"],
    want <- cr.image,
    have <- [c \in Components |-> set[c].template.image]

\* triggerRollingUpdate gives one image at a time to one component at a time,
\* never one that its predecessor does not have yet and never an earlier one
\* than the component has: edits made during an update, conflicts, retries and
\* a restarted operator bring no image back.
OrderedUpgrade == Upgrades!Spec

\* The operator goes to sleep only when every StatefulSet has the image and
\* resources of the CR, or an event that wakes it is on its way.
RestsOnlyWhenUpdated ==
    (pc = "Idle" /\ ~queued /\ crCache = cr /\ \A c \in Components : setFresh[c]) =>
        \A c \in Components : ~NeedRollingUpdate(c, cr, set[c].template)

Updated(c) ==
    \A p \in Pods(c) : /\ pods[c][p].up
                    /\ pods[c][p].template.image = cr.image
                    /\ pods[c][p].template.resources = cr.resources[c]

\* The last edit of image and resources gets to every pod in the end, through
\* stale copies, conflicts, failed calls and pods, and also when it is made
\* while the pods are still being restarted for an earlier edit.
RollingUpdateCompletes == <>[](\A c \in Components : Updated(c))

\* "Force retry at the first time to avoid updating all components at the same
\* time": there is always a component whose pods need no restart.
NotAllAtTheSameTime == \E c \in Components : Outdated(c) = {}
=============================================================================
