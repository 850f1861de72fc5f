---------------------------- MODULE BrokerMaster ----------------------------
(***************************************************************************)
(* How the operator keeps one of the two brokers the master: in every      *)
(* reconcile it asks the brokers who has replicas, elects one of them      *)
(* (reconcileMaster), tells the coordinators (configSetBroker) and sets    *)
(* the replica lists of the brokers (setBrokerReplicas), twice.            *)
(*                                                                         *)
(* A broker is master when its list of replicas is not empty; the list and *)
(* the address a coordinator uses are kept in memory only.  Pods crash and *)
(* restart, or are out of reach for a while and keep what they know.       *)
(* Brokers, coordinators and Kubernetes are external.  Which of the rest   *)
(* of Reconcile requeues a request is left open (ReconcileRest).           *)
(***************************************************************************)
EXTENDS Integers, FiniteSets

CONSTANTS
    Brokers,       \* brokerNum = 2 in the code
    Coordinators,  \* coordinatorNum = 2 in the code
    None,          \* the empty broker address
    MaxEpoch,      \* bound on the epochs brokers answer
    MaxFaults      \* bound on failed calls, crashes and pods out of reach

brokerNum == 2

ASSUME BrokerAssumption ==
    /\ \E a, b \in Brokers : a # b /\ Brokers = {a, b}
    /\ None \notin Brokers
    /\ Brokers \cap Coordinators = {}
    /\ MaxEpoch \in Nat
    /\ MaxFaults \in Nat

coordinatorNum == Cardinality(Coordinators)

VARIABLES
    replicas,   \* the replica list of each broker
    broker,     \* the broker address of each coordinator
    up,         \* the pods that run and can be reached
    status,     \* ReadyReplicas of the two StatefulSets in the API server
    cache,      \* the same in the operator's informer cache
    endpoints,  \* the pods in the Endpoints of the two services
    queued,     \* a reconcile request waits in the work queue
    pc,         \* next step of the reconcile in progress
    local,      \* its local variables
    faults      \* faults so far

podVars == <<replicas, broker>>
k8sVars == <<up, status, cache, endpoints>>
opVars == <<queued, pc, local>>
vars == <<podVars, k8sVars, opVars, faults>>

Pods == Brokers \cup Coordinators
ReadyReplicas(pods) == [brokers |-> Cardinality(pods \cap Brokers),
                        coordinators |-> Cardinality(pods \cap Coordinators)]
Statuses == {ReadyReplicas(pods) : pods \in SUBSET Pods}

Steps == {"Idle", "Ready", "Endpoints", "GetReplicas", "GetEpoch", "SetStatus",
          "ConfigSet", "SetMaster", "Clear", "Rest", "AllReady"}

\* ready: the copies of the StatefulSets; addresses: the brokers found in the
\* Endpoints; todo: the pods the current loop has still to call; masters: the
\* brokers that answered with replicas; master: the elected one, or the best
\* so far, with maxEpoch; err: the error of the last call of the loop; again:
\* this is the second reconcileMeta.
Locals == [ready : Statuses, addresses : SUBSET Brokers, todo : SUBSET Pods,
           masters : SUBSET Brokers, master : Brokers \cup {None},
           maxEpoch : 0..MaxEpoch, err : BOOLEAN, again : BOOLEAN]
NoLocals == [ready |-> ReadyReplicas({}), addresses |-> {}, todo |-> {},
             masters |-> {}, master |-> None,
             maxEpoch |-> 0, err |-> FALSE, again |-> FALSE]

TypeOK ==
    /\ replicas \in [Brokers -> SUBSET Brokers]
    /\ \A b \in Brokers : b \notin replicas[b]
    /\ broker \in [Coordinators -> Brokers \cup {None}]
    /\ up \in SUBSET Pods
    /\ status \in Statuses
    /\ cache \in Statuses
    /\ endpoints \in SUBSET Pods
    /\ queued \in BOOLEAN
    /\ pc \in Steps
    /\ local \in Locals
    /\ faults \in 0..MaxFaults

\* Brokers start without replicas, coordinators without a broker.
Init ==
    /\ replicas = [b \in Brokers |-> {}]
    /\ broker = [c \in Coordinators |-> None]
    /\ up = Pods
    /\ status = ReadyReplicas({})
    /\ cache = ReadyReplicas({})
    /\ endpoints = {}
    /\ queued = TRUE
    /\ pc = "Idle"
    /\ local = NoLocals
    /\ faults = 0

-----------------------------------------------------------------------------
(* The reconcile in progress *)

\* Every error, and a reconcile that asks for it, requeues the request.
Retry == pc' = "Idle" /\ queued' = TRUE /\ local' = NoLocals

Proceed(step, locals) == pc' = step /\ local' = locals /\ UNCHANGED queued

Fault == faults < MaxFaults /\ faults' = faults + 1
NoFault == UNCHANGED faults

\* A call of a pod fails: it is down, or it fails for another reason.
CallFails(p) == IF p \in up THEN Fault ELSE NoFault

ReconcileStart ==
    /\ pc = "Idle" /\ queued
    /\ queued' = FALSE
    /\ pc' = "Ready"
    /\ local' = [NoLocals EXCEPT !.ready = cache]
    /\ NoFault /\ UNCHANGED <<podVars, k8sVars>>

\* getEndpoints: the pods of a service that are ready, as far as is known.
GetEndpoints(service) == endpoints \cap service

\* One of the two brokers is enough to go on.
BrokerReady_All ==    \* mutant: all brokers are needed
    /\ local.ready.brokers >= brokerNum
    /\ Cardinality(GetEndpoints(Brokers)) >= brokerNum
BrokerReady ==
    /\ local.ready.brokers >= brokerNum - 1
    /\ Cardinality(GetEndpoints(Brokers)) >= brokerNum - 1
CoordinatorReady ==
    /\ local.ready.coordinators >= 1
    /\ Cardinality(GetEndpoints(Coordinators)) >= 1

BrokerAndCoordinatorReady ==
    /\ pc = "Ready"
    /\ \/ BrokerReady /\ CoordinatorReady /\ Proceed("Endpoints", local)
       \/ ~(BrokerReady /\ CoordinatorReady) /\ Retry
    /\ NoFault /\ UNCHANGED <<podVars, k8sVars>>

\* reconcileMaster lists the brokers; an empty list is an error.
GetBrokerEndpoints ==
    /\ pc = "Endpoints"
    /\ LET addresses == GetEndpoints(Brokers) IN
         \/ /\ addresses # {}
            /\ Proceed("GetReplicas",
                       [local EXCEPT !.addresses = addresses, !.todo = addresses])
         \/ addresses = {} /\ Retry
    /\ NoFault /\ UNCHANGED <<podVars, k8sVars>>

\* getCurrentMaster, first loop: a broker that does not answer is skipped.
GetReplicaAddresses(b) ==
    /\ pc = "GetReplicas" /\ b \in local.todo
    /\ \/ /\ b \in up
          /\ Proceed("GetReplicas", [local EXCEPT
                 !.todo = local.todo \ {b},
                 !.masters = IF replicas[b] # {} THEN local.masters \cup {b} ELSE local.masters])
          /\ NoFault
       \/ /\ CallFails(b)
          /\ Proceed("GetReplicas", [local EXCEPT !.todo = local.todo \ {b}])
    /\ UNCHANGED <<podVars, k8sVars>>

\* A single master is taken; otherwise the epochs of the masters, or of all
\* brokers when there is none, decide.
GetCurrentMaster ==
    /\ pc = "GetReplicas" /\ local.todo = {}
    /\ \/ \E m \in Brokers : /\ local.masters = {m}
                             /\ Proceed("SetStatus", [local EXCEPT !.master = m])
       \/ /\ local.masters = {}
          /\ Proceed("GetEpoch", [local EXCEPT !.todo = local.addresses])
       \/ /\ Cardinality(local.masters) > 1
          /\ Proceed("GetEpoch", [local EXCEPT !.todo = local.masters])
    /\ NoFault /\ UNCHANGED <<podVars, k8sVars>>

\* Second loop: the highest epoch, the first one of equals.
GetEpoch(b) ==
    /\ pc = "GetEpoch" /\ b \in local.todo
    /\ \/ /\ b \in up
          /\ \E epoch \in 0..MaxEpoch :
               Proceed("GetEpoch",
                 IF local.master = None \/ epoch > local.maxEpoch
                 THEN [local EXCEPT !.todo = local.todo \ {b}, !.master = b, !.maxEpoch = epoch]
                 ELSE [local EXCEPT !.todo = local.todo \ {b}])
          /\ NoFault
       \/ /\ CallFails(b)
          /\ Proceed("GetEpoch", [local EXCEPT !.todo = local.todo \ {b}])
    /\ UNCHANGED <<podVars, k8sVars>>

ElectNewest ==
    /\ pc = "GetEpoch" /\ local.todo = {}
    /\ Proceed("SetStatus", local)
    /\ NoFault /\ UNCHANGED <<podVars, k8sVars>>

\* The schema of the CR refuses an empty masterBrokerAddress, which is what
\* no answer at all leads to.  configSetBroker then lists the coordinators.
SetMasterBrokerStatus ==
    /\ pc = "SetStatus"
    /\ \/ local.master = None /\ Retry
       \/ /\ local.master # None
          /\ Proceed("ConfigSet", [local EXCEPT !.todo = GetEndpoints(Coordinators)])
    /\ NoFault /\ UNCHANGED <<podVars, k8sVars>>

\* CONFIG SET brokers of a coordinator.
SetBrokerAddress(c, address) == broker' = [broker EXCEPT ![c] = address]

\* configSetBroker: the error of a coordinator is overwritten by the result of
\* the next one.
ConfigSetBroker_Once(c) ==    \* mutant: only a coordinator without a broker is set
    /\ pc = "ConfigSet" /\ c \in local.todo
    /\ Proceed("ConfigSet", [local EXCEPT !.todo = local.todo \ {c}, !.err = c \notin up])
    /\ broker' = IF c \in up /\ broker[c] = None
                 THEN [broker EXCEPT ![c] = local.master] ELSE broker
    /\ NoFault /\ UNCHANGED <<replicas, k8sVars>>

ConfigSetBroker(c) ==
    /\ pc = "ConfigSet" /\ c \in local.todo
    /\ \/ /\ c \in up
          /\ SetBrokerAddress(c, local.master)
          /\ Proceed("ConfigSet", [local EXCEPT !.todo = local.todo \ {c}, !.err = FALSE])
          /\ NoFault
       \/ /\ CallFails(c)
          /\ UNCHANGED broker
          /\ Proceed("ConfigSet", [local EXCEPT !.todo = local.todo \ {c}, !.err = TRUE])
    /\ UNCHANGED <<replicas, k8sVars>>

ConfigSetDone ==
    /\ pc = "ConfigSet" /\ local.todo = {}
    /\ \/ ~local.err /\ Proceed("SetMaster", local)
       \/ local.err /\ Retry
    /\ NoFault /\ UNCHANGED <<podVars, k8sVars>>

\* The replicas reconcileMaster returns.
ReplicaAddresses_All == local.addresses    \* mutant: the master is one of them
ReplicaAddresses == local.addresses \ {local.master}

\* PUT config of a broker.
PutConfig(b, addresses) == replicas' = [replicas EXCEPT ![b] = addresses]

\* setBrokerReplicas: first the master gets its replicas ...
SetBrokerReplicas ==
    /\ pc = "SetMaster"
    /\ \/ /\ local.master \in up
          /\ PutConfig(local.master, ReplicaAddresses)
          /\ Proceed("Clear", [local EXCEPT !.todo = ReplicaAddresses])
          /\ NoFault
       \/ /\ CallFails(local.master)
          /\ UNCHANGED replicas
          /\ Retry
    /\ UNCHANGED <<broker, k8sVars>>

\* ... then the others lose theirs; the first error ends the reconcile.
ClearReplicas_SkipsErrors(b) ==    \* mutant: an error is logged only
    /\ pc = "Clear" /\ b \in local.todo
    /\ Proceed("Clear", [local EXCEPT !.todo = local.todo \ {b}])
    /\ replicas' = IF b \in up THEN [replicas EXCEPT ![b] = {}] ELSE replicas
    /\ NoFault /\ UNCHANGED <<broker, k8sVars>>

ClearReplicas(b) ==
    /\ pc = "Clear" /\ b \in local.todo
    /\ \/ /\ b \in up
          /\ PutConfig(b, {})
          /\ Proceed("Clear", [local EXCEPT !.todo = local.todo \ {b}])
          /\ NoFault
       \/ /\ CallFails(b)
          /\ UNCHANGED replicas
          /\ Retry
    /\ UNCHANGED <<broker, k8sVars>>

SetBrokerReplicasDone ==
    /\ pc = "Clear" /\ local.todo = {}
    /\ \/ local.again /\ Proceed("AllReady", local)
       \/ ~local.again /\ Proceed("Rest", local)
    /\ NoFault /\ UNCHANGED <<podVars, k8sVars>>

\* Proxies, cluster and slots are reconciled with the master, which may ask
\* for a retry; then reconcileMeta is called again.
ReconcileRest ==
    /\ pc = "Rest"
    /\ \/ Proceed("SetMaster", [local EXCEPT !.again = TRUE]) /\ NoFault
       \/ Retry /\ Fault
    /\ UNCHANGED <<podVars, k8sVars>>

\* triggerRollingUpdate when no template has changed: without a retry the
\* operator sleeps until the next event.
BrokerAllReady ==
    /\ local.ready.brokers = brokerNum
    /\ Cardinality(GetEndpoints(Brokers)) >= brokerNum
CoordinatorAllReady ==
    /\ local.ready.coordinators >= coordinatorNum
    /\ Cardinality(GetEndpoints(Coordinators)) >= coordinatorNum

Finish ==
    /\ pc = "AllReady"
    /\ \/ BrokerAllReady /\ CoordinatorAllReady /\ Proceed("Idle", NoLocals)
       \/ ~(BrokerAllReady /\ CoordinatorAllReady) /\ Retry
    /\ NoFault /\ UNCHANGED <<podVars, k8sVars>>

\* The operator crashes and its successor lists every CR, or a call took
\* effect but its answer is lost: the step after it is never made.
Abort ==
    /\ pc # "Idle"
    /\ Fault
    /\ Retry
    /\ UNCHANGED <<podVars, k8sVars>>

-----------------------------------------------------------------------------
(* Pods and Kubernetes *)

PodDown(p) ==
    /\ p \in up
    /\ Fault
    /\ up' = up \ {p}
    /\ UNCHANGED <<podVars, status, cache, endpoints, opVars>>

\* A pod that comes back has restarted and lost its memory, or was only out
\* of reach.
PodBack(p) ==
    /\ p \notin up
    /\ up' = up \cup {p}
    /\ \/ UNCHANGED podVars
       \/ /\ p \in Brokers
          /\ replicas' = [replicas EXCEPT ![p] = {}]
          /\ UNCHANGED broker
       \/ /\ p \in Coordinators
          /\ broker' = [broker EXCEPT ![p] = None]
          /\ UNCHANGED replicas
    /\ UNCHANGED <<status, cache, endpoints, opVars, faults>>

\* A pod that is down and back in between is not noticed.
UpdateStatus ==
    /\ status # ReadyReplicas(up)
    /\ status' = ReadyReplicas(up)
    /\ UNCHANGED <<podVars, up, cache, endpoints, opVars, faults>>

SyncStatefulSet ==
    /\ cache # status
    /\ cache' = status
    /\ queued' = TRUE
    /\ UNCHANGED <<podVars, up, status, endpoints, pc, local, faults>>

SyncEndpoints ==
    /\ endpoints # up
    /\ endpoints' = up
    /\ UNCHANGED <<podVars, up, status, cache, opVars, faults>>

\* The caches are listed again from time to time, which queues every CR.
Resync ==
    /\ ~queued
    /\ queued' = TRUE
    /\ UNCHANGED <<podVars, k8sVars, pc, local, faults>>

-----------------------------------------------------------------------------
Reconcile ==
    \/ ReconcileStart \/ BrokerAndCoordinatorReady \/ GetBrokerEndpoints
    \/ GetCurrentMaster \/ ElectNewest \/ SetMasterBrokerStatus \/ ConfigSetDone
    \/ SetBrokerReplicas \/ SetBrokerReplicasDone \/ ReconcileRest \/ Finish
    \/ \E b \in Brokers : GetReplicaAddresses(b) \/ GetEpoch(b) \/ ClearReplicas(b)
    \/ \E c \in Coordinators : ConfigSetBroker(c)

Next ==
    \/ Reconcile \/ Abort
    \/ UpdateStatus \/ SyncStatefulSet \/ SyncEndpoints \/ Resync
    \/ \E p \in Pods : PodDown(p) \/ PodBack(p)

Spec == Init /\ [][Next]_vars

\* The work queue is served, statuses, caches and Endpoints are delivered, and
\* the resync comes.  A pod that is down may stay down.
Fairness ==
    /\ WF_vars(Reconcile)
    /\ WF_vars(UpdateStatus)
    /\ WF_vars(SyncStatefulSet)
    /\ WF_vars(SyncEndpoints)
    /\ WF_vars(Resync)

FairSpec == Spec /\ Fairness

-----------------------------------------------------------------------------
\* Two brokers take themselves for the master only while the operator works on
\* it: whatever calls fail and whoever is out of reach during an election, the
\* operator does not go to sleep on two masters.
SplitBrainIsTemporary ==
    (pc = "Idle" /\ ~queued) =>
        \A a, b \in Brokers : replicas[a] # {} /\ replicas[b] # {} => a = b

Agreed(m) ==
    /\ replicas = [b \in Brokers |-> IF b = m THEN Brokers \ {m} ELSE {}]
    /\ \A c \in Coordinators : broker[c] = m

\* When all pods stay up, the brokers and all coordinators agree on one master
\* for good, whatever had been lost, half done or missed by the events before.
MasterAgreed == <>[](up = Pods) => \E m \in Brokers : <>[]Agreed(m)

\* One broker is enough: when the other one stays away, every coordinator ends
\* up with the one that is left.
FailoverCompletes ==
    \A b \in Brokers : <>[](up = Coordinators \cup {b}) =>
                          <>[](\A c \in Coordinators : broker[c] = b)
=============================================================================
