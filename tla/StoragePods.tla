---------------------------- MODULE StoragePods ----------------------------
(***************************************************************************)
(* The storage pods of one cluster through rolling updates and the failure *)
(* of a node: the scripts that the operator puts into the pods (redis      *)
(* readiness probe, preStop hook of the server proxy), on the nodes that   *)
(* the scheduler plugin allows.  External are the StatefulSet controller,  *)
(* which replaces outdated pods from the last one down, the broker, which  *)
(* moves masters and tells the proxies their roles, and the replication    *)
(* of Redis.  A replication offset stands for the data of a copy: a copy   *)
(* that has caught up stays within the threshold as long as its master     *)
(* lives.  Two history variables record what the scripts do not guard      *)
(* against: the lag that the probe accepts, which a handover may cost, and *)
(* the chunks that met an event no script provides for.                    *)
(***************************************************************************)
EXTENDS Scheduler

CONSTANTS
    serverProxyShutdownTime,  \* tries of the preStop hook, 30 in the code
    OFFSET_THRESHOLD,         \* of the redis readiness probe, 10000 in the code
    FullOffset,               \* offset of a master
    MaxRolls, MaxFaults       \* bounds on rolling updates and on faults

ASSUME PodsAssumption ==
    /\ ChunkNumber \in Nat \ {0}
    /\ NoNode \notin Nodes
    /\ FullOffset \in Nat \ {0}
    /\ OFFSET_THRESHOLD \in 1..FullOffset
    /\ serverProxyShutdownTime \in Nat
    /\ MaxRolls \in Nat
    /\ MaxFaults \in Nat

VARIABLES
    phase,    \* of every pod
    version,  \* of its template
    setVersion,  \* template of the StatefulSet
    rolling,  \* the last update has not been completed
    isReady,  \* the server proxy has got UMCTL SETCLUSTER and set the roles
    offset,   \* replication offset of both Redis of a pod
    tag,      \* their TAG_FILE exists
    master,   \* the pod with the master of each shard of a chunk, in the broker
    tries,    \* i of the preStop hook
    faults,
    lost,     \* history: what the changes of a shard's master may have cost
    exposed   \* history: chunks that met what the scripts do not guard against

podVars == <<phase, version, isReady, offset, tag, tries>>
history == <<lost, exposed>>
vars == <<schedulerVars, podVars, setVersion, rolling, master, faults, history>>

Chunks == 0..(ChunkNumber - 1)
Shards == {1, 2}     \* redis-1 and redis-2
Phases == {"pending", "running", "preStop", "shutdown"}

TypeOK ==
    /\ node \in [Pods -> Nodes \cup {NoNode}]
    /\ cache \in [Pods -> Nodes \cup {NoNode}]
    /\ unseen \subseteq Pods
    /\ phase \in [Pods -> Phases]
    /\ version \in [Pods -> 0..MaxRolls]
    /\ setVersion \in 0..MaxRolls
    /\ rolling \in BOOLEAN
    /\ isReady \in [Pods -> BOOLEAN]
    /\ offset \in [Pods -> [Shards -> 0..FullOffset]]
    /\ tag \in [Pods -> [Shards -> BOOLEAN]]
    /\ master \in [Chunks -> [Shards -> Pods]]
    /\ \A c \in Chunks, s \in Shards : Chunk(master[c][s]) = c
    /\ tries \in [Pods -> 0..serverProxyShutdownTime]
    /\ faults \in 0..MaxFaults
    /\ lost \in [Chunks -> [Shards -> Nat]]
    /\ exposed \subseteq Chunks

MasterOf(p, s) == master[Chunk(p)][s]

\* The StatefulSet has just been created, all pods at once.  What is in a new
\* master, nothing, is all the data there is; a Redis that is not one starts
\* as a replica of port 0, with offset 0.
Init ==
    /\ node = [p \in Pods |-> NoNode]
    /\ cache = node
    /\ unseen = {}
    /\ phase = [p \in Pods |-> "pending"]
    /\ version = [p \in Pods |-> 0]
    /\ setVersion = 0
    /\ rolling = FALSE
    /\ isReady = [p \in Pods |-> FALSE]
    /\ tag = [p \in Pods |-> [s \in Shards |-> FALSE]]
    /\ master = [c \in Chunks |-> [s \in Shards |-> 2 * c + s - 1]]
    /\ offset = [p \in Pods |-> [s \in Shards |-> IF MasterOf(p, s) = p THEN FullOffset ELSE 0]]
    /\ tries = [p \in Pods |-> 0]
    /\ faults = 0
    /\ lost = [c \in Chunks |-> [s \in Shards |-> 0]]
    /\ exposed = {}

Ready_ProxyOnly(p) ==   \* mutant: no probe on the Redis containers
    phase[p] = "running" /\ isReady[p]
Ready(p) == phase[p] = "running" /\ isReady[p] /\ \A s \in Shards : tag[p][s]
AllUpdated == \A p \in Pods : version[p] = setVersion /\ Ready(p)

-----------------------------------------------------------------------------
(* Kubernetes and the scripts in the pods *)

SchedulerStep ==
    /\ \/ \E p \in Pods, n \in Nodes : Schedule(p, n)
       \/ \E p \in Pods : Bind(p) \/ ObserveDeletion(p)
    /\ UNCHANGED <<podVars, setVersion, rolling, master, faults, history>>

\* The masters of a pod went down with it and have not been moved.
LostMasters(p) == \E s \in Shards : MasterOf(p, s) = p /\ offset[p][s] = 0

\* A pod that comes back before the broker has moved its masters is an empty
\* master, and its replicas follow it.
PodStarts(p) ==
    /\ phase[p] = "pending" /\ node[p] # NoNode
    /\ phase' = [phase EXCEPT ![p] = "running"]
    /\ exposed' = exposed \cup (IF LostMasters(p) THEN {Chunk(p)} ELSE {})
    /\ UNCHANGED <<schedulerVars, version, isReady, offset, tag, tries, setVersion,
                   rolling, master, faults, lost>>

\* genServerProxyReadinessProbe: UMCTL READY answers 1 after UMCTL SETCLUSTER.
SetCluster(p) ==
    /\ phase[p] = "running" /\ ~isReady[p]
    /\ isReady' = [isReady EXCEPT ![p] = TRUE]
    /\ UNCHANGED <<schedulerVars, phase, version, offset, tag, tries, setVersion,
                   rolling, master, faults, history>>

\* A Redis with a role answers INFO REPLICATION until its pod is gone.
Serves(p) == phase[p] # "pending" /\ isReady[p]

\* A replica copies what its master has, little or much.
Replicate(p, s) ==
    LET q == MasterOf(p, s)
    IN  /\ q # p /\ Serves(p) /\ Serves(q)
        /\ offset[p][s] # offset[q][s]
        /\ offset' = [offset EXCEPT ![p][s] = IF @ < offset[q][s] THEN @ + 1 ELSE offset[q][s]]
        /\ UNCHANGED <<schedulerVars, phase, version, isReady, tag, tries, setVersion,
                       rolling, master, faults, history>>

\* A master without data pings its replicas, which counts in its offset.
Ping(p, s) ==
    /\ MasterOf(p, s) = p /\ offset[p][s] = 0
    /\ Serves(p) /\ Serves(Peer(p))
    /\ offset' = [offset EXCEPT ![p][s] = 1]
    /\ UNCHANGED <<schedulerVars, phase, version, isReady, tag, tries, setVersion,
                   rolling, master, faults, history>>

\* redisReadinessScript of a replica.  Until the proxy has set a role the
\* master_port is 0.
ReplicationDone_AnyLag(p, s) ==   \* mutant: any connected replica will do
    LET q == MasterOf(p, s)
    IN  isReady[p] /\ offset[p][s] # 0 /\ Serves(q) /\ offset[q][s] > 0
ReplicationDone(p, s) ==
    LET q == MasterOf(p, s)
        lag == offset[q][s] - offset[p][s]
    IN  /\ offset[p][s] # 0
        /\ isReady[p]
        /\ Serves(q) /\ offset[q][s] > 0
        /\ lag >= 0 /\ lag < OFFSET_THRESHOLD

ProbePasses_ReplicaOnly(p, s) ==   \* mutant: a master is probed as a replica
    MasterOf(p, s) # p /\ ReplicationDone(p, s)
ProbePasses(p, s) ==
    \/ isReady[p] /\ MasterOf(p, s) = p
    \/ MasterOf(p, s) # p /\ ReplicationDone(p, s)

RedisReadiness(p, s) ==
    /\ phase[p] = "running" /\ ~tag[p][s]
    /\ ProbePasses(p, s)
    /\ tag' = [tag EXCEPT ![p][s] = TRUE]
    /\ UNCHANGED <<schedulerVars, phase, version, isReady, offset, tries, setVersion,
                   rolling, master, faults, history>>

\* The broker makes the other pod of the chunk the master of both shards.
Failover(p) ==
    /\ master' = [master EXCEPT ![Chunk(p)] = [s \in Shards |-> Peer(p)]]
    /\ lost' = [lost EXCEPT ![Chunk(p)] = [s \in Shards |->
                  IF MasterOf(p, s) = p THEN @[s] + OFFSET_THRESHOLD - 1 ELSE @[s]]]

Fault == faults < MaxFaults /\ faults' = faults + 1

TriesLeft_OneMore(p) ==   \* mutant: -le instead of -ne
    tries[p] <= serverProxyShutdownTime
TriesLeft_Once(p) ==   \* mutant: no second try
    tries[p] = 0
TriesLeft(p) == tries[p] # serverProxyShutdownTime

\* serverProxyPreStopScript: POST proxies/failover until it answers 200 or
\* all tries are used, then UMCTL SHUTDOWN.  An answer other than 200 may come
\* after the masters have moved (the broker has no spare proxy) or, as a
\* fault, without any effect.
PreStop(p) ==
    /\ phase[p] = "preStop"
    /\ \/ /\ TriesLeft(p)
          /\ Failover(p)
          /\ phase' = [phase EXCEPT ![p] = "shutdown"]
          /\ UNCHANGED <<tries, faults>>
       \/ /\ TriesLeft(p)
          /\ tries' = [tries EXCEPT ![p] = @ + 1]
          /\ \/ Failover(p) /\ UNCHANGED faults
             \/ UNCHANGED <<master, lost>> /\ Fault
          /\ UNCHANGED phase
       \/ /\ ~TriesLeft(p)
          /\ phase' = [phase EXCEPT ![p] = "shutdown"]
          /\ UNCHANGED <<tries, master, lost, faults>>
    /\ UNCHANGED <<schedulerVars, version, isReady, offset, tag, setVersion, rolling,
                   exposed>>

\* Pods end and the StatefulSet creates them again, empty and with its template
\* (no partition).
Replace(gone) ==
    /\ Recreated(gone)
    /\ phase' = [p \in Pods |-> IF p \in gone THEN "pending" ELSE phase[p]]
    /\ version' = [p \in Pods |-> IF p \in gone THEN setVersion ELSE version[p]]
    /\ isReady' = [p \in Pods |-> IF p \in gone THEN FALSE ELSE isReady[p]]
    /\ offset' = [p \in Pods |-> IF p \in gone THEN [s \in Shards |-> 0] ELSE offset[p]]
    /\ tag' = [p \in Pods |-> IF p \in gone THEN [s \in Shards |-> FALSE] ELSE tag[p]]
    /\ tries' = [p \in Pods |-> IF p \in gone THEN 0 ELSE tries[p]]

PodGone(p) ==
    /\ phase[p] = "shutdown"
    /\ Replace({p})
    /\ UNCHANGED <<setVersion, rolling, master, faults, history>>

\* The StatefulSet controller replaces the last outdated pod when the pods
\* after it are updated and ready.  The pods before it need not be ready
\* (ParallelPodManagement).
DeleteOutdated(p) ==
    /\ phase[p] = "running" /\ version[p] # setVersion
    /\ \A q \in Pods : q > p => version[q] = setVersion /\ Ready(q)
    /\ phase' = [phase EXCEPT ![p] = "preStop"]
    /\ UNCHANGED <<schedulerVars, version, isReady, offset, tag, tries, setVersion,
                   rolling, master, faults, history>>

\* status.currentReplicas is back at spec.replicas.
CompleteRollingUpdate ==
    /\ rolling /\ AllUpdated
    /\ rolling' = FALSE
    /\ UNCHANGED <<schedulerVars, podVars, setVersion, master, faults, history>>

\* triggerRollingUpdate: storageAllReadyAndStable looks at the addresses of a
\* service that publishes pods that are not ready, and at currentReplicas.
StorageAllReadyAndStable ==
    /\ \A p \in Pods : phase[p] # "pending"
    /\ ~rolling

\* A chunk with a pod that is not ready, one of a new cluster or in the place
\* of a failed one, is rolled as well.
RollingUpdate ==
    /\ setVersion < MaxRolls
    /\ StorageAllReadyAndStable
    /\ setVersion' = setVersion + 1
    /\ rolling' = TRUE
    /\ exposed' = exposed \cup {Chunk(p) : p \in {q \in Pods : ~Ready(q)}}
    /\ UNCHANGED <<schedulerVars, podVars, master, faults, lost>>

-----------------------------------------------------------------------------
(* Failures *)

\* The pod that stays when the other one of its chunk fails has the data, and
\* the update that is going on waits for the one that takes its place.
StaysAlone(q) == Ready(q) /\ (q > Peer(q) => version[q] = setVersion)

\* A node dies with its pods.
NodeFails(n) ==
    LET gone == {p \in Pods : node[p] = n}
    IN  /\ gone # {}
        /\ Fault
        /\ Replace(gone)
        /\ exposed' = exposed \cup {Chunk(p) : p \in {q \in gone : ~StaysAlone(Peer(q))}}
        /\ UNCHANGED <<setVersion, rolling, master, lost>>

\* The coordinators report a proxy that is gone and the broker replaces it by
\* the other one of the chunk, unless that one is gone too.
DetectFailure(p) ==
    /\ \/ phase[p] = "pending" /\ LostMasters(p)
       \/ phase[p] = "shutdown" /\ \E s \in Shards : MasterOf(p, s) = p
    /\ phase[Peer(p)] \in {"running", "preStop"}
    /\ Failover(p)
    /\ UNCHANGED <<schedulerVars, podVars, setVersion, rolling, faults, exposed>>

SchedulerCrash ==
    /\ cache # node \/ unseen # {}
    /\ Fault
    /\ SchedulerRestart
    /\ UNCHANGED <<podVars, setVersion, rolling, master, history>>

-----------------------------------------------------------------------------
Progress(p) ==
    \/ PodStarts(p) \/ SetCluster(p) \/ PreStop(p) \/ PodGone(p)
    \/ DeleteOutdated(p) \/ DetectFailure(p)
    \/ \E s \in Shards : Replicate(p, s) \/ Ping(p, s) \/ RedisReadiness(p, s)

Next ==
    \/ SchedulerStep
    \/ \E p \in Pods : Progress(p)
    \/ CompleteRollingUpdate \/ RollingUpdate
    \/ (\E n \in Nodes : NodeFails(n)) \/ SchedulerCrash

Spec == Init /\ [][Next]_vars

\* The scheduler, the kubelet, the StatefulSet controller, the broker and the
\* replication go on; no fault and no edit is fair.
Fairness ==
    /\ WF_vars(SchedulerStep)
    /\ \A p \in Pods : WF_vars(Progress(p))
    /\ WF_vars(CompleteRollingUpdate)

FairSpec == Spec /\ Fairness

-----------------------------------------------------------------------------
\* The data that a copy must have: what changes of the master have left, and in
\* a replica the lag that the probe accepts less.
HasData(p, s) ==
    offset[p][s] >= FullOffset - lost[Chunk(p)][s]
                    - (IF MasterOf(p, s) = p THEN 0 ELSE OFFSET_THRESHOLD - 1)

Guarded(p) == Chunk(p) \notin exposed

\* At every moment of rolling updates and failures of nodes every shard has a
\* copy that lacks at most OFFSET_THRESHOLD - 1 for each change of its master:
\* the probe holds back the update until the new copy has caught up, and one
\* node never has both.  It is not claimed of a chunk whose template was
\* edited while a pod of it was not ready, that lost a node while its other pod
\* was not ready or about to be updated, or whose master came back empty before
\* the broker had moved it, as after a preStop hook that used up its tries.
ShardKept ==
    \A p \in Pods, s \in Shards : Guarded(p) => HasData(p, s) \/ HasData(Peer(p), s)

\* The probe makes the update of the first part of a chunk wait for the second:
\* in a chunk that met none of these events no pod is taken down by a rolling
\* update before the other one has the data, but for the accepted lag.
RebootsAfterProbe ==
    [][\A p \in Pods : Guarded(p) /\ phase[p] = "running" /\ phase'[p] = "preStop" =>
          \A s \in Shards : HasData(Peer(p), s)]_vars

\* A server proxy is shut down by the preStop hook only while the other pod of
\* the chunk serves with the data, and after the masters have moved there,
\* unless all the tries were used up.
HandsOverBeforeShutdown ==
    \A p \in Pods : Guarded(p) /\ phase[p] = "shutdown" =>
        /\ Serves(Peer(p))
        /\ \A s \in Shards : HasData(Peer(p), s)
        /\ \/ tries[p] = serverProxyShutdownTime
           \/ \A s \in Shards : MasterOf(p, s) = Peer(p)

\* Creation, a rolling update and the recovery from failed nodes come to their
\* end: nobody waits for a node, a role, a copy or a probe for ever, whatever
\* was edited or failed before.
RollingUpdateEnds == []<>AllUpdated

\* "wait for the second part in the chunk to synchronize all the data [...]
\* before rebooting the first part": no pod that is ready is taken down by a
\* rolling update before the other pod of its chunk has all the data.
RebootsAfterSync ==
    [][\A p \in Pods : Ready(p) /\ phase'[p] = "preStop" =>
          \A s \in Shards : offset[Peer(p)][s] = FullOffset]_vars
=============================================================================
