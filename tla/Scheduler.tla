----------------------------- MODULE Scheduler -----------------------------
(***************************************************************************)
(* The undermoon-topology filter and the kube-scheduler that calls it for  *)
(* the storage pods of one Undermoon cluster.  A scheduling cycle filters  *)
(* the nodes on the scheduler's own cache, assumes the pod on one of them  *)
(* and binds it in the background, while the next cycle goes on; the       *)
(* deletion of a pod reaches the cache late.  The scheduler runs in one    *)
(* instance, the default of its chart (the chart turns leader election     *)
(* off, so two instances would not know of each other's assumptions).      *)
(* The actions here are steps of StoragePods, which owns the pods.         *)
(***************************************************************************)
EXTENDS Integers, FiniteSets

CONSTANTS
    ChunkNumber,  \* spec.chunkNumber
    Nodes,        \* nodes of Kubernetes
    NoNode        \* of a pod that is not bound

chunkShardNumber == 2
Pods == 0..(ChunkNumber * chunkShardNumber - 1)

\* Each of the two pods of a chunk has the replicas of the other's masters.
Chunk(p) == p \div 2
Peer(p) == IF p % 2 = 0 THEN p + 1 ELSE p - 1

VARIABLES
    node,   \* spec.nodeName of every pod
    cache,  \* the node of every pod in the scheduler's cache, assumed ones too
    unseen  \* pods whose deletion the scheduler has not seen: their entry in
            \* the cache is of the pod that is gone

schedulerVars == <<node, cache, unseen>>

\* What the filter reads of a pod: namespace, the two labels, and the index
\* at the end of the name, which a StatefulSet gives to all its pods.
StoragePod(p) ==
    [namespace |-> "ns", undermoonName |-> "um", undermoonService |-> "storage", index |-> p]

\* Pods of others that live on every node: a broker of this cluster, and
\* storage of another cluster and of one of the same name elsewhere.
Residents ==
    {[namespace |-> "ns", undermoonName |-> "um", undermoonService |-> "broker", index |-> 0],
     [namespace |-> "ns", undermoonName |-> "um2", undermoonService |-> "storage", index |-> 0],
     [namespace |-> "ns2", undermoonName |-> "um", undermoonService |-> "storage", index |-> 2]}

PodsOn(n) == Residents \cup {StoragePod(q) : q \in {r \in Pods : cache[r] = n}}

SameShard_Parity(pod, other) ==   \* mutant: the chunks are told apart by parity
    /\ pod.namespace = other.namespace
    /\ pod.undermoonName = other.undermoonName
    /\ other.undermoonService = "storage"
    /\ pod.index % 2 = other.index % 2
SameShard(pod, other) ==
    /\ pod.namespace = other.namespace
    /\ pod.undermoonName = other.undermoonName
    /\ other.undermoonService = "storage"
    /\ pod.index \div 2 = other.index \div 2

\* Filter: a pod that is not storage goes anywhere.
Filter(pod, existing) ==
    pod.undermoonService = "storage" => \A other \in existing : ~SameShard(pod, other)

\* A scheduling cycle up to the assumption.
Schedule(p, n) ==
    /\ node[p] = NoNode /\ cache[p] = NoNode /\ p \notin unseen
    /\ Filter(StoragePod(p), PodsOn(n))
    /\ cache' = [cache EXCEPT ![p] = n]
    /\ UNCHANGED <<node, unseen>>

\* The API server accepts the binding of a pod that still exists.
Bind(p) ==
    /\ node[p] = NoNode /\ cache[p] # NoNode /\ p \notin unseen
    /\ node' = [node EXCEPT ![p] = cache[p]]
    /\ UNCHANGED <<cache, unseen>>

ObserveDeletion(p) ==
    /\ p \in unseen
    /\ unseen' = unseen \ {p}
    /\ cache' = [cache EXCEPT ![p] = NoNode]
    /\ UNCHANGED node

\* The pods of a set are gone and have been created again without a node.
Recreated(gone) ==
    /\ node' = [p \in Pods |-> IF p \in gone THEN NoNode ELSE node[p]]
    /\ unseen' = unseen \cup gone
    /\ UNCHANGED cache

\* A scheduler that starts lists the pods; its predecessor's assumptions and
\* bindings under way are gone.
SchedulerRestart ==
    /\ cache' = node
    /\ unseen' = {}
    /\ UNCHANGED node

\* "master and replica will not be in the same node": the two pods of a chunk
\* are never bound to one node, whatever the order of cycles, bindings in the
\* background, deletions seen late and restarts of the scheduler.
MasterReplicaApart ==
    \A p \in Pods : node[p] # NoNode => node[p] # node[Peer(p)]
=============================================================================
