------------------------- MODULE StoragePodsProofs -------------------------
(***************************************************************************)
(* For every number of chunks and every set of nodes: the two pods of a    *)
(* chunk are never bound to one node (the scheduler's part, SInv), and in  *)
(* a chunk that met no event the scripts do not guard against, rolling     *)
(* updates and failed nodes lose no more than the lag that the readiness   *)
(* probe accepts (the pods' part, DInv).                                   *)
(***************************************************************************)
EXTENDS StoragePods, TLAPS

SchedulerTypeOK ==
    /\ node \in [Pods -> Nodes \cup {NoNode}]
    /\ cache \in [Pods -> Nodes \cup {NoNode}]
    /\ unseen \subseteq Pods

\* The scheduler knows where every pod is that has a node.
Known == \A p \in Pods : node[p] # NoNode => p \notin unseen /\ cache[p] = node[p]

\* In the cache the pods of a chunk are apart, also when one of them is gone.
CacheApart == \A p \in Pods : cache[p] # NoNode => cache[p] # cache[Peer(p)]

SInv == SchedulerTypeOK /\ Known /\ CacheApart

\* The arithmetic of chunks.
LEMMA TwoInAChunk ==
    ASSUME NEW n \in Nat, NEW p \in 0..(n * 2 - 1)
    PROVE  /\ Peer(p) \in 0..(n * 2 - 1)
           /\ Peer(p) # p
           /\ Peer(Peer(p)) = p
           /\ Peer(p) \div 2 = p \div 2
BY DEF Peer

LEMMA Peers ==
    \A p \in Pods : /\ Peer(p) \in Pods /\ Peer(p) # p /\ Peer(Peer(p)) = p
                    /\ Peer(p) \div 2 = p \div 2
BY PodsAssumption, TwoInAChunk DEF Pods, chunkShardNumber

\* The filter refuses the node that the cache gives to the other pod.
LEMMA FilterRefuses ==
    ASSUME NEW p \in Pods, NEW n \in Nodes, Filter(StoragePod(p), PodsOn(n))
    PROVE  cache[Peer(p)] # n
<1> SUFFICES ASSUME cache[Peer(p)] = n PROVE FALSE
  OBVIOUS
<1>1. StoragePod(Peer(p)) \in PodsOn(n)
  BY Peers DEF PodsOn
<1>2. SameShard(StoragePod(p), StoragePod(Peer(p)))
  BY Peers DEF SameShard, StoragePod
<1>3. StoragePod(p).undermoonService = "storage"
  BY DEF StoragePod
<1> QED
  BY <1>1, <1>2, <1>3 DEF Filter

\* With the invariant the pods themselves are apart.
LEMMA SInvApart == SInv => MasterReplicaApart
BY Peers DEF SInv, Known, CacheApart, MasterReplicaApart

LEMMA InitSInv == Init => SInv
BY DEF Init, SInv, SchedulerTypeOK, Known, CacheApart

\* The steps of the scheduler.
LEMMA ScheduleStep ==
    ASSUME SInv, NEW p \in Pods, NEW n \in Nodes, Schedule(p, n)
    PROVE  SInv'
<1>1. SchedulerTypeOK' /\ Known'
  BY DEF Schedule, SInv, SchedulerTypeOK, Known
<1>2. cache' = [cache EXCEPT ![p] = n] /\ cache[Peer(p)] # n
  BY FilterRefuses DEF Schedule
<1>3. CacheApart'
  BY <1>2, Peers DEF SInv, SchedulerTypeOK, CacheApart
<1> QED
  BY <1>1, <1>3 DEF SInv

LEMMA BindStep ==
    ASSUME SInv, NEW p \in Pods, Bind(p)
    PROVE  SInv'
BY DEF Bind, SInv, SchedulerTypeOK, Known, CacheApart

LEMMA ObserveDeletionStep ==
    ASSUME SInv, NEW p \in Pods, ObserveDeletion(p)
    PROVE  SInv'
<1>1. SchedulerTypeOK' /\ Known'
  BY DEF ObserveDeletion, SInv, SchedulerTypeOK, Known
<1>2. CacheApart'
  BY PodsAssumption, Peers DEF ObserveDeletion, SInv, SchedulerTypeOK, CacheApart
<1> QED
  BY <1>1, <1>2 DEF SInv

LEMMA RecreatedStep ==
    ASSUME SInv, NEW gone \in SUBSET Pods, Recreated(gone)
    PROVE  SInv'
<1>1. SchedulerTypeOK' /\ Known'
  BY DEF Recreated, SInv, SchedulerTypeOK, Known
<1>2. CacheApart'
  BY DEF Recreated, SInv, CacheApart
<1> QED
  BY <1>1, <1>2 DEF SInv

LEMMA SchedulerRestartStep ==
    ASSUME SInv, SchedulerRestart
    PROVE  SInv'
<1>1. SchedulerTypeOK' /\ Known'
  BY DEF SchedulerRestart, SInv, SchedulerTypeOK, Known
<1>2. CacheApart'
  BY SInvApart DEF SchedulerRestart, MasterReplicaApart, CacheApart
<1> QED
  BY <1>1, <1>2 DEF SInv

\* Every step of the pods is one of these for the scheduler, or none.
LEMMA SStep == SInv /\ [Next]_vars => SInv'
<1> SUFFICES ASSUME SInv, [Next]_vars PROVE SInv'
  OBVIOUS
<1>1. UNCHANGED schedulerVars => SInv'
  BY DEF schedulerVars, SInv, SchedulerTypeOK, Known, CacheApart
<1>2. CASE SchedulerStep
  BY <1>2, ScheduleStep, BindStep, ObserveDeletionStep DEF SchedulerStep
<1>3. ASSUME NEW p \in Pods, Progress(p) PROVE SInv'
  <2>1. CASE PodGone(p)
    <3>1. Recreated({p})
      BY <2>1 DEF PodGone, Replace
    <3> QED
      BY <3>1, RecreatedStep
  <2>2. CASE ~PodGone(p)
    BY <1>1, <1>3, <2>2 DEF Progress, PodStarts, SetCluster, PreStop, DeleteOutdated,
       DetectFailure, Replicate, Ping, RedisReadiness, podVars
  <2> QED
    BY <2>1, <2>2
<1>4. CASE CompleteRollingUpdate \/ RollingUpdate
  BY <1>1, <1>4 DEF CompleteRollingUpdate, RollingUpdate
<1>5. ASSUME NEW n \in Nodes, NodeFails(n) PROVE SInv'
  BY <1>5, RecreatedStep DEF NodeFails, Replace
<1>6. CASE SchedulerCrash
  BY <1>6, SchedulerRestartStep DEF SchedulerCrash
<1>7. CASE UNCHANGED vars
  BY <1>1, <1>7 DEF vars
<1> QED
  BY <1>2, <1>3, <1>4, <1>5, <1>6, <1>7 DEF Next

\* "master and replica will not be in the same node", for every number of
\* chunks and nodes and any order of cycles, bindings, deletions and restarts.
THEOREM NeverTogether == Spec => []MasterReplicaApart
<1>1. Spec => []SInv
  BY InitSInv, SStep, PTL DEF Spec
<1> QED
  BY <1>1, SInvApart, PTL

-----------------------------------------------------------------------------
(* Types *)

LEMMA ChunkOf ==
    ASSUME NEW n \in Nat, NEW p \in 0..(n * 2 - 1)
    PROVE  Chunk(p) \in 0..(n - 1) /\ Chunk(Peer(p)) = Chunk(p)
<1>1. Chunk(p) \in 0..(n - 1)
  BY DEF Chunk
<1>2. Chunk(Peer(p)) = Chunk(p)
  BY TwoInAChunk DEF Chunk
<1> QED
  BY <1>1, <1>2

\* What the steps use of the numbers.
LEMMA Numbers ==
    /\ \A p \in Pods : Chunk(p) \in Chunks /\ Chunk(Peer(p)) = Chunk(p) /\ Peer(p) \in Pods
    /\ \A c \in Chunks, s \in Shards : 2 * c + s - 1 \in Pods /\ Chunk(2 * c + s - 1) = c
    /\ Pods \subseteq Nat
    /\ FullOffset \in Nat /\ FullOffset # 0 /\ OFFSET_THRESHOLD \in Nat \ {0}
    /\ serverProxyShutdownTime \in Nat /\ MaxRolls \in Nat /\ MaxFaults \in Nat
<1>1. \A p \in Pods : Chunk(p) \in Chunks /\ Chunk(Peer(p)) = Chunk(p) /\ Peer(p) \in Pods
  BY PodsAssumption, ChunkOf, Peers DEF Pods, Chunks, chunkShardNumber
<1>2. ASSUME NEW c \in Chunks, NEW s \in Shards
      PROVE  2 * c + s - 1 \in Pods /\ Chunk(2 * c + s - 1) = c
  BY PodsAssumption DEF Pods, Chunks, Shards, Chunk, chunkShardNumber
<1> QED
  BY <1>1, <1>2, PodsAssumption DEF Pods

LEMMA OneMore ==
    ASSUME NEW n \in Nat, NEW i \in 0..n, i # n
    PROVE  i + 1 \in 0..n
OBVIOUS

LEMMA OneCloser ==
    ASSUME NEW n \in Nat, NEW i \in 0..n, NEW j \in 0..n
    PROVE  (IF i < j THEN i + 1 ELSE j) \in 0..n
OBVIOUS

LEMMA InitType == Init => TypeOK
<1> SUFFICES ASSUME Init PROVE TypeOK
  OBVIOUS
<1> USE Numbers
<1>1. /\ node \in [Pods -> Nodes \cup {NoNode}] /\ cache \in [Pods -> Nodes \cup {NoNode}]
      /\ unseen \subseteq Pods /\ rolling \in BOOLEAN
      /\ phase \in [Pods -> Phases] /\ isReady \in [Pods -> BOOLEAN]
      /\ tag \in [Pods -> [Shards -> BOOLEAN]]
  BY DEF Init, Phases
<1>2. /\ version \in [Pods -> 0..MaxRolls] /\ setVersion \in 0..MaxRolls
      /\ tries \in [Pods -> 0..serverProxyShutdownTime] /\ faults \in 0..MaxFaults
  BY DEF Init
<1>3. offset \in [Pods -> [Shards -> 0..FullOffset]]
  BY DEF Init
<1>4. /\ master \in [Chunks -> [Shards -> Pods]]
      /\ \A c \in Chunks, s \in Shards : Chunk(master[c][s]) = c
  BY DEF Init
<1>5. lost \in [Chunks -> [Shards -> Nat]] /\ exposed \subseteq Chunks
  BY DEF Init
<1> QED
  BY <1>1, <1>2, <1>3, <1>4, <1>5 DEF TypeOK

LEMMA FailoverType ==
    ASSUME TypeOK, NEW p \in Pods, Failover(p)
    PROVE  /\ master' \in [Chunks -> [Shards -> Pods]]
           /\ \A c \in Chunks, s \in Shards : Chunk(master'[c][s]) = c
           /\ lost' \in [Chunks -> [Shards -> Nat]]
<1>1. /\ master' \in [Chunks -> [Shards -> Pods]]
      /\ \A c \in Chunks, s \in Shards : Chunk(master'[c][s]) = c
  BY Numbers DEF TypeOK, Failover
<1>2. Chunk(p) \in Chunks
  BY Numbers
<1> DEFINE l == [s \in Shards |-> IF MasterOf(p, s) = p
                                  THEN lost[Chunk(p)][s] + OFFSET_THRESHOLD - 1
                                  ELSE lost[Chunk(p)][s]]
<1>3. l \in [Shards -> Nat]
  BY <1>2, Numbers DEF TypeOK
<1>4. lost' = [lost EXCEPT ![Chunk(p)] = l]
  BY DEF Failover
<1> HIDE DEF l
<1>5. lost' \in [Chunks -> [Shards -> Nat]]
  BY <1>2, <1>3, <1>4 DEF TypeOK
<1> QED
  BY <1>1, <1>5

LEMMA FaultType ==
    ASSUME TypeOK, Fault
    PROVE  faults' \in 0..MaxFaults
BY Numbers DEF TypeOK, Fault

LEMMA ReplaceType ==
    ASSUME TypeOK, NEW gone \in SUBSET Pods, Replace(gone)
    PROVE  /\ phase' \in [Pods -> Phases] /\ version' \in [Pods -> 0..MaxRolls]
           /\ isReady' \in [Pods -> BOOLEAN] /\ tag' \in [Pods -> [Shards -> BOOLEAN]]
           /\ offset' \in [Pods -> [Shards -> 0..FullOffset]]
           /\ tries' \in [Pods -> 0..serverProxyShutdownTime]
<1> USE Numbers DEF Replace, TypeOK
<1>1. phase' \in [Pods -> Phases] /\ isReady' \in [Pods -> BOOLEAN]
  BY DEF Phases
<1>2. version' \in [Pods -> 0..MaxRolls] /\ tries' \in [Pods -> 0..serverProxyShutdownTime]
  OBVIOUS
<1>3. tag' \in [Pods -> [Shards -> BOOLEAN]]
  OBVIOUS
<1>4. offset' \in [Pods -> [Shards -> 0..FullOffset]]
  OBVIOUS
<1> QED
  BY <1>1, <1>2, <1>3, <1>4

\* The steps of one pod.
LEMMA ProgressType ==
    ASSUME TypeOK, NEW p \in Pods, Progress(p)
    PROVE  TypeOK'
<1> USE Numbers
<1>1. CASE PodStarts(p)
  <2>1. phase' \in [Pods -> Phases]
    BY <1>1 DEF PodStarts, TypeOK, Phases
  <2>2. exposed' \subseteq Chunks
    BY <1>1 DEF PodStarts, TypeOK
  <2> QED
    BY <1>1, <2>1, <2>2 DEF PodStarts, TypeOK, schedulerVars
<1>2. CASE SetCluster(p)
  BY <1>2 DEF SetCluster, TypeOK, schedulerVars, history
<1>3. CASE PreStop(p)
  <2>1. phase' \in [Pods -> Phases]
    BY <1>3 DEF PreStop, TypeOK, Phases
  <2>2. tries' \in [Pods -> 0..serverProxyShutdownTime]
    <3>1. tries[p] # serverProxyShutdownTime => tries[p] + 1 \in 0..serverProxyShutdownTime
      BY OneMore DEF TypeOK
    <3> QED
      BY <1>3, <3>1 DEF PreStop, TypeOK, TriesLeft
  <2>3. /\ master' \in [Chunks -> [Shards -> Pods]]
        /\ \A c \in Chunks, s \in Shards : Chunk(master'[c][s]) = c
        /\ lost' \in [Chunks -> [Shards -> Nat]]
    BY <1>3, FailoverType DEF PreStop, TypeOK
  <2>4. faults' \in 0..MaxFaults
    BY <1>3, FaultType DEF PreStop, TypeOK
  <2> QED
    BY <1>3, <2>1, <2>2, <2>3, <2>4 DEF PreStop, TypeOK, schedulerVars
<1>4. CASE PodGone(p)
  <2>1. SchedulerTypeOK'
    BY <1>4 DEF PodGone, Replace, Recreated, TypeOK, SchedulerTypeOK
  <2>2. {p} \in SUBSET Pods /\ Replace({p})
    BY <1>4 DEF PodGone
  <2> QED
    BY <1>4, <2>1, <2>2, ReplaceType DEF PodGone, TypeOK, SchedulerTypeOK, history
<1>5. CASE DeleteOutdated(p)
  BY <1>5 DEF DeleteOutdated, TypeOK, Phases, schedulerVars, history
<1>6. CASE DetectFailure(p)
  BY <1>6, FailoverType DEF DetectFailure, TypeOK, schedulerVars, podVars
<1>7. ASSUME NEW s \in Shards, Replicate(p, s) PROVE TypeOK'
  <2>1. MasterOf(p, s) \in Pods
    BY DEF MasterOf, TypeOK
  <2> DEFINE o == IF offset[p][s] < offset[MasterOf(p, s)][s] THEN offset[p][s] + 1
                  ELSE offset[MasterOf(p, s)][s]
  <2>2. o \in 0..FullOffset
    BY <2>1, OneCloser DEF TypeOK
  <2>3. offset' = [offset EXCEPT ![p] = [offset[p] EXCEPT ![s] = o]]
    BY <1>7 DEF Replicate
  <2> HIDE DEF o
  <2>4. offset' \in [Pods -> [Shards -> 0..FullOffset]]
    BY <2>2, <2>3 DEF TypeOK
  <2> QED
    BY <1>7, <2>4 DEF Replicate, TypeOK, schedulerVars, history
<1>8. ASSUME NEW s \in Shards, RedisReadiness(p, s) PROVE TypeOK'
  BY <1>8 DEF RedisReadiness, TypeOK, schedulerVars, history
<1>9. ASSUME NEW s \in Shards, Ping(p, s) PROVE TypeOK'
  <2>1. offset' = [offset EXCEPT ![p] = [offset[p] EXCEPT ![s] = 1]] /\ 1 \in 0..FullOffset
    BY <1>9 DEF Ping
  <2>2. offset' \in [Pods -> [Shards -> 0..FullOffset]]
    BY <2>1 DEF TypeOK
  <2> QED
    BY <1>9, <2>2 DEF Ping, TypeOK, schedulerVars, history
<1> QED
  BY <1>1, <1>2, <1>3, <1>4, <1>5, <1>6, <1>7, <1>8, <1>9 DEF Progress

LEMMA StepType == TypeOK /\ [Next]_vars => TypeOK'
<1> SUFFICES ASSUME TypeOK, [Next]_vars PROVE TypeOK'
  OBVIOUS
<1> USE Numbers
<1>1. CASE SchedulerStep
  <2>0. SchedulerTypeOK
    BY DEF TypeOK, SchedulerTypeOK
  <2>1. SchedulerTypeOK'
    BY <1>1, <2>0 DEF SchedulerStep, Schedule, Bind, ObserveDeletion, SchedulerTypeOK
  <2> QED
    BY <1>1, <2>1 DEF SchedulerStep, TypeOK, SchedulerTypeOK, podVars, history
<1>2. ASSUME NEW p \in Pods, Progress(p) PROVE TypeOK'
  BY <1>2, ProgressType
<1>3. CASE CompleteRollingUpdate
  BY <1>3 DEF CompleteRollingUpdate, TypeOK, schedulerVars, podVars, history
<1>4. CASE RollingUpdate
  BY <1>4 DEF RollingUpdate, TypeOK, schedulerVars, podVars
<1>5. ASSUME NEW n \in Nodes, NodeFails(n) PROVE TypeOK'
  <2>1. SchedulerTypeOK'
    BY <1>5 DEF NodeFails, Replace, Recreated, TypeOK, SchedulerTypeOK
  <2>2. Replace({p \in Pods : node[p] = n}) /\ {p \in Pods : node[p] = n} \in SUBSET Pods
    BY <1>5 DEF NodeFails
  <2>3. exposed' \subseteq Chunks
    BY <1>5 DEF NodeFails, TypeOK
  <2> QED
    BY <1>5, <2>1, <2>2, <2>3, ReplaceType, FaultType DEF NodeFails, TypeOK, SchedulerTypeOK
<1>6. CASE SchedulerCrash
  BY <1>6, FaultType DEF SchedulerCrash, SchedulerRestart, TypeOK, podVars, history
<1>7. CASE UNCHANGED vars
  BY <1>7 DEF vars, TypeOK, schedulerVars, podVars, history
<1> QED
  BY <1>1, <1>2, <1>3, <1>4, <1>5, <1>6, <1>7 DEF Next

\* The types of the model hold for any number of chunks, nodes, updates and
\* faults, and the preStop hook never goes beyond its tries.
THEOREM TypeCorrect == Spec => []TypeOK
BY InitType, StepType, PTL DEF Spec

-----------------------------------------------------------------------------
(* The data of the shards, in the chunks that are guarded *)

Leaving(p) == phase[p] \in {"preStop", "shutdown"}

\* A master has its data; the exception is one that is gone, whose other pod is
\* ready and stays.
MastersKept ==
    \A p \in Pods, s \in Shards : Guarded(p) /\ MasterOf(p, s) = p =>
        \/ offset[p][s] > 0 /\ HasData(p, s)
        \/ phase[p] = "pending" /\ offset[p][s] = 0 /\ StaysAlone(Peer(p))

\* A Redis that passed its probe has its data.
TagsKept ==
    \A p \in Pods, s \in Shards : Guarded(p) /\ tag[p][s] =>
        isReady[p] /\ phase[p] # "pending" /\ offset[p][s] > 0 /\ HasData(p, s)

\* Only outdated pods leave, and only during an update.
Versions ==
    \A p \in Pods :
        /\ version[p] <= setVersion
        /\ version[p] # setVersion => rolling
        /\ Leaving(p) => version[p] # setVersion

\* The update of a chunk goes from its last pod to the first, and a pod that
\* waits for its turn is ready.
FromTheLast ==
    \A p \in Pods : Guarded(p) /\ version[p] # setVersion =>
        /\ Leaving(p) \/ Ready(p)
        /\ p > Peer(p) => version[Peer(p)] # setVersion

\* The other pod of one that leaves is ready and stays.
OneLeaves == \A p \in Pods : Guarded(p) /\ Leaving(p) => StaysAlone(Peer(p))

\* The preStop hook ends when the masters have moved or the tries are used up.
TriesCounted ==
    \A p \in Pods : Guarded(p) /\ phase[p] = "shutdown" =>
        \/ tries[p] = serverProxyShutdownTime
        \/ \A s \in Shards : MasterOf(p, s) = Peer(p)

DInv == MastersKept /\ TagsKept /\ Versions /\ FromTheLast /\ OneLeaves /\ TriesCounted

\* The two pods of a chunk, and their masters.
LEMMA OnlyTwoInAChunk ==
    ASSUME NEW n \in Nat, NEW p \in 0..(n * 2 - 1), NEW q \in 0..(n * 2 - 1)
    PROVE  Chunk(q) = Chunk(p) => q = p \/ q = Peer(p)
BY DEF Chunk, Peer

LEMMA SameChunk ==
    \A p, q \in Pods : Chunk(q) = Chunk(p) <=> q = p \/ q = Peer(p)
BY PodsAssumption, OnlyTwoInAChunk, Numbers DEF Pods, chunkShardNumber

LEMMA MasterInChunk ==
    ASSUME TypeOK, NEW p \in Pods, NEW s \in Shards
    PROVE  /\ MasterOf(p, s) \in Pods
           /\ MasterOf(p, s) = p \/ MasterOf(p, s) = Peer(p)
           /\ MasterOf(MasterOf(p, s), s) = MasterOf(p, s)
           /\ Chunk(MasterOf(p, s)) = Chunk(p)
<1>1. Chunk(p) \in Chunks
  BY Numbers
<1>2. MasterOf(p, s) \in Pods /\ Chunk(MasterOf(p, s)) = Chunk(p)
  BY <1>1 DEF TypeOK, MasterOf
<1> QED
  BY <1>2, SameChunk DEF MasterOf

\* Order within a chunk.
LEMMA FirstOrLast ==
    \A p \in Pods : (p > Peer(p) /\ ~(Peer(p) > p)) \/ (Peer(p) > p /\ ~(p > Peer(p)))
<1> SUFFICES ASSUME NEW p \in Pods
             PROVE  (p > Peer(p) /\ ~(Peer(p) > p)) \/ (Peer(p) > p /\ ~(p > Peer(p)))
  OBVIOUS
<1>1. p \in Nat /\ Peer(p) \in Nat /\ Peer(p) # p
  BY Peers, Numbers
<1> QED
  BY <1>1

\* What a change of the master costs is in "lost": no copy falls short by it.
LEMMA FailoverKeeps ==
    ASSUME TypeOK, NEW p \in Pods, Failover(p), UNCHANGED offset,
           NEW q \in Pods, NEW s \in Shards
    PROVE  /\ MasterOf(q, s)' = IF q = p \/ q = Peer(p) THEN Peer(p) ELSE MasterOf(q, s)
           /\ HasData(q, s) => HasData(q, s)'
<1>1. /\ Chunk(p) \in Chunks /\ Chunk(q) \in Chunks
      /\ master \in [Chunks -> [Shards -> Pods]] /\ lost \in [Chunks -> [Shards -> Nat]]
  BY Numbers DEF TypeOK
<1>2. Chunk(q) = Chunk(p) <=> q = p \/ q = Peer(p)
  BY SameChunk
<1>3. MasterOf(q, s)' = IF q = p \/ q = Peer(p) THEN Peer(p) ELSE MasterOf(q, s)
  BY <1>1, <1>2 DEF Failover, MasterOf
<1>4. offset[q][s] \in Nat /\ lost[Chunk(q)][s] \in Nat
  BY <1>1, Numbers DEF TypeOK
<1>5. CASE Chunk(q) # Chunk(p)
  BY <1>1, <1>2, <1>3, <1>5 DEF HasData, Failover
<1>6. CASE Chunk(q) = Chunk(p)
  <2>1. MasterOf(q, s) = MasterOf(p, s) /\ (MasterOf(p, s) = p \/ MasterOf(p, s) = Peer(p))
    BY <1>6, MasterInChunk DEF MasterOf
  <2>2. lost'[Chunk(q)][s] = IF MasterOf(p, s) = p
                             THEN lost[Chunk(q)][s] + OFFSET_THRESHOLD - 1
                             ELSE lost[Chunk(q)][s]
    BY <1>1, <1>6 DEF Failover
  <2>3. HasData(q, s) <=> offset[q][s] >= FullOffset - lost[Chunk(q)][s]
                              - (IF MasterOf(q, s) = q THEN 0 ELSE OFFSET_THRESHOLD - 1)
    BY DEF HasData
  <2>4. HasData(q, s)' <=> offset[q][s] >= FullOffset - lost'[Chunk(q)][s]
                               - (IF MasterOf(q, s)' = q THEN 0 ELSE OFFSET_THRESHOLD - 1)
    BY DEF HasData
  <2>5. Peer(p) # p
    BY Peers
  <2>6. CASE MasterOf(p, s) = p
    BY <1>2, <1>3, <1>4, <1>6, <2>1, <2>2, <2>3, <2>4, <2>5, <2>6, Numbers
  <2>7. CASE MasterOf(p, s) = Peer(p)
    BY <1>2, <1>3, <1>4, <1>6, <2>1, <2>2, <2>3, <2>4, <2>5, <2>7, Numbers
  <2> QED
    BY <2>1, <2>6, <2>7
<1> QED
  BY <1>3, <1>5, <1>6

\* Both pods of a chunk are guarded or none.
LEMMA GuardedPeer == \A p \in Pods : Guarded(Peer(p)) <=> Guarded(p)
BY Numbers DEF Guarded

\* A master that is there has its data, and so has a pod that is ready.
LEMMA ServingMaster ==
    ASSUME TypeOK, DInv, NEW p \in Pods, NEW s \in Shards, Guarded(p),
           phase[MasterOf(p, s)] # "pending"
    PROVE  offset[MasterOf(p, s)][s] > 0 /\ HasData(MasterOf(p, s), s)
BY MasterInChunk DEF DInv, MastersKept, Guarded

LEMMA ReadyHasData ==
    ASSUME DInv, NEW p \in Pods, Guarded(p), Ready(p), NEW s \in Shards
    PROVE  offset[p][s] > 0 /\ HasData(p, s)
BY DEF DInv, TagsKept, Ready

LEMMA InitDInv == Init => DInv
<1> SUFFICES ASSUME Init PROVE DInv
  OBVIOUS
<1>1. MastersKept
  <2> SUFFICES ASSUME NEW p \in Pods, NEW s \in Shards, MasterOf(p, s) = p
               PROVE  offset[p][s] > 0 /\ HasData(p, s)
    BY DEF MastersKept
  <2>1. offset[p][s] = FullOffset /\ lost[Chunk(p)][s] = 0
    BY Numbers DEF Init
  <2> QED
    BY <2>1, Numbers DEF HasData
<1>2. TagsKept /\ Versions /\ FromTheLast /\ OneLeaves /\ TriesCounted
  BY DEF Init, TagsKept, Versions, FromTheLast, OneLeaves, TriesCounted, Leaving
<1> QED
  BY <1>1, <1>2 DEF DInv

\* Steps that leave the pods, the templates and the masters alone.
LEMMA FrameStep ==
    ASSUME DInv, UNCHANGED <<podVars, setVersion, rolling, master, history>>
    PROVE  DInv'
<1> USE DEF podVars, history, Guarded, MasterOf, HasData, StaysAlone, Ready, Leaving
<1>1. MastersKept'
  BY DEF DInv, MastersKept
<1>2. TagsKept'
  BY DEF DInv, TagsKept
<1>3. Versions' /\ FromTheLast' /\ OneLeaves' /\ TriesCounted'
  BY DEF DInv, Versions, FromTheLast, OneLeaves, TriesCounted
<1> QED
  BY <1>1, <1>2, <1>3 DEF DInv

\* A pod that starts as an empty master takes its chunk out of what is claimed.
LEMMA PodStartsStep ==
    ASSUME TypeOK, DInv, NEW p \in Pods, PodStarts(p)
    PROVE  DInv'
<1> USE DEF PodStarts, schedulerVars
<1>1. \A q \in Pods : q # p => phase'[q] = phase[q]
  BY DEF TypeOK
<1>2. phase[p] = "pending" /\ phase'[p] = "running"
  BY DEF TypeOK
<1>3. \A q \in Pods : Guarded(q)' => Guarded(q)
  BY DEF Guarded
<1>4. Guarded(p)' => \A s \in Shards : MasterOf(p, s) = p => offset[p][s] # 0
  BY DEF Guarded, LostMasters
<1>5. \A q \in Pods, s \in Shards : /\ MasterOf(q, s)' = MasterOf(q, s)
                                    /\ HasData(q, s)' <=> HasData(q, s)
  BY DEF MasterOf, HasData
<1>6. \A q \in Pods : StaysAlone(q) => StaysAlone(q)'
  BY <1>1, <1>2 DEF StaysAlone, Ready
<1>7. MastersKept'
  BY <1>1, <1>2, <1>3, <1>4, <1>5, <1>6, Peers DEF DInv, MastersKept
<1>8. TagsKept'
  BY <1>1, <1>2, <1>3, <1>5 DEF DInv, TagsKept
<1>9. Versions' /\ FromTheLast'
  BY <1>1, <1>2, <1>3 DEF DInv, Versions, FromTheLast, Leaving, Ready
<1>10. OneLeaves' /\ TriesCounted'
  BY <1>1, <1>2, <1>3, <1>5, <1>6, Peers DEF DInv, OneLeaves, TriesCounted, Leaving
<1> QED
  BY <1>7, <1>8, <1>9, <1>10 DEF DInv

LEMMA SetClusterStep ==
    ASSUME TypeOK, DInv, NEW p \in Pods, SetCluster(p)
    PROVE  DInv'
<1> USE DEF SetCluster, schedulerVars, history
<1>1. \A q \in Pods : isReady[q] => isReady'[q]
  BY DEF TypeOK
<1>2. \A q \in Pods, s \in Shards : /\ MasterOf(q, s)' = MasterOf(q, s)
                                    /\ HasData(q, s)' <=> HasData(q, s)
  BY DEF MasterOf, HasData
<1>3. \A q \in Pods : /\ Guarded(q)' <=> Guarded(q)
                      /\ Ready(q) => Ready(q)'
                      /\ StaysAlone(q) => StaysAlone(q)'
  BY <1>1 DEF Guarded, Ready, StaysAlone
<1>4. MastersKept'
  BY <1>2, <1>3, Peers DEF DInv, MastersKept
<1>5. TagsKept'
  BY <1>1, <1>2, <1>3 DEF DInv, TagsKept
<1>6. Versions' /\ FromTheLast'
  BY <1>3 DEF DInv, Versions, FromTheLast, Leaving
<1>7. OneLeaves' /\ TriesCounted'
  BY <1>2, <1>3, Peers DEF DInv, OneLeaves, TriesCounted, Leaving
<1> QED
  BY <1>4, <1>5, <1>6, <1>7 DEF DInv

\* Steps that change the offset of one Redis and leave it the data it had.
LEMMA OffsetStep ==
    ASSUME DInv, UNCHANGED <<phase, version, isReady, tag, tries, setVersion, rolling,
                             master, history>>,
           \A q \in Pods, t \in Shards : Guarded(q) =>
              /\ HasData(q, t) => HasData(q, t)'
              /\ offset[q][t] > 0 => offset'[q][t] > 0
              /\ MasterOf(q, t) = q => offset'[q][t] = offset[q][t]
    PROVE  DInv'
<1>1. \A q \in Pods : /\ Guarded(q)' <=> Guarded(q)
                      /\ StaysAlone(q)' <=> StaysAlone(q)
                      /\ \A t \in Shards : MasterOf(q, t)' = MasterOf(q, t)
  BY DEF Guarded, StaysAlone, Ready, MasterOf, history
<1>2. MastersKept'
  BY <1>1, Peers DEF DInv, MastersKept
<1>3. TagsKept'
  BY <1>1 DEF DInv, TagsKept
<1>4. Versions' /\ FromTheLast' /\ OneLeaves' /\ TriesCounted'
  BY <1>1, Peers DEF DInv, Versions, FromTheLast, OneLeaves, TriesCounted, Leaving, Ready
<1> QED
  BY <1>2, <1>3, <1>4 DEF DInv

\* A replica that follows its master.
LEMMA Closer ==
    ASSUME NEW o \in Nat, NEW m \in Nat, NEW o2 \in Nat, NEW full \in Nat, NEW l \in Nat,
           NEW t \in Nat \ {0}, m > 0, m >= full - l,
           o2 = IF o < m THEN o + 1 ELSE m
    PROVE  /\ o >= full - l - (t - 1) => o2 >= full - l - (t - 1)
           /\ o2 > 0
OBVIOUS

LEMMA ReplicateStep ==
    ASSUME TypeOK, TypeOK', DInv, NEW p \in Pods, NEW s \in Shards, Replicate(p, s)
    PROVE  DInv'
<1> USE DEF Replicate, schedulerVars
<1> DEFINE m == MasterOf(p, s)
<1>1. m # p /\ m \in Pods /\ Chunk(m) = Chunk(p) /\ MasterOf(m, s) = m
  BY MasterInChunk
<1>2. \A q \in Pods, t \in Shards : MasterOf(q, t)' = MasterOf(q, t)
  BY DEF MasterOf
<1>3. \A q \in Pods, t \in Shards : q # p \/ t # s => offset'[q][t] = offset[q][t]
  BY DEF TypeOK
<1>4. \A q \in Pods, t \in Shards : q # p \/ t # s => (HasData(q, t)' <=> HasData(q, t))
  BY <1>2, <1>3 DEF HasData, history
<1>5. Guarded(p) => (HasData(p, s) => HasData(p, s)') /\ offset'[p][s] > 0
  <2> SUFFICES ASSUME Guarded(p)
               PROVE  (HasData(p, s) => HasData(p, s)') /\ offset'[p][s] > 0
    OBVIOUS
  <2>1. offset[m][s] > 0 /\ HasData(m, s)
    BY ServingMaster DEF Serves
  <2>2. /\ lost[Chunk(p)][s] \in Nat /\ offset[m][s] \in Nat
        /\ offset[p][s] \in Nat /\ offset'[p][s] \in Nat
    <3>1. /\ Chunk(p) \in Chunks /\ lost \in [Chunks -> [Shards -> Nat]]
          /\ offset \in [Pods -> [Shards -> 0..FullOffset]]
          /\ offset' \in [Pods -> [Shards -> 0..FullOffset]]
      BY Numbers DEF TypeOK
    <3>2. 0..FullOffset \subseteq Nat
      BY Numbers
    <3> HIDE DEF m, Replicate
    <3> QED
      BY <1>1, <3>1, <3>2
  <2>3. offset'[p][s] = IF offset[p][s] < offset[m][s] THEN offset[p][s] + 1
                        ELSE offset[m][s]
    BY DEF TypeOK
  <2>4. offset[m][s] >= FullOffset - lost[Chunk(p)][s]
    BY <1>1, <2>1, <2>2, Numbers DEF HasData
  <2>5. /\ HasData(p, s) <=> offset[p][s] >= FullOffset - lost[Chunk(p)][s]
                                                - (OFFSET_THRESHOLD - 1)
        /\ HasData(p, s)' <=> offset'[p][s] >= FullOffset - lost[Chunk(p)][s]
                                                  - (OFFSET_THRESHOLD - 1)
    BY <1>1, <1>2 DEF HasData, history
  <2> HIDE DEF m, Replicate
  <2>6. /\ offset[p][s] >= FullOffset - lost[Chunk(p)][s] - (OFFSET_THRESHOLD - 1) =>
              offset'[p][s] >= FullOffset - lost[Chunk(p)][s] - (OFFSET_THRESHOLD - 1)
        /\ offset'[p][s] > 0
    BY <2>1, <2>2, <2>3, <2>4, Closer, Numbers
  <2> QED
    BY <2>5, <2>6
<1>6. \A q \in Pods, t \in Shards : Guarded(q) =>
              /\ HasData(q, t) => HasData(q, t)'
              /\ offset[q][t] > 0 => offset'[q][t] > 0
              /\ MasterOf(q, t) = q => offset'[q][t] = offset[q][t]
  BY <1>1, <1>3, <1>4, <1>5
<1> QED
  BY <1>6, OffsetStep

\* No guarded chunk has a master without data that serves.
LEMMA PingStep ==
    ASSUME TypeOK, DInv, NEW p \in Pods, NEW s \in Shards, Ping(p, s)
    PROVE  DInv'
<1> USE DEF Ping, schedulerVars
<1>1. ~Guarded(p)
  BY DEF DInv, MastersKept, Serves, StaysAlone
<1>2. \A q \in Pods, t \in Shards : q # p => offset'[q][t] = offset[q][t]
  BY DEF TypeOK
<1>3. \A q \in Pods, t \in Shards : q # p => (HasData(q, t)' <=> HasData(q, t))
  BY <1>2 DEF HasData, MasterOf, history
<1> QED
  BY <1>1, <1>2, <1>3, OffsetStep

LEMMA RedisReadinessStep ==
    ASSUME TypeOK, DInv, NEW p \in Pods, NEW s \in Shards, RedisReadiness(p, s)
    PROVE  DInv'
<1> USE DEF RedisReadiness, schedulerVars
<1>1. Guarded(p) => isReady[p] /\ offset[p][s] > 0 /\ HasData(p, s)
  <2> SUFFICES ASSUME Guarded(p) PROVE isReady[p] /\ offset[p][s] > 0 /\ HasData(p, s)
    OBVIOUS
  <2>1. CASE MasterOf(p, s) = p
    BY <2>1, ServingMaster DEF ProbePasses
  <2>2. CASE MasterOf(p, s) # p
    <3>1. ReplicationDone(p, s)
      BY <2>2 DEF ProbePasses
    <3>2. /\ HasData(MasterOf(p, s), s) /\ MasterOf(p, s) \in Pods
          /\ MasterOf(MasterOf(p, s), s) = MasterOf(p, s) /\ Chunk(MasterOf(p, s)) = Chunk(p)
      BY <3>1, ServingMaster, MasterInChunk DEF ReplicationDone, Serves
    <3>3. /\ offset[p][s] \in Nat /\ offset[MasterOf(p, s)][s] \in Nat
          /\ lost[Chunk(p)][s] \in Nat
      <4>1. /\ Chunk(p) \in Chunks /\ lost \in [Chunks -> [Shards -> Nat]]
            /\ offset \in [Pods -> [Shards -> 0..FullOffset]]
        BY Numbers DEF TypeOK
      <4>2. 0..FullOffset \subseteq Nat
        BY Numbers
      <4> QED
        BY <3>2, <4>1, <4>2
    <3>4. offset[MasterOf(p, s)][s] >= FullOffset - lost[Chunk(p)][s]
      BY <3>2, <3>3, Numbers DEF HasData
    <3>5. /\ isReady[p] /\ offset[p][s] # 0
          /\ offset[MasterOf(p, s)][s] - offset[p][s] < OFFSET_THRESHOLD
      BY <3>1 DEF ReplicationDone
    <3>6. /\ offset[p][s] > 0
          /\ offset[p][s] >= FullOffset - lost[Chunk(p)][s] - (OFFSET_THRESHOLD - 1)
      BY <3>3, <3>4, <3>5, Numbers
    <3> QED
      BY <2>2, <3>5, <3>6 DEF HasData
  <2> QED
    BY <2>1, <2>2
<1>2. \A q \in Pods, t \in Shards : tag[q][t] => tag'[q][t]
  BY DEF TypeOK
<1>3. \A q \in Pods, t \in Shards : tag'[q][t] => tag[q][t] \/ (q = p /\ t = s)
  BY DEF TypeOK
<1>4. \A q \in Pods, t \in Shards : /\ MasterOf(q, t)' = MasterOf(q, t)
                                    /\ HasData(q, t)' <=> HasData(q, t)
  BY DEF MasterOf, HasData, history
<1>5. \A q \in Pods : /\ Guarded(q)' <=> Guarded(q)
                      /\ Ready(q) => Ready(q)'
                      /\ StaysAlone(q) => StaysAlone(q)'
  BY <1>2 DEF Guarded, Ready, StaysAlone, history
<1>6. MastersKept'
  BY <1>4, <1>5, Peers DEF DInv, MastersKept
<1>7. TagsKept'
  BY <1>1, <1>3, <1>4, <1>5 DEF DInv, TagsKept
<1>8. Versions' /\ FromTheLast'
  BY <1>5 DEF DInv, Versions, FromTheLast, Leaving
<1>9. OneLeaves' /\ TriesCounted'
  BY <1>4, <1>5, Peers DEF DInv, OneLeaves, TriesCounted, Leaving
<1> QED
  BY <1>6, <1>7, <1>8, <1>9 DEF DInv

\* When masters move to a pod that is ready and the other one is gone or leaves,
\* the data moves with them.
LEMMA MovesToReady ==
    ASSUME TypeOK, DInv, NEW p \in Pods, Failover(p), Guarded(p) => Ready(Peer(p)),
           UNCHANGED <<version, isReady, offset, tag, setVersion, rolling, exposed>>,
           \A q \in Pods : q # p => phase'[q] = phase[q],
           phase'[p] = "pending" <=> phase[p] = "pending"
    PROVE  MastersKept' /\ TagsKept'
<1>1. \A q \in Pods, s \in Shards :
        /\ MasterOf(q, s)' = IF q = p \/ q = Peer(p) THEN Peer(p) ELSE MasterOf(q, s)
        /\ HasData(q, s) => HasData(q, s)'
  BY FailoverKeeps
<1>2. \A q \in Pods : Guarded(q)' <=> Guarded(q)
  BY DEF Guarded
<1>3. \A q \in Pods : q # p /\ StaysAlone(q) => StaysAlone(q)'
  BY DEF StaysAlone, Ready
<1>4. TagsKept'
  BY <1>1, <1>2 DEF DInv, TagsKept
<1>5. MastersKept'
  <2> SUFFICES ASSUME NEW q \in Pods, NEW s \in Shards, Guarded(q), MasterOf(q, s)' = q
               PROVE  \/ offset[q][s] > 0 /\ HasData(q, s)'
                      \/ /\ phase'[q] = "pending" /\ offset[q][s] = 0
                         /\ StaysAlone(Peer(q))'
    BY <1>2 DEF MastersKept
  <2>1. CASE q = Peer(p)
    <3>1. Guarded(p) /\ Ready(q)
      BY <2>1, GuardedPeer
    <3> QED
      BY <1>1, <3>1, ReadyHasData
  <2>2. CASE q # Peer(p)
    <3>1. q # p /\ Peer(q) # p /\ MasterOf(q, s) = q
      BY <1>1, <2>2, Peers
    <3> QED
      BY <1>1, <1>3, <3>1, Peers DEF DInv, MastersKept
  <2> QED
    BY <2>1, <2>2
<1> QED
  BY <1>4, <1>5

\* Steps of the preStop hook: the pod goes on leaving, the other one is ready.
LEMMA PreStopStep ==
    ASSUME TypeOK, DInv, NEW p \in Pods, PreStop(p)
    PROVE  DInv'
<1>0. /\ phase[p] = "preStop" /\ Leaving(p)
      /\ UNCHANGED <<version, isReady, offset, tag, setVersion, rolling, exposed>>
  BY DEF PreStop, Leaving
<1>1. \A q \in Pods : q # p => phase'[q] = phase[q] /\ tries'[q] = tries[q]
  BY DEF PreStop, TypeOK
<1>2. phase'[p] = "preStop" \/ phase'[p] = "shutdown"
  BY <1>0 DEF PreStop, TypeOK
<1>3. \A q \in Pods : Guarded(q)' <=> Guarded(q)
  BY <1>0 DEF Guarded
<1>4. Guarded(p) => StaysAlone(Peer(p)) /\ Ready(Peer(p))
  BY <1>0 DEF DInv, OneLeaves, StaysAlone
<1>5. \A q \in Pods : q # p /\ StaysAlone(q) => StaysAlone(q)'
  BY <1>0, <1>1 DEF StaysAlone, Ready
<1>6. \A q \in Pods : StaysAlone(q) => q # p
  BY <1>0 DEF StaysAlone, Ready
<1>7. MastersKept' /\ TagsKept'
  <2>1. CASE Failover(p)
    BY <1>0, <1>1, <1>2, <1>4, <2>1, MovesToReady
  <2>2. CASE UNCHANGED <<master, lost>>
    <3>1. \A q \in Pods, s \in Shards : /\ MasterOf(q, s)' = MasterOf(q, s)
                                        /\ HasData(q, s)' <=> HasData(q, s)
      BY <1>0, <2>2 DEF MasterOf, HasData
    <3> QED
      BY <1>0, <1>1, <1>2, <1>3, <1>5, <1>6, <3>1, Peers DEF DInv, MastersKept, TagsKept
  <2> QED
    BY <2>1, <2>2 DEF PreStop
<1>8. Versions' /\ FromTheLast'
  BY <1>0, <1>1, <1>2, <1>3 DEF DInv, Versions, FromTheLast, Leaving, Ready
<1>9. OneLeaves'
  BY <1>0, <1>1, <1>2, <1>3, <1>4, <1>5, <1>6, Peers DEF DInv, OneLeaves, Leaving
<1>10. TriesCounted'
  <2> SUFFICES ASSUME NEW q \in Pods, Guarded(q), phase'[q] = "shutdown"
               PROVE  \/ tries'[q] = serverProxyShutdownTime
                      \/ \A s \in Shards : MasterOf(q, s)' = Peer(q)
    BY <1>3 DEF TriesCounted
  <2>1. CASE q = p
    <3>1. CASE Failover(p)
      BY <2>1, <3>1, <1>0, FailoverKeeps
    <3>2. CASE ~TriesLeft(p) /\ UNCHANGED tries
      BY <2>1, <3>2 DEF TriesLeft
    <3> QED
      BY <1>0, <2>1, <3>1, <3>2 DEF PreStop
  <2>2. CASE q # p
    <3>1. q # Peer(p)
      BY <1>1, <1>4, <2>2, GuardedPeer DEF Ready
    <3>2. \A s \in Shards : MasterOf(q, s)' = MasterOf(q, s)
      <4>1. CASE Failover(p)
        BY <1>0, <2>2, <3>1, <4>1, FailoverKeeps
      <4>2. CASE UNCHANGED master
        BY <4>2 DEF MasterOf
      <4> QED
        BY <4>1, <4>2 DEF PreStop
    <3> QED
      BY <1>1, <2>2, <3>2 DEF DInv, TriesCounted
  <2> QED
    BY <2>1, <2>2
<1> QED
  BY <1>7, <1>8, <1>9, <1>10 DEF DInv

\* Pods that end, in the chunks that stay guarded: the other one stays.
LEMMA ReplaceStep ==
    ASSUME TypeOK, DInv, NEW gone \in SUBSET Pods, Replace(gone),
           UNCHANGED <<setVersion, rolling, master, lost>>,
           \A q \in Pods : Guarded(q)' => Guarded(q),
           \A q \in gone : Guarded(q)' => StaysAlone(Peer(q)) /\ Peer(q) \notin gone
    PROVE  DInv'
<1>1. \A q \in Pods : q \notin gone =>
        /\ phase'[q] = phase[q] /\ version'[q] = version[q] /\ isReady'[q] = isReady[q]
        /\ offset'[q] = offset[q] /\ tag'[q] = tag[q] /\ tries'[q] = tries[q]
  BY DEF Replace
<1>2. \A q \in gone : q \in Pods /\ phase'[q] = "pending" /\ version'[q] = setVersion
  BY DEF Replace
<1>3. \A q \in gone, s \in Shards : ~tag'[q][s] /\ offset'[q][s] = 0
  BY DEF Replace
<1>4. \A q \in Pods, s \in Shards :
        /\ MasterOf(q, s)' = MasterOf(q, s)
        /\ q \notin gone => (HasData(q, s)' <=> HasData(q, s))
  BY <1>1 DEF MasterOf, HasData
<1>5. \A q \in Pods : q \notin gone => (StaysAlone(q)' <=> StaysAlone(q))
  BY <1>1 DEF StaysAlone, Ready
<1>6. \A q \in Pods : Guarded(q)' /\ Peer(q) \in gone => StaysAlone(q) /\ q \notin gone
  <2>1. \A q \in Pods : Guarded(Peer(q))' <=> Guarded(q)'
    BY Numbers DEF Guarded
  <2> QED
    BY <2>1, Peers
<1>7. MastersKept'
  <2> SUFFICES ASSUME NEW q \in Pods, NEW s \in Shards, Guarded(q)', MasterOf(q, s) = q
               PROVE  \/ offset'[q][s] > 0 /\ HasData(q, s)'
                      \/ /\ phase'[q] = "pending" /\ offset'[q][s] = 0
                         /\ StaysAlone(Peer(q))'
    BY <1>4 DEF MastersKept
  <2>1. CASE q \in gone
    BY <1>2, <1>3, <1>5, <2>1, Peers
  <2>2. CASE q \notin gone /\ Peer(q) \in gone
    BY <1>1, <1>4, <1>6, <2>2 DEF DInv, MastersKept, StaysAlone, Ready
  <2>3. CASE q \notin gone /\ Peer(q) \notin gone
    BY <1>1, <1>4, <1>5, <2>3, Peers DEF DInv, MastersKept
  <2> QED
    BY <2>1, <2>2, <2>3
<1>8. TagsKept'
  BY <1>1, <1>3, <1>4 DEF DInv, TagsKept
<1>9. Versions'
  <2>1. setVersion <= setVersion
    BY DEF TypeOK
  <2> QED
    BY <1>1, <1>2, <2>1 DEF DInv, Versions, Leaving
<1>10. FromTheLast'
  <2> SUFFICES ASSUME NEW q \in Pods, Guarded(q)', version'[q] # setVersion
               PROVE  /\ (Leaving(q) \/ Ready(q))'
                      /\ q > Peer(q) => version'[Peer(q)] # setVersion
    BY DEF FromTheLast
  <2>1. q \notin gone
    BY <1>2
  <2>2. (Leaving(q) \/ Ready(q))'
    BY <1>1, <2>1 DEF DInv, FromTheLast, Leaving, Ready
  <2>3. q > Peer(q) => version'[Peer(q)] # setVersion
    <3>1. q > Peer(q) => Peer(q) \notin gone
      BY <1>1, <1>6, <2>1 DEF StaysAlone
    <3> QED
      BY <1>1, <2>1, <3>1, Peers DEF DInv, FromTheLast
  <2> QED
    BY <2>2, <2>3
<1>11. OneLeaves'
  <2> SUFFICES ASSUME NEW q \in Pods, Guarded(q)', Leaving(q)'
               PROVE  StaysAlone(Peer(q))'
    BY DEF OneLeaves
  <2>1. q \notin gone /\ Leaving(q)
    BY <1>1, <1>2 DEF Leaving
  <2>2. Peer(q) \notin gone
    BY <1>6, <2>1 DEF StaysAlone, Ready, Leaving
  <2> QED
    BY <1>5, <2>1, <2>2, Peers DEF DInv, OneLeaves
<1>12. TriesCounted'
  BY <1>1, <1>2, <1>4 DEF DInv, TriesCounted
<1> QED
  BY <1>7, <1>8, <1>9, <1>10, <1>11, <1>12 DEF DInv

LEMMA PodGoneStep ==
    ASSUME TypeOK, DInv, NEW p \in Pods, PodGone(p)
    PROVE  DInv'
<1>1. /\ {p} \in SUBSET Pods /\ Replace({p})
      /\ UNCHANGED <<setVersion, rolling, master, lost, exposed>>
  BY DEF PodGone, history
<1>2. \A q \in Pods : Guarded(q)' <=> Guarded(q)
  BY <1>1 DEF Guarded
<1>3. \A q \in {p} : Guarded(q)' => StaysAlone(Peer(q)) /\ Peer(q) \notin {p}
  BY <1>2, Peers DEF PodGone, DInv, OneLeaves, Leaving
<1> QED
  BY <1>1, <1>2, <1>3, ReplaceStep

\* The two pods of a chunk are on different nodes.
LEMMA NodeFailsStep ==
    ASSUME TypeOK, DInv, MasterReplicaApart, NEW n \in Nodes, NodeFails(n)
    PROVE  DInv'
<1> DEFINE gone == {p \in Pods : node[p] = n}
<1>1. /\ gone \in SUBSET Pods /\ Replace(gone)
      /\ UNCHANGED <<setVersion, rolling, master, lost>>
      /\ exposed' = exposed \cup {Chunk(p) : p \in {q \in gone : ~StaysAlone(Peer(q))}}
  BY DEF NodeFails
<1>2. \A p \in gone : Peer(p) \in Pods /\ Peer(p) \notin gone
  BY PodsAssumption, Peers DEF MasterReplicaApart
<1> HIDE DEF gone
<1>3. \A q \in Pods : Guarded(q)' => Guarded(q)
  BY <1>1 DEF Guarded
<1>4. \A q \in gone : Guarded(q)' => StaysAlone(Peer(q)) /\ Peer(q) \notin gone
  BY <1>1, <1>2 DEF Guarded
<1> QED
  BY <1>1, <1>3, <1>4, ReplaceStep

\* A rolling update takes a pod down only when the other one is ready, and not
\* about to go itself.
LEMMA PeerStays ==
    ASSUME DInv, NEW p \in Pods, Guarded(p), DeleteOutdated(p)
    PROVE  StaysAlone(Peer(p))
<1>1. Peer(p) \in Pods /\ Peer(Peer(p)) = p /\ Guarded(Peer(p))
  BY Peers, GuardedPeer
<1>2. CASE Peer(p) > p
  BY <1>1, <1>2 DEF DeleteOutdated, StaysAlone
<1>3. CASE p > Peer(p)
  <2>1. version[Peer(p)] # setVersion /\ version[p] # setVersion
    BY <1>1, <1>3 DEF DeleteOutdated, DInv, FromTheLast
  <2>2. ~Leaving(Peer(p))
    BY <1>1, <1>3, <2>1 DEF DInv, OneLeaves, StaysAlone
  <2>3. ~(Peer(p) > p)
    BY <1>3, FirstOrLast
  <2> QED
    BY <1>1, <2>1, <2>2, <2>3 DEF DInv, FromTheLast, StaysAlone
<1> QED
  BY <1>2, <1>3, FirstOrLast

LEMMA DeleteOutdatedStep ==
    ASSUME TypeOK, DInv, NEW p \in Pods, DeleteOutdated(p)
    PROVE  DInv'
<1> USE DEF DeleteOutdated, schedulerVars, history
<1>1. /\ \A q \in Pods : q # p => phase'[q] = phase[q]
      /\ phase[p] = "running" /\ phase'[p] = "preStop"
  BY DEF TypeOK
<1>2. \A q \in Pods : Guarded(q)' <=> Guarded(q)
  BY DEF Guarded
<1>3. \A q \in Pods, s \in Shards : /\ MasterOf(q, s)' = MasterOf(q, s)
                                    /\ HasData(q, s)' <=> HasData(q, s)
  BY DEF MasterOf, HasData
<1>4. \A q \in Pods : q # p /\ StaysAlone(q) => StaysAlone(q)'
  BY <1>1 DEF StaysAlone, Ready
<1>5. ASSUME NEW q \in Pods, StaysAlone(Peer(q)), Peer(q) = p PROVE phase[q] = "running"
  <2>1. q = Peer(p) /\ ~(p > q)
    BY <1>5, Peers DEF StaysAlone
  <2>2. q > p
    BY <2>1, FirstOrLast
  <2> QED
    BY <2>2 DEF Ready
<1>6. MastersKept'
  BY <1>1, <1>2, <1>3, <1>4, <1>5, Peers DEF DInv, MastersKept
<1>7. TagsKept'
  BY <1>1, <1>2, <1>3 DEF DInv, TagsKept
<1>8. Versions' /\ FromTheLast'
  BY <1>1, <1>2 DEF DInv, Versions, FromTheLast, Leaving, Ready
<1>9. OneLeaves'
  <2> SUFFICES ASSUME NEW q \in Pods, Guarded(q), Leaving(q)'
               PROVE  StaysAlone(Peer(q))'
    BY <1>2 DEF OneLeaves
  <2>1. CASE q = p
    BY <1>4, <2>1, PeerStays, Peers
  <2>2. CASE q # p
    <3>1. Leaving(q) /\ StaysAlone(Peer(q))
      BY <1>1, <2>2 DEF DInv, OneLeaves, Leaving
    <3>2. Peer(q) # p
      BY <1>5, <3>1 DEF Leaving
    <3> QED
      BY <1>4, <3>1, <3>2, Peers
  <2> QED
    BY <2>1, <2>2
<1>10. TriesCounted'
  BY <1>1, <1>2, <1>3 DEF DInv, TriesCounted
<1> QED
  BY <1>6, <1>7, <1>8, <1>9, <1>10 DEF DInv

\* A master that is gone is replaced by a pod that is ready.
LEMMA DetectFailureStep ==
    ASSUME TypeOK, DInv, NEW p \in Pods, DetectFailure(p)
    PROVE  DInv'
<1> USE DEF DetectFailure, schedulerVars, podVars
<1>1. phase[p] = "pending" \/ phase[p] = "shutdown"
  OBVIOUS
<1>2. Guarded(p) => Ready(Peer(p))
  <2>1. CASE phase[p] = "pending"
    BY <2>1 DEF DInv, MastersKept, LostMasters, StaysAlone
  <2>2. CASE phase[p] = "shutdown"
    BY <2>2 DEF DInv, OneLeaves, Leaving, StaysAlone
  <2> QED
    BY <1>1, <2>1, <2>2
<1>3. \A q \in Pods : /\ Guarded(q)' <=> Guarded(q)
                      /\ StaysAlone(q)' <=> StaysAlone(q)
                      /\ Ready(q)' <=> Ready(q)
  BY DEF Guarded, StaysAlone, Ready
<1>4. MastersKept' /\ TagsKept'
  BY <1>2, MovesToReady
<1>5. Versions' /\ FromTheLast' /\ OneLeaves'
  BY <1>3, Peers DEF DInv, Versions, FromTheLast, OneLeaves, Leaving
<1>6. TriesCounted'
  <2> SUFFICES ASSUME NEW q \in Pods, Guarded(q), phase[q] = "shutdown"
               PROVE  \/ tries[q] = serverProxyShutdownTime
                      \/ \A s \in Shards : MasterOf(q, s)' = Peer(q)
    BY <1>3 DEF TriesCounted
  <2>1. q # Peer(p)
    BY <1>2, GuardedPeer DEF Ready
  <2>2. \A s \in Shards : MasterOf(q, s)' = IF q = p THEN Peer(p) ELSE MasterOf(q, s)
    BY <2>1, FailoverKeeps
  <2> QED
    BY <2>2 DEF DInv, TriesCounted
<1> QED
  BY <1>4, <1>5, <1>6 DEF DInv

LEMMA CompleteRollingUpdateStep ==
    ASSUME DInv, CompleteRollingUpdate
    PROVE  DInv'
<1> USE DEF CompleteRollingUpdate, schedulerVars, podVars, history
<1>1. \A q \in Pods : version[q] = setVersion
  BY DEF AllUpdated
<1>2. MastersKept' /\ TagsKept'
  BY DEF DInv, MastersKept, TagsKept, Guarded, MasterOf, HasData, StaysAlone, Ready
<1>3. Versions' /\ FromTheLast'
  BY <1>1 DEF DInv, Versions, FromTheLast, Leaving
<1>4. OneLeaves' /\ TriesCounted'
  BY DEF DInv, OneLeaves, TriesCounted, Guarded, MasterOf, StaysAlone, Ready, Leaving
<1> QED
  BY <1>2, <1>3, <1>4 DEF DInv

\* The chunks that stay guarded are ready as a whole.
LEMMA RollingUpdateStep ==
    ASSUME TypeOK, DInv, RollingUpdate
    PROVE  DInv'
<1> USE DEF RollingUpdate, schedulerVars, podVars
<1>1. \A q \in Pods : phase[q] # "pending" /\ ~Leaving(q) /\ version[q] = setVersion
  BY DEF StorageAllReadyAndStable, DInv, Versions
<1>2. \A q \in Pods : Guarded(q)' => Guarded(q) /\ Ready(q)
  BY DEF Guarded
<1>3. \A q \in Pods : version[q] <= setVersion' /\ version[q] # setVersion'
  BY <1>1 DEF TypeOK
<1>4. \A q \in Pods, s \in Shards : /\ MasterOf(q, s)' = MasterOf(q, s)
                                    /\ HasData(q, s)' <=> HasData(q, s)
  BY DEF MasterOf, HasData
<1>5. MastersKept' /\ TagsKept'
  BY <1>1, <1>2, <1>4 DEF DInv, MastersKept, TagsKept
<1>6. Versions' /\ OneLeaves' /\ TriesCounted'
  BY <1>1, <1>3 DEF Versions, OneLeaves, TriesCounted, Leaving
<1>7. FromTheLast'
  BY <1>2, <1>3, Peers DEF FromTheLast, Ready
<1> QED
  BY <1>5, <1>6, <1>7 DEF DInv

LEMMA DStep ==
    ASSUME TypeOK, TypeOK', DInv, MasterReplicaApart, [Next]_vars
    PROVE  DInv'
<1>1. CASE SchedulerStep
  BY <1>1, FrameStep DEF SchedulerStep
<1>2. ASSUME NEW p \in Pods, Progress(p) PROVE DInv'
  BY <1>2, PodStartsStep, SetClusterStep, PreStopStep, PodGoneStep, DeleteOutdatedStep,
     DetectFailureStep, ReplicateStep, PingStep, RedisReadinessStep DEF Progress
<1>3. CASE CompleteRollingUpdate \/ RollingUpdate
  BY <1>3, CompleteRollingUpdateStep, RollingUpdateStep
<1>4. ASSUME NEW n \in Nodes, NodeFails(n) PROVE DInv'
  BY <1>4, NodeFailsStep
<1>5. CASE SchedulerCrash
  BY <1>5, FrameStep DEF SchedulerCrash
<1>6. CASE UNCHANGED vars
  BY <1>6, FrameStep DEF vars
<1> QED
  BY <1>1, <1>2, <1>3, <1>4, <1>5, <1>6 DEF Next

\* What the updates and failures keep, for every number of chunks and nodes.
LEMMA DataInvariant == Spec => [](TypeOK /\ DInv)
<1>1. Init => TypeOK /\ DInv
  BY InitType, InitDInv
<1>2. TypeOK /\ DInv /\ MasterReplicaApart /\ [Next]_vars => (TypeOK /\ DInv)'
  BY StepType, DStep
<1> QED
  BY <1>1, <1>2, NeverTogether, PTL DEF Spec

LEMMA DataKept == TypeOK /\ DInv => ShardKept
<1> SUFFICES ASSUME TypeOK, DInv, NEW p \in Pods, NEW s \in Shards, Guarded(p)
             PROVE  HasData(p, s) \/ HasData(Peer(p), s)
  BY DEF ShardKept
<1>1. PICK q \in {p, Peer(p)} : q \in Pods /\ MasterOf(q, s) = q /\ Guarded(q)
  BY MasterInChunk, GuardedPeer
<1>2. HasData(q, s) \/ HasData(Peer(q), s)
  <2>1. CASE StaysAlone(Peer(q))
    BY <1>1, <2>1, Peers, GuardedPeer, ReadyHasData DEF StaysAlone
  <2> QED
    BY <1>1, <2>1 DEF DInv, MastersKept
<1> QED
  BY <1>1, <1>2, Peers

\* No rolling update and no failed node costs a guarded chunk more than the lag
\* that the probe accepts, at each change of a master: for every threshold,
\* every number of tries and any number of faults.
THEOREM NothingLost == Spec => []ShardKept
BY DataKept, DataInvariant, PTL

\* When the proxy of a guarded chunk is shut down the other pod serves and has
\* the data, and it is the master unless every try of the preStop hook failed.
THEOREM HandsOver == Spec => []HandsOverBeforeShutdown
<1>1. TypeOK /\ DInv => HandsOverBeforeShutdown
  <2> SUFFICES ASSUME DInv, NEW p \in Pods, Guarded(p), phase[p] = "shutdown"
               PROVE  /\ Serves(Peer(p))
                      /\ \A s \in Shards : HasData(Peer(p), s)
                      /\ \/ tries[p] = serverProxyShutdownTime
                         \/ \A s \in Shards : MasterOf(p, s) = Peer(p)
    BY DEF HandsOverBeforeShutdown
  <2>1. Ready(Peer(p))
    BY DEF DInv, OneLeaves, Leaving, StaysAlone
  <2>2. \A s \in Shards : HasData(Peer(p), s)
    BY <2>1, Peers, GuardedPeer, ReadyHasData
  <2> QED
    BY <2>1, <2>2 DEF DInv, TriesCounted, Ready, Serves
<1> QED
  BY <1>1, DataInvariant, PTL

\* A rolling update takes no pod of a guarded chunk down before the other one
\* has the data, but for the lag that the probe accepts.
THEOREM ProbeBeforeReboot == Spec => RebootsAfterProbe
<1> DEFINE Goes == \A p \in Pods :
                      Guarded(p) /\ phase[p] = "running" /\ phase'[p] = "preStop" =>
                          \A s \in Shards : HasData(Peer(p), s)
<1>1. TypeOK /\ DInv /\ [Next]_vars => [Goes]_vars
  <2> SUFFICES ASSUME TypeOK, DInv, Next, NEW p \in Pods, Guarded(p),
                      phase[p] = "running", phase'[p] = "preStop"
               PROVE  \A s \in Shards : HasData(Peer(p), s)
    OBVIOUS
  <2>1. DeleteOutdated(p)
    <3>1. ASSUME NEW n \in Nodes, NodeFails(n) PROVE FALSE
      BY <3>1 DEF NodeFails, Replace
    <3>2. ASSUME NEW q \in Pods, Progress(q) PROVE DeleteOutdated(p)
      <4>1. CASE PodGone(q)
        BY <4>1 DEF PodGone, Replace
      <4>2. CASE PreStop(q)
        BY <4>2 DEF PreStop, TypeOK
      <4>3. CASE PodStarts(q)
        BY <4>3 DEF PodStarts, TypeOK
      <4>4. CASE DeleteOutdated(q)
        BY <4>4 DEF DeleteOutdated, TypeOK
      <4>5. UNCHANGED phase => FALSE
        OBVIOUS
      <4> QED
        BY <3>2, <4>1, <4>2, <4>3, <4>4, <4>5 DEF Progress, SetCluster, DetectFailure,
           Replicate, Ping, RedisReadiness, podVars
    <3> QED
      BY <3>1, <3>2 DEF Next, SchedulerStep, CompleteRollingUpdate, RollingUpdate,
         SchedulerCrash, podVars
  <2>2. StaysAlone(Peer(p))
    BY <2>1, PeerStays
  <2> QED
    BY <2>2, Peers, GuardedPeer, ReadyHasData DEF StaysAlone
<1> QED
  BY <1>1, DataInvariant, PTL DEF Spec, RebootsAfterProbe

=============================================================================
