# Verification of undermoon-operator

TLA+ models, TLC runs and TLAPS proofs for the Kubernetes operator in `src/`.

## 1. Inventory

The operator turns one `Undermoon` custom resource (CR) into a broker, a
coordinator and a storage StatefulSet, and drives the brokers over HTTP so that
the Redis cluster they manage has the size the CR asks for.

| component | source | state it keeps | operations | interacts with |
|---|---|---|---|---|
| Reconcile loop | `controllers/undermoon_controller.go` | none between calls; within a call a copy of the CR and of three StatefulSets | `Reconcile`, `createResources`, `brokerAndCoordinatorReady`, `triggerRollingUpdate` | everything below; woken by a work queue (CR, StatefulSet, Service events, requeues) |
| Storage controller | `controllers/storage_controller.go`, `storage.go` | StatefulSet `spec.replicas`, CR `status.scaleState`, `status.scaleDownWaitTimestamp` | `createStorage`, `scaleDownStorageStatefulSet`, `setScaleState`, `updateStorageStatefulSet`, `storageAllReady(AndStable)`, `getServerProxies` | API server (optimistic concurrency), Endpoints |
| Meta controller | `controllers/meta_controller.go`, `broker_client.go` | cluster metadata inside the broker | `reconcileMeta`, `changeMeta`, register/deregister proxies, `createCluster`, `changeNodeNumber` | broker HTTP API |
| Metadata store | `controllers/meta_controller.go`, `meta_server.go` | one ConfigMap per CR (compressed broker metadata) | `handleGetMeta`, `handleUpdateMeta`, `initOrUpdateExternalStore` | brokers (several concurrent requests), API server |
| Broker controller | `controllers/broker_controller.go`, `broker.go` | each broker's replica list, epoch | `reconcileMaster`, `getCurrentMaster`, `setBrokerReplicas`, rolling update | broker HTTP API |
| Coordinator controller | `controllers/coordinator_controller.go`, `coordinator.go`, `coordinator_client.go` | broker address in each coordinator | `configSetBroker`, rolling update | coordinators (Redis protocol) |
| Pod scripts | `controllers/storage.go`, `scripts/redis-readiness.sh` | tag file | readiness probe, preStop failover loop | Redis, broker |
| Scheduler plugin | `scheduler/pkg/plugin.go` | none | `Filter` | kube-scheduler |
| Checker | `checker/pkg/*.go` | expected key/value map, MONITOR ring buffer | `checkSet/MSet/Get/MGet/Del/Lua*`, `Exec`, `ringBuf` | Redis cluster |
| Creation guards | `controllers/utils.go`, `getOrCreate...` of all controllers | ten objects per CR, owned by it | `create...Guard`, owner references | API server, garbage collector |
| Chaos test | `chaostest/*.py` | expected keys | the same checks from Python, random scaling and killing | kubectl, Redis cluster |

Interactions. `Reconcile` runs for one CR at a time (the work queue never hands
the same request to two workers) but is a sequence of independent calls. Between
two of them the user edits the CR, the StatefulSet and Endpoints controllers move
pods, the informers bring new copies to the operator's cache, the brokers move
slots, and the brokers call back into the metadata server of the same process.
Every read of Kubernetes goes through a cache that may be old; every update is
checked by the API server against the `resourceVersion` that was read. Broker and
coordinator calls have no such check.

What is hard here:

- an early return without a requeue puts the operator to sleep, and slot
  migration, broker restarts and Endpoints changes wake nobody up;
- decisions made on old copies: the number of chunks with slots, StatefulSet
  statuses, Endpoints, the version of the metadata;
- half-done sequences: `scaleNodes` without `removeFreeNodes`, a shrunk
  StatefulSet without the reset of the scale state, a new master next to an old
  one, some coordinators told and others not;
- retries of what has already been done, by brokers and by the operator;
- whole-spec replacement of a StatefulSet during scaling;
- pods that are replaced with their data, where only a tag file, a probe and a
  shell loop keep the last copy alive;
- objects found by name that belong to a CR that was deleted.

What makes each component correct:

| component | property |
|---|---|
| Reconcile loop | it rests only when there is nothing left to do; with faults over, the CR is realised |
| Storage and meta controllers | pods are removed only from chunks without slots; edits converge, unless they leave a migration to a pod that is gone |
| Metadata store | an acknowledged update is never lost; concurrent handlers behave like one atomic register; a broker that retries gets through |
| Rolling update | an image goes to broker, coordinator, storage in this order; the last edit reaches every pod, also when it is made during an update |
| Master election | two masters are never left alone; brokers and coordinators come to agree; one live broker is enough |
| Creation guards | the operator does not sleep on a missing object; in the end all objects belong to the CR that is there |
| Pod scripts | through updates and node failures a shard loses no more than the accepted lag per change of its master; masters move before their proxy stops, unless the tries are used up; the rollout ends |
| Checker | no false alarm: a reported mismatch means that the cluster lost a value; a loss is found; one error ends all |
| Scheduler plugin | the two pods of a chunk are never placed on one node |

## 2. Plan

Order: the behaviour whose failure loses data first.

1. `StorageScaling`: scaling of storage, done, with `StorageScalingProofs` and the
   comments of the code as claims in `ScalingClaims`.
2. `MetaRegister` (abstract) and `MetaStore` (detailed), done, with
   `MetaStoreProofs`; the refinement is proved.
3. `Upgrade` (abstract) and `RollingUpdate` (detailed), done, with
   `RollingUpdateProofs`; the refinement is proved.
4. `BrokerMaster`, done, with `BrokerMasterProofs`.
5. `Scheduler` and on top of it `StoragePods`: the scheduler plugin, the readiness
   script and the preStop loop, done, with `StoragePodsProofs`.
6. `Creation`: the objects of `createResources` and their guards, done, with
   `CreationProofs`.
7. `Checker` and `RingBuf`: the checks of `kv.go`, the redirection loop of
   `client.go`, the ring buffer of `monitor.go`, done, with `CheckerProofs` and
   `RingBufProofs`.
8. `Comparison`: the comparison of environments and resources, done, with theorems
   in `RollingUpdateProofs`.

Every safety property of a run is also a theorem. An abstract specification of the
storage size ("slots are only on chunks whose pods are asked for") is not stated
because the code does not implement it, see `Convergence` in section 4. Left:
abstract specifications of the copies of a shard (`StoragePods`: a master moves only
to a copy within the accepted lag, the last one is never dropped) and of the
values that `Checker` expects.

## 3. Modules and how they correspond to the code

The models of the operator have the same shape. `pc` names the next call of the
reconcile in progress and `local` holds its Go variables; `Retry` is every return
with an error or with `Requeue`; `queued` is the work queue. An object the
operator read is kept with a flag (`...Fresh`) that says whether its
`resourceVersion` is still the current one: a write succeeds when it is and
conflicts otherwise. `Abort` is any call that fails (before or after its effect)
and the restart of the operator. `map` in `PROJECT.json` has the source lines of
every definition.

**StorageScaling.** The reconcile from `createStorage` to the end. State: the CR
(`crChunk`, `scaleState`, `waited` = time since the timestamp), the storage
StatefulSet and its cached copy, pod phases, Endpoints, and the broker's view:
registered proxies, chunks of the cluster (`nodes`), chunks with slots
(`slotted`), goal of the running migration (`target`). Actions carry the names of
the functions: `CreateStatefulSet`/`ScaleOut` are `createStorage`,
`RegisterProxies` and `DeregisterProxies` the two `reconcileMeta` calls,
`ScaleNodes` and `RemoveFreeNodes` are `changeMeta`, `ScaleDownSkip`,
`ScaleDownWait`, `ScaleDown`, `SetStable` are `scaleDownStorageStatefulSet`.
`ReconcileMaster` matters here for one thing only: the status patch replaces the
operator's copy of the CR by the current one. `RollStorage` is a rolling update of
the storage in the middle of scaling, which writes `replicas` too. `crCacheFresh`
and `ssCacheFresh` say whether the informer has delivered the last version of an
object, by version and not by value: two edits there and back still bring an event
each. The StatefulSet controller writes a status only after it has created and
deleted the pods that `replicas` asks for (`PodsAsSpecified`).

**ScalingClaims** extends it with a clock of its own and states two comments of
the code. The requests to the broker (`RegisterServerProxy`, `PostCluster`,
`DeleteFreeNodes` and so on) are operators of their own, with the answers that the
operator tells apart.

**MetaStore.** `store` is the ConfigMap, `cache` the informer's copy, `handler`
the requests in the server between their steps, `view` what each broker read last.
Metadata is abstracted to the set of changes it includes. **MetaRegister** is the
promise: one set, changed and acknowledged atomically.

**RollingUpdate.** Templates have an image, resources (with the environment) and
the migration limit, by number of the edit; `Editable` names the fields the user
edits. `triggerRollingUpdate` is `TriggerRollingUpdate` and `NextComponent` over
`local.rolling`. The steps before it only read: `CreateResources` the three
StatefulSets, `ReconcileMaster` the Endpoints and the CR. The code reads one object
after the other; since caches and Endpoints are delivered with any delay, object by
object, a change that comes between two reads is one that comes after them (or,
for an edit of the CR, before them), and one step for them loses nothing.
Kubernetes restarts outdated pods one by one, the last one first. Endpoints count
the pods that are up. The storage service also publishes pods that run and are not
ready, which the model has only as a delayed change: it may hold the operator back
longer than the code, and no proof depends on these numbers.
**Upgrade** is the promise: parts of a cluster take over newer versions one part
at a time, each not before the part it depends on, and never an older one.
**Comparison** has the functions of `utils.go` behind "changed". Its `ASSUME`s
compare them with reference definitions (what a process sees of its environment;
equality by amount) over all small lists.

**BrokerMaster.** The calls of `reconcileMaster`, `configSetBroker` and
`setBrokerReplicas` one by one. A broker is master when its replica list is not
empty. A pod that comes back has lost its memory or still has it. The epoch a
broker answers is any number.

**Creation.** The first part of every reconcile: each object is looked up by name
in the cache (`GetObject`) and created when it is not there (`CreateObject`), with
up to three tries on `AlreadyExists`. A CR is a uid; an object is the uid of its
owner. The user creates, deletes and creates the CR again, the garbage collector
removes objects of old CRs when it comes to them, and events of the ConfigMap and
the Secret wake nobody (`Watched`). `MCCreation` has one object of each kind.

**Scheduler** is one kube-scheduler with the plugin: pods it has placed on nodes
(`cache`, including those not bound yet), pods as they are bound (`node`),
deletions it has not seen. `Filter` is the plugin. **StoragePods** puts the life
of the pods on top of it: `RedisReadiness` is the whole readiness script of one
Redis (tag file, role, offsets), `PreStop` one turn of the failover loop or its
end with SHUTDOWN, `DeleteOutdated` the StatefulSet controller, which replaces the
last outdated pod when the pods after it are ready; those before it need not be.
Replication, failover and node failures are external. A replication offset stands
for the data of a copy. `StorageAllReadyAndStable` is the operator's condition to
start an update: it does not ask for pods that are ready, and neither does the
model. A node may fail at any moment, and the preStop loop may use up its tries.

Two history variables say what the scripts do not promise. `lost` adds up, for
each shard, the lag that the probe accepts (`OFFSET_THRESHOLD - 1`, 9999 in the
code) at each change of its master: a replica that is ready may be that far behind
when it becomes the master. `exposed` has the chunks that met one of three events
no script provides for: the template was edited while a pod of the chunk was not
ready; a node failed while the other pod of the chunk was not ready or was the next
to be updated; a master came back empty before the broker had moved it, as after a
preStop hook without an answer. `HasData` and `Guarded` are stated with them, and
nothing in the model is held back by them. In an exposed chunk a shard can be lost:
an empty master is then all there is, `Ping` lets its replicas get ready, and the
update still ends (`RollingUpdateEnds` has no such exception).

**Checker.** Per checker the expected values, the command under way, the number of
tries and the result; the cluster is the map of stored values. `CheckKeyValue`
picks the keys of one of the seven checks, `Execute` is the cluster applying the
command, `Answered`, `Moved` and `Failed` are the three ways out of a turn of
`Exec`, `Continue` is what the check does with the answer. `Lose` is a cluster
that loses a value. The wait for the rate limiter is part of the start of a check.
**RingBuf** has the ring buffer as operators; its `ASSUME` runs lines through it.

Four modules cut `Reconcile` into overlapping parts: each keeps the calls its
state depends on and leaves what the others do open as a step that may fail.

## 4. Runs

| run | states | what it shows |
|---|---|---|
| StorageScaling | 1.3 million | one edit and one fault at any moment: types, `ShrinkOnlyDrained`, `RestsOnlyWhenDone`, `Convergence` |
| StorageScalingLive | 918 000 | three edits at any moment: `Convergence` |
| MetaStore | 350 000 | two brokers, three concurrent requests, one timeout or restart: `NoLostUpdate`, refinement `AtomicRegister`, `EveryChangeStored` |
| RollingUpdate | 937 000 | two edits of the image at any moment, or one edit and one fault: `UpgradeOrder`, `RestsOnlyWhenUpdated`, refinement `OrderedUpgrade`, `RollingUpdateCompletes` |
| BrokerMaster | 40 000 | one fault: `SplitBrainIsTemporary`, `MasterAgreed`, `FailoverCompletes` |
| StoragePods | 718 000 | one chunk on two nodes, a rolling update and two faults at any moment: `MasterReplicaApart`, `ShardKept`, `HandsOverBeforeShutdown`, `RebootsAfterProbe`, `RollingUpdateEnds` |
| Checker | 281 000 | two checkers, three keys each, two writing checks, one loss: `NoFalseAlarm`, `LossIsFound`, `ErrorEndsAll` |
| Creation | 201 000 | two CRs of one name after each other, one fault: `RestsOnlyWhenCreated`, `OwnedInTheEnd` |
| ClaimWait, ClaimTerminating, ClaimAllAtOnce, ClaimReboot | stop at the counterexample | a comment of the code that the code does not keep, see section 7 |

Bounds. `chunkShardNumber` is 1 instead of 2 and `MaxChunk` is 2: scaling up, down
and back needs two sizes, and a chunk's pods are treated alike by the operator.
`scaleDownWaitTime` is one tick: over or not. `BrokerMaster` has the real two
brokers and two coordinators. In `RollingUpdate` `MaxEvents = 2` allows two
edits of the image, the second at any moment of the update that the first one
brings, or an edit and a fault. One pod per component and one field make that fit
the time of a run; with one broker "all but one are ready" is always true, while
the coordinator's and the storage's conditions and `BrokerAllReady` are not. Other
fields and numbers of pods are covered by the theorems, except in
`RollingUpdateCompletes`. The claim has two pods of each component, so that old and
new pods run side by side.

`StoragePods` has one chunk on two nodes: shards of different chunks have nothing
in common but the order of the rollout, and with two chunks a fault at any moment
does not fit the time of a run; the theorems have any number of chunks and nodes. A
fault is a failed preStop call, a failed node or a restart of the scheduler.
`serverProxyShutdownTime` is 2, as many as there are faults, so that all tries can
fail. `OFFSET_THRESHOLD` is 2 and a full copy 3: the probe accepts a lag of 1, and a
copy that lacks it, one that lacks more, and an empty one differ. `ClaimReboot`
sets the threshold to 1, no lag at all, to show that its counterexample is not one
of the threshold.

`Checker` has one slot with two keys and
one Lua key per checker, so that commands with several keys exist; two tries stand
for five. `Creation` treats all objects of a kind alike, so one of each, in the
order of the code, is enough.

`Convergence` says that the cluster gets to the size asked for and stays there, or
ends up `Stranded`: with a migration to a pod that is not there and not asked for.
That happens with three edits. The cluster is shrunk to one chunk, and the user
asks for two chunks while the cached StatefulSet still says that both pods are
there: the operator starts a migration to a pod that is already gone (the flaw of
`ClaimTerminating`). If the user goes back to one chunk before the pod is created
again, that migration cannot end, the broker refuses every other one, and the
operator retries until somebody asks for two chunks again. The run with three edits
reaches this case and shows that it is the only one; the run with one edit and one
fault shows that a fault adds none.

Edits and faults are budgets that may be spent at any moment; one fault is enough
for a split brain (a master out of reach, still in the Endpoints, comes back with
its list). Every run without a deadlock check is of a system that
rests when its work is done; `BrokerMaster` and `Creation` never rest because of
the resync.

## 5. Fairness

No fault, edit, crash or failed call is fair. What is weakly fair: the reconcile
in progress and the work queue (a controller-runtime worker is always there, and
`Requeue` and errors put the request back); delivery of caches, StatefulSet status
and Endpoints (Kubernetes controllers); the clock; pods that start, stop and
restart; a migration whose proxies run. In `MetaStore` the reads and updates of a
broker are strongly fair: it goes on trying whenever it can, and its chance comes
and goes with the requests of others. In `BrokerMaster` a pod that is down need
not come back, and the periodic resync of the cache (ten hours unless configured,
`main.go` leaves the default) is fair. That one is needed: without it
`MasterAgreed` fails, because `configSetBroker` returns only the error of the last
coordinator, and the operator then sleeps although an earlier coordinator was not
told its broker.

`Creation` needs the resync for the same reason: nobody tells the operator of a
ConfigMap or Secret that was collected late. In `StoragePods` the scheduler, the
life of every pod (start, probe, roles, replication, preStop turns, replacement)
and the end of a rollout are weakly fair; faults and edits are not. In `Checker`
every checker goes on (its steps and the dump, which needs `monitorEnabled`, are
weakly fair), and a check that
would read a wrong value is strongly fair, because keys are chosen at random and
every choice comes up again and again.

## 6. Proofs

| theorem | for every |
|---|---|
| `StorageScalingProofs!TypeCorrect`, `NeverShrinksOntoSlots`, `NoWorkIsMissed` | number of chunks, shards, edits, faults, wait |
| `MetaStoreProofs!TypeCorrect`, `UpdatesKept`, `Implements` | set of brokers and handlers, changes, faults |
| `RollingUpdateProofs!TypeCorrect`, `UpgradesInOrder`, `NoEditIsMissed`, `UpgradesStepByStep` | number of pods, edits, faults |
| `RollingUpdateProofs!ReplacedOnce`, `ReplacedForADifference`, `OwnVariableFound`, `SameResources` | environment and resource lists of any length |
| `BrokerMasterProofs!TypeCorrect`, `SplitBrainHeals` | set of coordinators, epochs, faults; two brokers |
| `StoragePodsProofs!TypeCorrect`, `NeverTogether`, `NothingLost`, `HandsOver`, `ProbeBeforeReboot` | number of chunks, set of nodes, threshold, tries, updates, faults |
| `CreationProofs!TypeCorrect`, `NeverSleepsOnMissing` | list of objects, number of CRs and faults |
| `CheckerProofs!TypeCorrect`, `AlarmsAreTrue` | set of checkers, keys, tries, losses |
| `RingBufProofs!NewIsEmpty`, `AddKeepsTheLast` | capacity above one, any lines |

Assumptions are the `ASSUME`s of the models (`ScalingAssumption`,
`MetaAssumption`, `RollingAssumption`, `BrokerAssumption`, `PodsAssumption`,
`CreationAssumption`, `CheckerAssumption`): numbers are natural numbers and counts
of pods are positive; `BrokerMaster` also assumes the two brokers the code has,
and `StoragePods` that the threshold is at least 1 and not above a full copy.

The arguments:

- *Scaling.* A shrink uses a number of slots read earlier, so the property is not
  inductive. The invariant `IInv` adds: a copy marked fresh is the stored object;
  a migration only lowers the number of chunks with slots (a scale-up counts them
  at once); after the second `getClusterInfo` the number read bounds the number of
  chunks with slots, since only the operator itself starts a scale-up; and a
  rolling update starts only from a copy that already has the replicas asked for.
- *Scaling, at rest.* `NoWorkIsMissed` needs, at every step of a reconcile, that
  what the steps before it have done is still done or that something will wake the
  operator: a request in the queue, or an object its cache has not seen. `Resting`
  says so: `CRSeen` and `CopySeen` (without such an event the copies in the
  reconcile are current), `TargetIsCR` and `NodesFollow` (after `scaleNodes` the
  cluster has the size asked for, or is being drained to it, or has been drained
  and the StatefulSet still has to follow), `RestsWithTarget` (a migration that
  goes on while the operator sleeps takes no slots away). The hard case is a
  migration that ends in the middle of a reconcile and leaves free nodes that the
  reconcile has gone past. It takes running pods beyond the new size; by
  `PodsCounted` (a pod that is not being deleted is asked for, or still in the
  status) and `CopyWasStable` the StatefulSet then still has too many replicas, so
  that the shrink that follows, or the wait before it, brings another reconcile.
- *Metadata.* A handler that passed the pre-check carries data made from the store
  at its version; versions only grow, so when the API server accepts the write,
  the store is the one the data was made from. Hence no change is dropped, and
  each step is a step or a stutter of `MetaRegister`.
- *Rolling update.* Images only grow. `BehindTheCR`: no StatefulSet has a newer
  image than the CR the operator works with. `CopiesBehind`: a copy of a
  StatefulSet, in the cache or in the reconcile, is never newer than the
  StatefulSet. `Passed`: what the reconcile has gone past has the image of its CR.
  So the image written next is not newer than the ones before it, and that the
  copy is current is not even needed. `UpgradesStepByStep` maps an edit of the
  image to `Ask` and the write of a StatefulSet to `Install`, or to a stutter when its
  image is the same; by `BehindTheCR` no write takes an image back. That rests on
  the status patch of `reconcileMaster`, whose answer replaces the copy of the CR:
  with the cached copy an image could go back to the one before (the mutant
  `ReconcileMaster_IfChanged`).
- *Rolling update, at rest.* `EditsCounted` (fields have numbers of edits made, so
  a new edit never looks like an old CR), `ReadFromCache` and `CRIsCurrent` (the
  copies in the reconcile are current unless an event or a request is waiting),
  `PassedAreDone` (a component that the reconcile has gone past does not need an
  update). At the end of the loop all three are passed.
- *Election.* With two brokers, a master that lists a replica lists all others;
  the loop that follows clears them, and any error in it requeues. With three the
  argument fails: a broker missing from the Endpoints keeps its list.
- *Storage pods.* `SInv` is about the scheduler alone: what is bound is in its
  cache or a deletion it has not seen, and no two pods of a shard share a node in
  the cache. That the filter sees pods that are not bound yet is what makes
  `NeverTogether` true without a lock. `DInv` is about the data of the chunks that
  are not exposed: `MastersKept` (a master has the data, except one that went down
  with its pod and whose peer has it), `TagsKept` (a tag file means a copy within
  the accepted lag: a new Redis is started as a replica of port 0, so that the
  probe does not take it for a master before it has a role), `Versions` and
  `FromTheLast` (only outdated pods leave, a chunk from its last pod to its
  first), `OneLeaves` (the peer of a pod that leaves stays, with the data) and
  `TriesCounted` (a proxy that is shut down with tries left has handed over its
  masters). They are preserved only together. A change of the master may cost the
  lag once more; `lost` counts exactly that, so each step needs only one addition.
- *Creation.* `CacheSeen`: without an event on the way the cache is what it
  copies. `Noticed`: a watched object that is missing has an event on the way, or
  a request in the queue, or a reconcile that has not come to it.
- *Checker.* `Shape`: scripts work on the Lua keys only, the other commands never
  do; `Match`: as long as none of its keys was lost, a checker that goes on
  expects what the cluster has. A checker that gets an error to a write returns,
  so it never compares against a value it is unsure of.
- *Ring buffer.* With one slot free, start, end and length determine each other;
  the proof is arithmetic modulo the capacity, by cases on the wrap-around.

Only model-checked: liveness (`Convergence`, `EveryChangeStored`,
`RollingUpdateCompletes`, `MasterAgreed`, `FailoverCompletes`, `RollingUpdateEnds`,
`LossIsFound`, `ErrorEndsAll`, `OwnedInTheEnd`), which is out of the prover's
reach under fairness.

## 7. Where code and comments disagree

Each is a run that TLC ends with a counterexample.

1. *ClaimWait.* The wait before a scale-down is meant to protect connections, but
   its start time survives a cancelled scale-down (or a conflict when the state is
   reset), and the next scale-down does not wait.
2. *ClaimTerminating.* Slots can be given to a chunk whose pod terminates: the
   StatefulSet status that says "stable" may be older than the last change of
   `replicas`.
3. *ClaimAllAtOnce.* The forced retry does not keep the three components from
   restarting together: readiness still counts the old pods.
4. *ClaimReboot.* A pod is counted as there before it has synchronised, since the
   storage service publishes pods that are not ready. A template edited at that
   moment starts a rolling update, and the pod that is ready and has the data may be
   the first to go. The shortest case is a new cluster whose second pod is ready
   before the first one has copied its shard; the same happens after a node has
   failed, when the pod that goes has the only copy. The comment says "all the
   data", which the threshold of the probe (10000) does not ask for either:
   `RebootsAfterProbe` is what is left of it.

## 8. Not modelled

- Contents of services, the text of addresses, names and logs.
- Authentication and compression in the metadata server: no state of their own.
- In the checker, the table of slot tags (`slot.go`, which finds one string for
  each slot), the goroutine that reads MONITOR lines, and the command line. The
  retries inside the Redis client library are outside of the repository.
- How long a call takes: a preStop loop that is cut off by the grace period of the
  pod is one that has used up its tries.
- Two kube-schedulers at once: their caches would be independent, and the plugin
  has no lock.
- The Python chaos test, start-up code, generated code, YAML and Helm charts.
- Deletion of the CR has no handler in the code; the garbage collector in
  `Creation` is external.
