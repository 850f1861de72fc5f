----------------------------- MODULE MetaStore -----------------------------
(***************************************************************************)
(* The metadata server of the operator: brokers keep their metadata in one *)
(* ConfigMap through two HTTP handlers, handleGetMeta and                  *)
(* handleUpdateMeta.  Handlers run concurrently and read the ConfigMap     *)
(* from the informer cache, which lags behind the API server; only the     *)
(* final write is checked by the API server against a resourceVersion.     *)
(*                                                                         *)
(* Brokers are external: a broker reads the metadata, adds a change and    *)
(* sends the result with the version it read, or sends an initial store    *)
(* with no version.  It retries what was not acknowledged, also while the  *)
(* handler of an earlier attempt still runs.                               *)
(***************************************************************************)
EXTENDS Integers

CONSTANTS
    Brokers,
    Handlers,    \* requests the server works on at the same time
    MaxChanges,  \* bound on the changes of each broker
    MaxFaults    \* bound on requests given up or lost

ASSUME MetaAssumption ==
    /\ MaxChanges \in Nat
    /\ MaxFaults \in Nat

\* The n-th change of a broker; number 0 is the store it initialises with.
Changes == Brokers \X (0..MaxChanges)

VARIABLES
    store,    \* the ConfigMap in the API server; version 0: not created
    cache,    \* the ConfigMap in the informer cache
    view,     \* what each broker got from its last read; version 0: nothing
    waiting,  \* the handlers each broker waits for: one, or none
    handler,  \* the requests in the server
    acked,    \* updates (not initial stores) acknowledged to their broker
    faults    \* faults so far

vars == <<store, cache, view, waiting, handler, acked, faults>>

Snapshots == [version : Nat, data : SUBSET Changes]
Nothing == [version |-> 0, data |-> {}]

\* isInit: the request had no version; status: the answer, once there is one.
Requests == [pc : {"Init", "Update", "Write", "Reply"}, change : Changes,
             version : Nat, data : SUBSET Changes, isInit : BOOLEAN,
             status : {0, 200, 400, 409}]
Free == [pc |-> "Free"]

TypeOK ==
    /\ store \in Snapshots
    /\ cache \in Snapshots
    /\ view \in [Brokers -> Snapshots]
    /\ waiting \in [Brokers -> SUBSET Handlers]
    /\ handler \in [Handlers -> Requests \cup {Free}]
    /\ acked \in SUBSET Changes
    /\ faults \in 0..MaxFaults

Init ==
    /\ store = Nothing
    /\ cache = Nothing
    /\ view = [b \in Brokers |-> Nothing]
    /\ waiting = [b \in Brokers |-> {}]
    /\ handler = [h \in Handlers |-> Free]
    /\ acked = {}
    /\ faults = 0

-----------------------------------------------------------------------------
(* The operator and its informer *)

\* getOrCreateConfigMap, from a reconcile that does not see the ConfigMap;
\* Create fails when it exists.
CreateConfigMap ==
    /\ cache.version = 0
    /\ store.version = 0
    /\ store' = [version |-> 1, data |-> {}]
    /\ UNCHANGED <<cache, view, waiting, handler, acked, faults>>

SyncCache ==
    /\ cache # store
    /\ cache' = store
    /\ UNCHANGED <<store, view, waiting, handler, acked, faults>>

-----------------------------------------------------------------------------
(* Requests of the brokers *)

\* handleGetMeta answers from the cache; without a ConfigMap it is an error.
HandleGetMeta(b) ==
    /\ waiting[b] = {}
    /\ cache.version # 0
    /\ view[b] # cache
    /\ view' = [view EXCEPT ![b] = cache]
    /\ UNCHANGED <<store, cache, waiting, handler, acked, faults>>

Receive(b, h, request) ==
    /\ waiting[b] = {}
    /\ handler[h] = Free
    /\ handler' = [handler EXCEPT ![h] = request]
    /\ waiting' = [waiting EXCEPT ![b] = {h}]
    /\ UNCHANGED <<store, cache, view, acked, faults>>

\* handleUpdateMeta with a version: the metadata the broker read, and a change.
HandleUpdateMeta(b, h) ==
    \E n \in 1..MaxChanges :
        /\ view[b].version # 0
        /\ <<b, n>> \notin acked
        /\ Receive(b, h, [pc |-> "Update", change |-> <<b, n>>,
                          version |-> view[b].version,
                          data |-> view[b].data \cup {<<b, n>>},
                          isInit |-> FALSE, status |-> 0])

\* handleUpdateMeta without a version, from a broker that knows no metadata.
HandleInitMeta(b, h) ==
    /\ view[b] = Nothing
    /\ Receive(b, h, [pc |-> "Init", change |-> <<b, 0>>,
                      version |-> 0, data |-> {<<b, 0>>},
                      isInit |-> TRUE, status |-> 0])

Step(h, request) ==
    /\ handler' = [handler EXCEPT ![h] = request]
    /\ UNCHANGED <<cache, view, waiting, acked, faults>>

Answered(request, code) == [request EXCEPT !.pc = "Reply", !.status = code]
Answer(h, code) == Step(h, Answered(handler[h], code))

\* Mutant: an initialised store is initialised again.
InitExternalStore_Again(h) ==
    /\ handler[h].pc = "Init"
    /\ Step(h, [handler[h] EXCEPT !.pc = "Update", !.version = cache.version])
    /\ UNCHANGED store

\* initExternalStore: a store that has data is left alone, and the broker is
\* told so with a success.
InitExternalStore(h) ==
    /\ handler[h].pc = "Init"
    /\ IF cache.version = 0 THEN Answer(h, 400)
       ELSE IF cache.data # {} THEN Answer(h, 200)
       ELSE Step(h, [handler[h] EXCEPT !.pc = "Update", !.version = cache.version])
    /\ UNCHANGED store

\* Mutant: no pre-check, the resourceVersion of the cached ConfigMap is used.
UpdateExternalStore_NoPreCheck(h) ==
    /\ handler[h].pc = "Update"
    /\ IF cache.version = 0 THEN Answer(h, 400)
       ELSE Step(h, [handler[h] EXCEPT !.pc = "Write", !.version = cache.version])
    /\ UNCHANGED store

\* Mutant: the pre-check lets only a version newer than the cached one pass.
UpdateExternalStore_Newer(h) ==
    /\ handler[h].pc = "Update"
    /\ IF cache.version = 0 THEN Answer(h, 400)
       ELSE IF cache.version >= handler[h].version THEN Answer(h, 409)
       ELSE Step(h, [handler[h] EXCEPT !.pc = "Write"])
    /\ UNCHANGED store

\* updateExternalStore up to the write: the pre-check on the cached ConfigMap.
UpdateExternalStore(h) ==
    /\ handler[h].pc = "Update"
    /\ IF cache.version = 0 THEN Answer(h, 400)
       ELSE IF cache.version # handler[h].version THEN Answer(h, 409)
       ELSE Step(h, [handler[h] EXCEPT !.pc = "Write"])
    /\ UNCHANGED store

\* Mutant: the conflict of the write is not told from other errors.
WriteConfigMap_NoConflict(h) ==
    /\ handler[h].pc = "Write"
    /\ IF store.version = handler[h].version
       THEN /\ store' = [version |-> store.version + 1, data |-> handler[h].data]
            /\ Answer(h, 200)
       ELSE /\ Answer(h, 500)
            /\ UNCHANGED store

\* The write: the API server compares the resourceVersion of the object.
WriteConfigMap(h) ==
    /\ handler[h].pc = "Write"
    /\ IF store.version = handler[h].version
       THEN /\ store' = [version |-> store.version + 1, data |-> handler[h].data]
            /\ Answer(h, 200)
       ELSE /\ Answer(h, 409)
            /\ UNCHANGED store

\* The answer reaches the broker, which then forgets what it had read.
Reply(b, h) ==
    /\ waiting[b] = {h}
    /\ handler[h].pc = "Reply"
    /\ handler' = [handler EXCEPT ![h] = Free]
    /\ waiting' = [waiting EXCEPT ![b] = {}]
    /\ view' = [view EXCEPT ![b] = Nothing]
    /\ acked' = IF handler[h].status = 200 /\ ~handler[h].isInit
                THEN acked \cup {handler[h].change} ELSE acked
    /\ UNCHANGED <<store, cache, faults>>

\* Nobody waits for the answer any more.
DropReply(h) ==
    /\ handler[h].pc = "Reply"
    /\ \A b \in Brokers : h \notin waiting[b]
    /\ handler' = [handler EXCEPT ![h] = Free]
    /\ UNCHANGED <<store, cache, view, waiting, acked, faults>>

Fault == faults < MaxFaults /\ faults' = faults + 1

\* The broker gives up waiting; the handler goes on.
Timeout(b) ==
    /\ waiting[b] # {}
    /\ Fault
    /\ waiting' = [waiting EXCEPT ![b] = {}]
    /\ UNCHANGED <<store, cache, view, handler, acked>>

\* The operator restarts: every request in it is lost, at whatever point, and
\* the brokers see their connections closed.
Restart ==
    /\ \E h \in Handlers : handler[h] # Free
    /\ Fault
    /\ handler' = [h \in Handlers |-> Free]
    /\ waiting' = [b \in Brokers |-> {}]
    /\ UNCHANGED <<store, cache, view, acked>>

-----------------------------------------------------------------------------
Handle(h) ==
    \/ InitExternalStore(h) \/ UpdateExternalStore(h) \/ WriteConfigMap(h)
    \/ DropReply(h) \/ \E b \in Brokers : Reply(b, h)

Send(b) ==
    \/ HandleGetMeta(b)
    \/ \E h \in Handlers : HandleUpdateMeta(b, h) \/ HandleInitMeta(b, h)

Next ==
    \/ CreateConfigMap \/ SyncCache \/ Restart
    \/ \E b \in Brokers : Send(b) \/ Timeout(b)
    \/ \E h \in Handlers : Handle(h)

Spec == Init /\ [][Next]_vars

\* The server answers and its informer catches up.  A broker with something
\* to store keeps reading and sending: it may be busy with other requests in
\* between, hence strong fairness.
Fairness ==
    /\ WF_vars(CreateConfigMap)
    /\ WF_vars(SyncCache)
    /\ \A h \in Handlers : WF_vars(Handle(h))
    /\ \A b \in Brokers : /\ SF_vars(HandleGetMeta(b))
                          /\ SF_vars(\E h \in Handlers : HandleUpdateMeta(b, h))

FairSpec == Spec /\ Fairness
-----------------------------------------------------------------------------
\* No update is lost: what a broker was told is stored is part of the
\* metadata from then on, whoever writes it, through stale caches, restarts
\* and duplicate requests.
NoLostUpdate == acked \subseteq store.data

\* Conflicts are not permanent: a broker that reads again and retries gets
\* every change stored and acknowledged, stale reads and competitors
\* notwithstanding.
EveryChangeStored == \A c \in Brokers \X (1..MaxChanges) : <>(c \in acked)

\* The concurrent handlers and the lagging cache together implement one copy
\* of the metadata that is updated atomically.
Register == INSTANCE MetaRegister WITH data <- store.data
AtomicRegister == Register!Spec
=============================================================================
