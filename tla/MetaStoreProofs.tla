-------------------------- MODULE MetaStoreProofs --------------------------
(***************************************************************************)
(* Proofs about MetaStore for any number of brokers, handlers, changes and *)
(* faults.  The inductive invariant says what a version number tells its   *)
(* holder: no snapshot is ahead of the API server, and one that carries    *)
(* the version of the API server also carries its data.  A request at that *)
(* version therefore adds one change to the metadata and drops none.       *)
(***************************************************************************)
EXTENDS MetaStore, TLAPS

\* A snapshot s, when the API server holds t.
Current(s, t) ==
    /\ s.version <= t.version
    /\ s.version = t.version => s.data = t.data

SnapshotsCurrent ==
    /\ store.version = 0 => store.data = {}
    /\ Current(cache, store)
    /\ \A b \in Brokers : Current(view[b], store)

\* A request r in the server, when the API server holds t.
Sound(r, t) ==
    /\ r.pc = "Init" => r.isInit /\ r.data = {r.change}
    /\ r.pc \in {"Update", "Write"} =>
         /\ r.version <= t.version
         /\ r.version = t.version => r.data = t.data \cup {r.change}
    /\ (r.pc = "Reply" /\ r.status = 200 /\ ~r.isInit) => r.change \in t.data

RequestsSound == \A h \in Handlers : handler[h] # Free => Sound(handler[h], store)

IInv == TypeOK /\ SnapshotsCurrent /\ RequestsSound /\ NoLostUpdate

-----------------------------------------------------------------------------
\* Initially there is no snapshot, no request and no acknowledgement.
LEMMA InitIInv == Init => IInv
  BY MetaAssumption DEF Init, IInv, TypeOK, SnapshotsCurrent, Current, RequestsSound,
     NoLostUpdate, Snapshots, Nothing

\* A handler that is not free holds a request.
LEMMA BusyHandler ==
    ASSUME TypeOK, NEW h \in Handlers, handler[h].pc # "Free"
    PROVE  handler[h] \in Requests /\ handler[h] # Free
  BY DEF TypeOK, Free

\* A step of a handler that leaves the API server alone keeps the invariant
\* when the request it produces is sound.
LEMMA StepKeepsIInv ==
    ASSUME IInv, NEW h \in Handlers, NEW r \in Requests,
           Step(h, r), UNCHANGED store, Sound(r, store)
    PROVE  IInv'
  <1>1. TypeOK'
    BY DEF IInv, TypeOK, Step
  <1>2. SnapshotsCurrent'
    BY DEF IInv, SnapshotsCurrent, Step
  <1>3. RequestsSound'
    BY DEF IInv, TypeOK, RequestsSound, Step
  <1>4. NoLostUpdate'
    BY DEF IInv, NoLostUpdate, Step
  <1> QED
    BY <1>1, <1>2, <1>3, <1>4 DEF IInv

\* A request stays one when it is answered, and is about the same change.
LEMMA AnsweredRequest ==
    ASSUME NEW q \in Requests, NEW code \in {200, 400, 409}
    PROVE  /\ Answered(q, code) \in Requests
           /\ Answered(q, code).pc = "Reply"
           /\ Answered(q, code).status = code
           /\ Answered(q, code).change = q.change
           /\ Answered(q, code).isInit = q.isInit
  <1>1. [q EXCEPT !.pc = "Reply"] \in Requests
    BY DEF Requests
  <1>2. \A p \in Requests : [p EXCEPT !.status = code] \in Requests
    BY DEF Requests
  <1>3. Answered(q, code) \in Requests
    BY <1>1, <1>2 DEF Answered
  <1>4. /\ Answered(q, code).pc = "Reply"
        /\ Answered(q, code).status = code
        /\ Answered(q, code).change = q.change
        /\ Answered(q, code).isInit = q.isInit
    BY DEF Answered, Requests
  <1> QED
    BY <1>3, <1>4

\* An error or a conflict may be answered at any point.
LEMMA AnswerKeepsIInv ==
    ASSUME IInv, NEW h \in Handlers, handler[h].pc # "Free", NEW code \in {200, 400, 409},
           Answer(h, code), UNCHANGED store,
           code = 200 /\ ~handler[h].isInit => handler[h].change \in store.data
    PROVE  IInv'
  <1> DEFINE r == Answered(handler[h], code)
  <1>1. handler[h] \in Requests /\ handler[h] # Free
    BY BusyHandler DEF IInv
  <1>2. /\ r \in Requests
        /\ r.pc = "Reply" /\ r.status = code
        /\ r.change = handler[h].change /\ r.isInit = handler[h].isInit
    BY <1>1, AnsweredRequest
  <1>3. Sound(r, store)
    BY <1>2 DEF Sound
  <1> QED
    BY <1>2, <1>3, StepKeepsIInv DEF Answer

\* A write at the current version adds one change to the metadata.
LEMMA WriteAddsChange ==
    ASSUME IInv, NEW h \in Handlers, WriteConfigMap(h), store.version = handler[h].version
    PROVE  /\ handler[h] \in Requests
           /\ store'.version = store.version + 1
           /\ store'.data = store.data \cup {handler[h].change}
  <1>1. handler[h] \in Requests /\ handler[h] # Free
    BY BusyHandler DEF IInv, WriteConfigMap
  <1>2. Sound(handler[h], store)
    BY <1>1 DEF IInv, RequestsSound
  <1> QED
    BY <1>1, <1>2 DEF WriteConfigMap, Sound

\* The invariant is inductive.
LEMMA NextIInv == IInv /\ [Next]_vars => IInv'
  <1> SUFFICES ASSUME IInv, [Next]_vars PROVE IInv'
    OBVIOUS
  <1> USE DEF IInv
  <1>1. CASE CreateConfigMap
    <2>1. store.data = {} /\ store'.version = 1 /\ store'.data = {} /\ store' \in Snapshots
      BY <1>1 DEF CreateConfigMap, SnapshotsCurrent, Snapshots
    <2>2. TypeOK'
      BY <1>1, <2>1 DEF CreateConfigMap, TypeOK
    <2>3. SnapshotsCurrent'
      BY <1>1, <2>1 DEF CreateConfigMap, TypeOK, Snapshots, SnapshotsCurrent, Current
    <2>4. ASSUME NEW r \in Requests, Sound(r, store) PROVE Sound(r, store')
      BY <1>1, <2>1, <2>4 DEF CreateConfigMap, Sound, Requests
    <2>5. RequestsSound'
      BY <1>1, <2>4 DEF CreateConfigMap, TypeOK, RequestsSound
    <2>6. NoLostUpdate'
      BY <1>1, <2>1 DEF CreateConfigMap, NoLostUpdate
    <2> QED
      BY <2>2, <2>3, <2>5, <2>6
  <1>2. CASE SyncCache
    BY <1>2 DEF SyncCache, TypeOK, Snapshots, SnapshotsCurrent, Current, RequestsSound, NoLostUpdate
  <1>3. ASSUME NEW b \in Brokers, HandleGetMeta(b) PROVE IInv'
    BY <1>3 DEF HandleGetMeta, TypeOK, SnapshotsCurrent, RequestsSound, NoLostUpdate
  <1>4. ASSUME NEW b \in Brokers, NEW h \in Handlers, NEW r \in Requests,
               Receive(b, h, r), Sound(r, store)
        PROVE  IInv'
    BY <1>4 DEF Receive, TypeOK, SnapshotsCurrent, RequestsSound, NoLostUpdate
  <1>5. ASSUME NEW b \in Brokers, NEW h \in Handlers, HandleUpdateMeta(b, h) PROVE IInv'
    <2>1. PICK n \in 1..MaxChanges :
            Receive(b, h, [pc |-> "Update", change |-> <<b, n>>,
                           version |-> view[b].version,
                           data |-> view[b].data \cup {<<b, n>>},
                           isInit |-> FALSE, status |-> 0])
      BY <1>5 DEF HandleUpdateMeta
    <2> DEFINE r == [pc |-> "Update", change |-> <<b, n>>,
                     version |-> view[b].version,
                     data |-> view[b].data \cup {<<b, n>>},
                     isInit |-> FALSE, status |-> 0]
    <2>2. <<b, n>> \in Changes
      BY MetaAssumption DEF Changes
    <2>3. view[b] \in Snapshots /\ Current(view[b], store)
      BY DEF TypeOK, SnapshotsCurrent
    <2>4. r \in Requests
      BY <2>2, <2>3 DEF Requests, Snapshots
    <2>5. Sound(r, store)
      BY <2>3 DEF Sound, Current
    <2> QED
      BY <2>1, <2>4, <2>5, <1>4
  <1>6. ASSUME NEW b \in Brokers, NEW h \in Handlers, HandleInitMeta(b, h) PROVE IInv'
    <2> DEFINE r == [pc |-> "Init", change |-> <<b, 0>>, version |-> 0,
                     data |-> {<<b, 0>>}, isInit |-> TRUE, status |-> 0]
    <2>1. <<b, 0>> \in Changes
      BY MetaAssumption DEF Changes
    <2>2. r \in Requests /\ Sound(r, store)
      BY <2>1 DEF Requests, Sound
    <2> QED
      BY <1>6, <2>2, <1>4 DEF HandleInitMeta
  <1>7. ASSUME NEW h \in Handlers, InitExternalStore(h) PROVE IInv'
    <2>1. handler[h] \in Requests /\ handler[h] # Free /\ Sound(handler[h], store)
      BY <1>7, BusyHandler DEF InitExternalStore, RequestsSound
    <2>2. handler[h].isInit
      BY <1>7, <2>1 DEF InitExternalStore, Sound
    <2>3. CASE cache.version = 0 \/ cache.data # {}
      BY <1>7, <2>1, <2>2, <2>3, AnswerKeepsIInv DEF InitExternalStore
    <2>4. CASE ~(cache.version = 0 \/ cache.data # {})
      <3> DEFINE r == [handler[h] EXCEPT !.pc = "Update", !.version = cache.version]
      <3>1. cache \in Snapshots /\ Current(cache, store)
        BY DEF TypeOK, SnapshotsCurrent
      <3>2. handler[h].data = {handler[h].change}
        BY <1>7, <2>1 DEF InitExternalStore, Sound
      <3>3. /\ r \in Requests
            /\ r.pc = "Update" /\ r.version = cache.version
            /\ r.data = {r.change}
        BY <2>1, <3>1, <3>2 DEF Requests, Snapshots
      <3>5. Sound(r, store)
        BY <2>4, <3>1, <3>3 DEF Sound, Current
      <3>4. Step(h, r) /\ UNCHANGED store
        BY <1>7, <2>4 DEF InitExternalStore
      <3> QED
        BY <3>3, <3>4, <3>5, StepKeepsIInv
    <2> QED
      BY <2>3, <2>4
  <1>8. ASSUME NEW h \in Handlers, UpdateExternalStore(h) PROVE IInv'
    <2>1. handler[h] \in Requests /\ handler[h] # Free /\ Sound(handler[h], store)
      BY <1>8, BusyHandler DEF UpdateExternalStore, RequestsSound
    <2>2. CASE cache.version = 0 \/ cache.version # handler[h].version
      <3>1. PICK code \in {400, 409} : Answer(h, code) /\ UNCHANGED store
        BY <1>8, <2>2 DEF UpdateExternalStore
      <3> QED
        BY <1>8, <3>1, AnswerKeepsIInv DEF UpdateExternalStore
    <2>3. CASE ~(cache.version = 0 \/ cache.version # handler[h].version)
      <3> DEFINE r == [handler[h] EXCEPT !.pc = "Write"]
      <3>1. r \in Requests /\ Sound(r, store)
        BY <1>8, <2>1 DEF UpdateExternalStore, Requests, Sound
      <3>2. Step(h, r) /\ UNCHANGED store
        BY <1>8, <2>3 DEF UpdateExternalStore
      <3> QED
        BY <3>1, <3>2, StepKeepsIInv
    <2> QED
      BY <2>2, <2>3
  <1>9. ASSUME NEW h \in Handlers, WriteConfigMap(h) PROVE IInv'
    <2>1. CASE store.version # handler[h].version
      BY <1>9, <2>1, AnswerKeepsIInv DEF WriteConfigMap
    <2>2. CASE store.version = handler[h].version
      <3> DEFINE w == handler[h]
                 s == Answered(w, 200)
      <3>1. /\ w \in Requests
            /\ store'.version = store.version + 1
            /\ store'.data = store.data \cup {w.change}
        BY <1>9, <2>2, WriteAddsChange
      <3>2. /\ handler' = [handler EXCEPT ![h] = s]
            /\ UNCHANGED <<cache, view, waiting, acked, faults>>
        BY <1>9, <2>2 DEF WriteConfigMap, Answer, Step
      <3>3. store' \in Snapshots
        BY <1>9, <2>2, <3>1 DEF WriteConfigMap, TypeOK, Snapshots, Requests
      <3>4. s \in Requests /\ Sound(s, store')
        <4>1. s \in Requests /\ s.pc = "Reply" /\ s.change = w.change
          BY <3>1, AnsweredRequest
        <4> QED
          BY <3>1, <4>1 DEF Sound
      <3>5. TypeOK'
        BY <3>2, <3>3, <3>4 DEF TypeOK
      <3>6. SnapshotsCurrent'
        <4>1. ASSUME NEW x \in Snapshots, Current(x, store) PROVE Current(x, store')
          BY <3>1, <4>1 DEF TypeOK, Snapshots, Current
        <4>2. store'.version # 0
          BY <3>1 DEF TypeOK, Snapshots
        <4> QED
          BY <3>2, <4>1, <4>2 DEF TypeOK, SnapshotsCurrent
      <3>7. RequestsSound'
        <4>1. ASSUME NEW x \in Requests, Sound(x, store) PROVE Sound(x, store')
          <5>1. store.version \in Nat /\ x.version \in Nat
            BY DEF TypeOK, Snapshots, Requests
          <5> QED
            BY <3>1, <4>1, <5>1 DEF Sound
        <4> QED
          BY <3>2, <3>4, <4>1 DEF TypeOK, RequestsSound
      <3>8. NoLostUpdate'
        BY <3>1, <3>2 DEF NoLostUpdate
      <3> QED
        BY <3>5, <3>6, <3>7, <3>8
    <2> QED
      BY <2>1, <2>2
  <1>10. ASSUME NEW b \in Brokers, NEW h \in Handlers, Reply(b, h) PROVE IInv'
    <2>1. handler[h] \in Requests /\ handler[h] # Free /\ Sound(handler[h], store)
      BY <1>10, BusyHandler DEF Reply, RequestsSound
    <2>2. acked' \subseteq acked \cup {handler[h].change}
      BY <1>10 DEF Reply
    <2>3. TypeOK'
      BY <1>10, <2>1, <2>2 DEF Reply, TypeOK, Requests, Snapshots, Nothing
    <2>4. SnapshotsCurrent'
      BY <1>10 DEF Reply, TypeOK, Snapshots, SnapshotsCurrent, Current, Nothing
    <2>5. RequestsSound'
      BY <1>10 DEF Reply, TypeOK, RequestsSound
    <2>6. NoLostUpdate'
      BY <1>10, <2>1 DEF Reply, Sound, NoLostUpdate
    <2> QED
      BY <2>3, <2>4, <2>5, <2>6
  <1>11. ASSUME NEW h \in Handlers, DropReply(h) PROVE IInv'
    BY <1>11 DEF DropReply, TypeOK, SnapshotsCurrent, RequestsSound, NoLostUpdate
  <1>12. ASSUME NEW b \in Brokers, Timeout(b) PROVE IInv'
    BY <1>12, MetaAssumption DEF Timeout, Fault, TypeOK, SnapshotsCurrent, RequestsSound,
       NoLostUpdate
  <1>13. CASE Restart
    BY <1>13, MetaAssumption DEF Restart, Fault, TypeOK, SnapshotsCurrent, RequestsSound,
       NoLostUpdate
  <1>14. CASE UNCHANGED vars
    BY <1>14 DEF vars, TypeOK, SnapshotsCurrent, RequestsSound, NoLostUpdate
  <1> QED
    BY <1>1, <1>2, <1>3, <1>5, <1>6, <1>7, <1>8, <1>9, <1>10, <1>11, <1>12, <1>13, <1>14
       DEF Next, Send, Handle

\* The inductive invariant holds in every reachable state.
THEOREM Invariance == Spec => []IInv
  BY InitIInv, NextIInv, PTL DEF Spec

\* Every variable keeps its type, whatever the number of brokers and requests.
THEOREM TypeCorrect == Spec => []TypeOK
  <1>1. IInv => TypeOK
    BY DEF IInv
  <1> QED
    BY <1>1, Invariance, PTL

\* No acknowledged update is ever lost, whatever the number of brokers, of
\* concurrent requests and of faults.
THEOREM UpdatesKept == Spec => []NoLostUpdate
  <1>1. IInv => NoLostUpdate
    BY DEF IInv
  <1> QED
    BY <1>1, Invariance, PTL

\* The server implements one atomically updated copy of the metadata.
THEOREM Implements == Spec => AtomicRegister
  <1>1. Init => Register!Init
    BY DEF Init, Nothing, Register!Init
  <1>2. IInv /\ [Next]_vars => [Register!Next]_<<store.data, acked>>
    <2> SUFFICES ASSUME IInv, [Next]_vars PROVE [Register!Next]_<<store.data, acked>>
      OBVIOUS
    <2>1. CASE CreateConfigMap
      BY <2>1 DEF CreateConfigMap, IInv, SnapshotsCurrent
    <2>2. ASSUME NEW h \in Handlers, WriteConfigMap(h), store.version = handler[h].version
          PROVE  \E c \in Changes : Register!Apply(c)
      <3>1. handler[h].change \in Changes
        BY <2>2, WriteAddsChange DEF Requests
      <3>2. Register!Apply(handler[h].change)
        BY <2>2, WriteAddsChange DEF Register!Apply, WriteConfigMap, Answer, Step
      <3> QED
        BY <3>1, <3>2
    <2>3. ASSUME NEW b \in Brokers, NEW h \in Handlers, Reply(b, h), acked' # acked
          PROVE  \E c \in Changes : Register!Acknowledge(c)
      <3>1. handler[h] \in Requests /\ handler[h] # Free /\ Sound(handler[h], store)
        BY <2>3, BusyHandler DEF Reply, IInv, RequestsSound
      <3>2. handler[h].change \in Changes
        BY <3>1 DEF Requests
      <3>3. Register!Acknowledge(handler[h].change)
        BY <2>3, <3>1 DEF Register!Acknowledge, Reply, Sound
      <3> QED
        BY <3>2, <3>3
    <2>4. CASE UNCHANGED <<store, acked>>
      BY <2>4
    <2>5. \/ CreateConfigMap
          \/ \E h \in Handlers : WriteConfigMap(h) /\ store.version = handler[h].version
          \/ \E b \in Brokers, h \in Handlers : Reply(b, h) /\ acked' # acked
          \/ UNCHANGED <<store, acked>>
      BY DEF Next, Send, Handle, vars, SyncCache, Restart, HandleGetMeta, HandleUpdateMeta,
             HandleInitMeta, Receive, Timeout, InitExternalStore, UpdateExternalStore,
             WriteConfigMap, Answer, Step, Reply, DropReply
    <2> QED
      BY <2>1, <2>2, <2>3, <2>4, <2>5 DEF Register!Next
  <1> QED
    BY <1>1, <1>2, Invariance, PTL DEF Spec, AtomicRegister, Register!Spec
=============================================================================
