------------------------- MODULE BrokerMasterProofs -------------------------
(***************************************************************************)
(* Proofs about BrokerMaster for any set of coordinators and any number of *)
(* faults.  That there are two brokers (brokerNum in the code) is used: a  *)
(* new master that lists any replica lists every other broker, so the loop *)
(* that clears the replica lists misses nobody.                            *)
(***************************************************************************)
EXTENDS BrokerMaster, TLAPS

OneMaster == \A a, b \in Brokers : replicas[a] # {} /\ replicas[b] # {} => a = b

\* While the lists are cleared, a second master is still to be called, or the
\* elected broker has no replicas itself.
ClearsTheRest ==
    pc = "Clear" =>
        \/ replicas[local.master] = {}
        \/ \A b \in Brokers \ {local.master} : b \in local.todo \/ replicas[b] = {}

\* Before the last reconcileMeta ends nothing is known; after it the masters
\* are one at most, and they stay so until the next election.
OneMasterAtTheEnd == pc = "AllReady" \/ (pc = "Idle" /\ ~queued) => OneMaster

\* The operator only calls with a broker it has elected.
Elected ==
    pc \in {"ConfigSet", "SetMaster", "Clear", "Rest", "AllReady"} => local.master \in Brokers

IInv == TypeOK /\ Elected /\ ClearsTheRest /\ OneMasterAtTheEnd

\* Local variables after a call of one of the loops.
LEMMA TodoType ==
  ASSUME NEW l \in Locals, NEW S \in SUBSET Pods
  PROVE  [l EXCEPT !.todo = S] \in Locals
  BY DEF Locals

LEMMA MastersType ==
  ASSUME NEW l \in Locals, NEW S \in SUBSET Pods, NEW M \in SUBSET Brokers
  PROVE  [l EXCEPT !.todo = S, !.masters = M] \in Locals
  BY DEF Locals

LEMMA BestType ==
  ASSUME NEW l \in Locals, NEW S \in SUBSET Pods, NEW m \in Brokers, NEW n \in 0..MaxEpoch
  PROVE  [l EXCEPT !.todo = S, !.master = m, !.maxEpoch = n] \in Locals
  BY DEF Locals

LEMMA ErrType ==
  ASSUME NEW l \in Locals, NEW S \in SUBSET Pods, NEW e \in BOOLEAN
  PROVE  [l EXCEPT !.todo = S, !.err = e] \in Locals
  BY DEF Locals

LEMMA MasterType ==
  ASSUME NEW l \in Locals, NEW m \in Brokers
  PROVE  [l EXCEPT !.master = m] \in Locals
  BY DEF Locals

LEMMA AgainType ==
  ASSUME NEW l \in Locals
  PROVE  [l EXCEPT !.again = TRUE] \in Locals
  BY DEF Locals

LEMMA NoLocalsType == NoLocals \in Locals
  <1>1. ReadyReplicas({}) \in Statuses
    BY DEF Statuses, Pods
  <1>2. 0 \in 0..MaxEpoch
    BY BrokerAssumption
  <1> QED
    BY <1>1, <1>2 DEF NoLocals, Locals

-----------------------------------------------------------------------------
\* Every action keeps the types; the elected broker is used by Elected.
LEMMA TypeStep ==
  ASSUME TypeOK, Elected, [Next]_vars
  PROVE  TypeOK'
  <1>0. /\ NoLocals \in Locals
        /\ local \in Locals
        /\ faults \in Nat /\ MaxFaults \in Nat
    BY NoLocalsType, BrokerAssumption DEF TypeOK
  <1> USE <1>0
  <1>f. (Fault \/ NoFault) => faults' \in 0..MaxFaults
    BY DEF Fault, NoFault, TypeOK
  <1>r. Retry => pc' \in Steps /\ queued' \in BOOLEAN /\ local' \in Locals
    BY DEF Retry, Steps
  <1>p. ASSUME NEW step \in Steps, NEW l \in Locals, Proceed(step, l)
        PROVE  pc' \in Steps /\ queued' \in BOOLEAN /\ local' \in Locals
    BY <1>p DEF Proceed, TypeOK
  \* It is enough that the operator's variables and the pods keep their types.
  <1>o. ASSUME UNCHANGED k8sVars, UNCHANGED podVars, faults' \in 0..MaxFaults,
               pc' \in Steps, queued' \in BOOLEAN, local' \in Locals
        PROVE  TypeOK'
    BY <1>o DEF TypeOK, k8sVars, podVars
  <1>t. /\ "GetReplicas" \in Steps /\ "GetEpoch" \in Steps /\ "SetStatus" \in Steps
        /\ "ConfigSet" \in Steps /\ "SetMaster" \in Steps /\ "Clear" \in Steps
    BY DEF Steps
  <1>s. local.todo \in SUBSET Pods /\ local.masters \in SUBSET Brokers
        /\ local.addresses \in SUBSET Brokers
    BY DEF Locals
  <1>1. CASE ReconcileStart
    <2>1. local' \in Locals
      BY <1>1 DEF ReconcileStart, NoLocals, Locals, TypeOK
    <2> QED
      BY <1>1, <1>f, <1>o, <2>1 DEF ReconcileStart, Steps
  <1>2. CASE BrokerAndCoordinatorReady \/ ElectNewest \/ ConfigSetDone \/ SetBrokerReplicasDone
    BY <1>2, <1>f, <1>r, <1>p, <1>o DEF BrokerAndCoordinatorReady, ElectNewest, ConfigSetDone,
       SetBrokerReplicasDone, Steps
  <1>3. CASE GetBrokerEndpoints
    <2>1. [local EXCEPT !.addresses = endpoints \cap Brokers, !.todo = endpoints \cap Brokers]
             \in Locals
      BY DEF Locals, Pods
    <2> QED
      BY <1>3, <1>f, <1>r, <1>p, <1>o, <2>1 DEF GetBrokerEndpoints, GetEndpoints, Steps
  <1>4. ASSUME NEW b \in Brokers, GetReplicaAddresses(b)
        PROVE  TypeOK'
    <2>1. local.todo \ {b} \in SUBSET Pods /\ local.masters \cup {b} \in SUBSET Brokers
      BY <1>s
    <2>2. \/ Proceed("GetReplicas", [local EXCEPT !.todo = local.todo \ {b}])
          \/ Proceed("GetReplicas", [local EXCEPT !.todo = local.todo \ {b},
                                                  !.masters = local.masters \cup {b}])
          \/ Proceed("GetReplicas", [local EXCEPT !.todo = local.todo \ {b},
                                                  !.masters = local.masters])
      BY <1>4 DEF GetReplicaAddresses
    <2>a. /\ [local EXCEPT !.todo = local.todo \ {b}] \in Locals
          /\ [local EXCEPT !.todo = local.todo \ {b}, !.masters = local.masters \cup {b}] \in Locals
          /\ [local EXCEPT !.todo = local.todo \ {b}, !.masters = local.masters] \in Locals
      BY <1>s, <2>1, TodoType, MastersType
    <2>3. pc' \in Steps /\ queued' \in BOOLEAN /\ local' \in Locals
      BY <1>p, <2>2, <2>a, <1>t
    <2>4. faults' \in 0..MaxFaults
      BY <1>4, <1>f DEF GetReplicaAddresses, CallFails
    <2> QED
      BY <1>4, <1>o, <2>3, <2>4 DEF GetReplicaAddresses
  <1>5. CASE GetCurrentMaster
    <2>1. /\ local.addresses \in SUBSET Pods /\ local.masters \in SUBSET Pods
      BY <1>s DEF Pods
    <2>2. \/ Proceed("GetEpoch", [local EXCEPT !.todo = local.addresses])
          \/ Proceed("GetEpoch", [local EXCEPT !.todo = local.masters])
          \/ \E m \in Brokers : Proceed("SetStatus", [local EXCEPT !.master = m])
      BY <1>5 DEF GetCurrentMaster
    <2>3. pc' \in Steps /\ queued' \in BOOLEAN /\ local' \in Locals
      <3>1. /\ [local EXCEPT !.todo = local.addresses] \in Locals
            /\ [local EXCEPT !.todo = local.masters] \in Locals
        BY <2>1, TodoType
      <3>2. \A m \in Brokers : [local EXCEPT !.master = m] \in Locals
        BY MasterType
      <3> QED
        BY <1>p, <2>2, <3>1, <3>2, <1>t
    <2> QED
      BY <1>5, <1>f, <1>o, <2>3 DEF GetCurrentMaster
  <1>6. ASSUME NEW b \in Brokers, GetEpoch(b)
        PROVE  TypeOK'
    <2>1. local.todo \ {b} \in SUBSET Pods
      BY <1>s
    <2>2. \/ Proceed("GetEpoch", [local EXCEPT !.todo = local.todo \ {b}])
          \/ \E epoch \in 0..MaxEpoch : Proceed("GetEpoch",
               [local EXCEPT !.todo = local.todo \ {b}, !.master = b, !.maxEpoch = epoch])
      BY <1>6 DEF GetEpoch
    <2>3. pc' \in Steps /\ queued' \in BOOLEAN /\ local' \in Locals
      <3>1. [local EXCEPT !.todo = local.todo \ {b}] \in Locals
        BY <2>1, TodoType
      <3>2. \A epoch \in 0..MaxEpoch :
              [local EXCEPT !.todo = local.todo \ {b}, !.master = b, !.maxEpoch = epoch] \in Locals
        BY <2>1, BestType
      <3> QED
        BY <1>p, <2>2, <3>1, <3>2, <1>t
    <2>4. faults' \in 0..MaxFaults
      BY <1>6, <1>f DEF GetEpoch, CallFails
    <2> QED
      BY <1>6, <1>o, <2>3, <2>4 DEF GetEpoch
  <1>7. CASE SetMasterBrokerStatus
    <2>1. endpoints \cap Coordinators \in SUBSET Pods
      BY DEF Pods
    <2>2. pc' \in Steps /\ queued' \in BOOLEAN /\ local' \in Locals
      <3>1. [local EXCEPT !.todo = endpoints \cap Coordinators] \in Locals
        BY <2>1, TodoType
      <3> QED
        BY <1>7, <1>r, <1>p, <3>1, <1>t DEF SetMasterBrokerStatus, GetEndpoints
    <2> QED
      BY <1>7, <1>f, <1>o, <2>2 DEF SetMasterBrokerStatus, GetEndpoints
  <1>8. ASSUME NEW c \in Coordinators, ConfigSetBroker(c)
        PROVE  TypeOK'
    <2>1. local.todo \ {c} \in SUBSET Pods
      BY <1>s
    <2>2. pc' \in Steps /\ queued' \in BOOLEAN /\ local' \in Locals
      <3>1. /\ [local EXCEPT !.todo = local.todo \ {c}, !.err = TRUE] \in Locals
            /\ [local EXCEPT !.todo = local.todo \ {c}, !.err = FALSE] \in Locals
        BY <2>1, ErrType
      <3> QED
        BY <1>8, <1>p, <3>1, <1>t DEF ConfigSetBroker
    <2>3. faults' \in 0..MaxFaults
      BY <1>8, <1>f DEF ConfigSetBroker, CallFails
    <2>4. broker' \in [Coordinators -> Brokers \cup {None}]
      BY <1>8 DEF ConfigSetBroker, SetBrokerAddress, Elected, TypeOK
    <2> QED
      BY <1>8, <2>2, <2>3, <2>4 DEF ConfigSetBroker, TypeOK, k8sVars
  <1>9. CASE SetBrokerReplicas
    <2>1. ReplicaAddresses \in SUBSET Brokers /\ ReplicaAddresses \in SUBSET Pods
      BY <1>s DEF ReplicaAddresses, Pods
    <2>2. pc' \in Steps /\ queued' \in BOOLEAN /\ local' \in Locals
      <3>1. [local EXCEPT !.todo = ReplicaAddresses] \in Locals
        BY <2>1, TodoType
      <3> QED
        BY <1>9, <1>r, <1>p, <3>1, <1>t DEF SetBrokerReplicas
    <2>3. faults' \in 0..MaxFaults
      BY <1>9, <1>f DEF SetBrokerReplicas, PutConfig, CallFails
    <2>4. /\ replicas' \in [Brokers -> SUBSET Brokers]
          /\ \A b \in Brokers : b \notin replicas'[b]
      BY <1>9, <2>1 DEF SetBrokerReplicas, PutConfig, ReplicaAddresses, TypeOK
    <2> QED
      BY <1>9, <2>2, <2>3, <2>4 DEF SetBrokerReplicas, PutConfig, TypeOK, k8sVars
  <1>10. ASSUME NEW b \in Brokers, ClearReplicas(b)
         PROVE  TypeOK'
    <2>1. local.todo \ {b} \in SUBSET Pods
      BY <1>s
    <2>2. pc' \in Steps /\ queued' \in BOOLEAN /\ local' \in Locals
      <3>1. [local EXCEPT !.todo = local.todo \ {b}] \in Locals
        BY <2>1, TodoType
      <3> QED
        BY <1>10, <1>r, <1>p, <3>1, <1>t DEF ClearReplicas
    <2>3. faults' \in 0..MaxFaults
      BY <1>10, <1>f DEF ClearReplicas, PutConfig, CallFails
    <2>4. /\ replicas' \in [Brokers -> SUBSET Brokers]
          /\ \A a \in Brokers : a \notin replicas'[a]
      BY <1>10 DEF ClearReplicas, PutConfig, TypeOK
    <2> QED
      BY <1>10, <2>2, <2>3, <2>4 DEF ClearReplicas, PutConfig, TypeOK, k8sVars
  <1>11. CASE ReconcileRest
    <2>1. [local EXCEPT !.again = TRUE] \in Locals
      BY AgainType
    <2> QED
      BY <1>11, <1>f, <1>r, <1>p, <1>o, <1>t, <2>1 DEF ReconcileRest
  <1>12. CASE Finish \/ Abort
    BY <1>12, <1>f, <1>r, <1>p, <1>o DEF Finish, Abort, Steps
  <1>13. ASSUME NEW p \in Pods, PodDown(p)
         PROVE  TypeOK'
    BY <1>13, <1>f DEF PodDown, TypeOK, podVars, opVars
  <1>14. ASSUME NEW p \in Pods, PodBack(p)
         PROVE  TypeOK'
    <2>1. /\ replicas' \in [Brokers -> SUBSET Brokers]
          /\ \A b \in Brokers : b \notin replicas'[b]
          /\ broker' \in [Coordinators -> Brokers \cup {None}]
      BY <1>14 DEF PodBack, TypeOK, podVars
    <2> QED
      BY <1>14, <2>1 DEF PodBack, TypeOK, opVars
  <1>15. CASE UpdateStatus
    BY <1>15 DEF UpdateStatus, TypeOK, podVars, opVars, Statuses
  <1>16. CASE SyncStatefulSet
    BY <1>16 DEF SyncStatefulSet, TypeOK, podVars
  <1>17. CASE SyncEndpoints
    BY <1>17 DEF SyncEndpoints, TypeOK, podVars, opVars
  <1>18. CASE Resync
    BY <1>18 DEF Resync, TypeOK, podVars, k8sVars
  <1>19. CASE UNCHANGED vars
    BY <1>19 DEF vars, TypeOK, podVars, k8sVars, opVars
  <1> QED
    BY <1>1, <1>2, <1>3, <1>4, <1>5, <1>6, <1>7, <1>8, <1>9, <1>10, <1>11, <1>12, <1>13,
       <1>14, <1>15, <1>16, <1>17, <1>18, <1>19 DEF Next, Reconcile

-----------------------------------------------------------------------------
\* The elected broker is set in one place and kept until the reconcile ends.
LEMMA ElectedStep ==
  ASSUME IInv, [Next]_vars
  PROVE  Elected'
  <1>0. local \in Locals /\ Elected
    BY DEF IInv, TypeOK
  <1> USE <1>0
  <1>1. CASE SetMasterBrokerStatus
    BY <1>1 DEF SetMasterBrokerStatus, Retry, Proceed, Elected, Locals
  <1>2. CASE \/ ReconcileStart \/ BrokerAndCoordinatorReady \/ GetBrokerEndpoints
             \/ GetCurrentMaster \/ ElectNewest
    BY <1>2 DEF ReconcileStart, BrokerAndCoordinatorReady, GetBrokerEndpoints, GetCurrentMaster,
       ElectNewest, Retry, Proceed, Elected
  <1>3. ASSUME NEW b \in Brokers, GetReplicaAddresses(b) \/ GetEpoch(b)
        PROVE  Elected'
    BY <1>3 DEF GetReplicaAddresses, GetEpoch, Proceed, Elected
  <1>4. ASSUME NEW c \in Coordinators, ConfigSetBroker(c)
        PROVE  Elected'
    BY <1>4 DEF ConfigSetBroker, Proceed, Elected, Locals
  <1>5. CASE ConfigSetDone \/ SetBrokerReplicasDone \/ Finish \/ Abort
    BY <1>5 DEF ConfigSetDone, SetBrokerReplicasDone, Finish, Abort, Retry, Proceed, Elected
  <1>6. CASE SetBrokerReplicas
    BY <1>6 DEF SetBrokerReplicas, PutConfig, Retry, Proceed, Elected, Locals
  <1>7. CASE ReconcileRest
    BY <1>7 DEF ReconcileRest, Retry, Proceed, Elected, Locals
  <1>8. ASSUME NEW b \in Brokers, ClearReplicas(b)
        PROVE  Elected'
    BY <1>8 DEF ClearReplicas, PutConfig, Retry, Proceed, Elected, Locals
  <1>9. ASSUME NEW p \in Pods, PodDown(p) \/ PodBack(p)
        PROVE  Elected'
    BY <1>9 DEF PodDown, PodBack, opVars, Elected
  <1>10. CASE UpdateStatus \/ SyncStatefulSet \/ SyncEndpoints \/ Resync \/ UNCHANGED vars
    BY <1>10 DEF UpdateStatus, SyncStatefulSet, SyncEndpoints, Resync, vars, opVars, Elected
  <1> QED
    BY <1>1, <1>2, <1>3, <1>4, <1>5, <1>6, <1>7, <1>8, <1>9, <1>10 DEF Next, Reconcile

\* With two brokers, a master that lists any replica lists every other broker.
LEMMA TwoBrokers ==
  ASSUME NEW m \in Brokers, NEW A \in SUBSET Brokers, A \ {m} # {}
  PROVE  A \ {m} = Brokers \ {m}
  BY BrokerAssumption

\* The loop of setBrokerReplicas.
LEMMA ClearStep ==
  ASSUME IInv, [Next]_vars
  PROVE  ClearsTheRest'
  <1>0. /\ local \in Locals /\ Elected /\ ClearsTheRest
        /\ replicas \in [Brokers -> SUBSET Brokers]
    BY DEF IInv, TypeOK
  <1> USE <1>0
  <1>1. CASE SetBrokerReplicas
    <2>1. CASE local.master \notin up \/ pc' = "Idle"
      BY <1>1, <2>1 DEF SetBrokerReplicas, PutConfig, Retry, ClearsTheRest
    <2>2. CASE local.master \in up /\ pc' # "Idle"
      <3>1. /\ local.master \in Brokers
            /\ local.addresses \in SUBSET Brokers
        BY <1>1 DEF SetBrokerReplicas, PutConfig, Elected, Locals
      <3>2. /\ replicas' = [replicas EXCEPT ![local.master] = ReplicaAddresses]
            /\ local' = [local EXCEPT !.todo = ReplicaAddresses]
        BY <1>1, <2>2 DEF SetBrokerReplicas, PutConfig, Proceed, Retry
      <3>3. /\ local'.master = local.master
            /\ local'.todo = ReplicaAddresses
            /\ replicas'[local.master] = ReplicaAddresses
        BY <3>1, <3>2 DEF Locals
      <3>4. CASE ReplicaAddresses = {}
        BY <3>3, <3>4 DEF ClearsTheRest
      <3>5. CASE ReplicaAddresses # {}
        <4>1. ReplicaAddresses = Brokers \ {local.master}
          BY <3>1, <3>5, TwoBrokers DEF ReplicaAddresses
        <4> QED
          BY <3>3, <4>1 DEF ClearsTheRest
      <3> QED
        BY <3>4, <3>5
    <2> QED
      BY <2>1, <2>2
  <1>2. ASSUME NEW b \in Brokers, ClearReplicas(b)
        PROVE  ClearsTheRest'
    <2>1. CASE pc' = "Idle"
      BY <2>1 DEF ClearsTheRest
    <2>2. CASE pc' # "Idle"
      <3>1. /\ pc = "Clear"
            /\ replicas' = [replicas EXCEPT ![b] = {}]
            /\ local' = [local EXCEPT !.todo = local.todo \ {b}]
        BY <1>2, <2>2 DEF ClearReplicas, PutConfig, Proceed, Retry
      <3>2. local'.master = local.master /\ local'.todo = local.todo \ {b}
        BY <3>1 DEF Locals
      <3>3. local.master \in Brokers
        BY <3>1 DEF Elected
      <3> QED
        BY <3>1, <3>2, <3>3 DEF ClearsTheRest
    <2> QED
      BY <2>1, <2>2
  <1>3. ASSUME NEW p \in Pods, PodBack(p)
        PROVE  ClearsTheRest'
    <2>1. pc' = pc /\ local' = local
      BY <1>3 DEF PodBack, opVars
    <2>2. \A b \in Brokers : replicas'[b] = {} \/ replicas'[b] = replicas[b]
      BY <1>3 DEF PodBack, podVars
    <2>3. pc = "Clear" => local.master \in Brokers
      BY DEF Elected
    <2> QED
      BY <2>1, <2>2, <2>3 DEF ClearsTheRest
  <1>4. ASSUME NEW p \in Pods, PodDown(p)
        PROVE  ClearsTheRest'
    BY <1>4 DEF PodDown, opVars, podVars, ClearsTheRest
  <1>5. CASE UpdateStatus \/ SyncStatefulSet \/ SyncEndpoints \/ Resync \/ UNCHANGED vars
    BY <1>5 DEF UpdateStatus, SyncStatefulSet, SyncEndpoints, Resync, vars, opVars, podVars,
       ClearsTheRest
  <1>6. ASSUME NEW b \in Brokers, GetReplicaAddresses(b) \/ GetEpoch(b)
        PROVE  ClearsTheRest'
    BY <1>6 DEF GetReplicaAddresses, GetEpoch, Proceed, ClearsTheRest
  <1>7. ASSUME NEW c \in Coordinators, ConfigSetBroker(c)
        PROVE  ClearsTheRest'
    BY <1>7 DEF ConfigSetBroker, Proceed, ClearsTheRest
  <1>8. CASE \/ ReconcileStart \/ BrokerAndCoordinatorReady \/ GetBrokerEndpoints
             \/ GetCurrentMaster \/ ElectNewest \/ SetMasterBrokerStatus \/ ConfigSetDone
             \/ SetBrokerReplicasDone \/ ReconcileRest \/ Finish \/ Abort
    BY <1>8 DEF ReconcileStart, BrokerAndCoordinatorReady, GetBrokerEndpoints, GetCurrentMaster,
       ElectNewest, SetMasterBrokerStatus, ConfigSetDone, SetBrokerReplicasDone, ReconcileRest,
       Finish, Abort, Retry, Proceed, ClearsTheRest
  <1> QED
    BY <1>1, <1>2, <1>3, <1>4, <1>5, <1>6, <1>7, <1>8 DEF Next, Reconcile

\* The operator leaves the loop, and later goes to sleep, with one master.
LEMMA EndStep ==
  ASSUME IInv, [Next]_vars
  PROVE  OneMasterAtTheEnd'
  <1>0. /\ local \in Locals /\ Elected /\ ClearsTheRest /\ OneMasterAtTheEnd
        /\ replicas \in [Brokers -> SUBSET Brokers]
    BY DEF IInv, TypeOK
  <1> USE <1>0
  <1>1. CASE SetBrokerReplicasDone
    <2>1. pc = "Clear" /\ local.todo = {} /\ replicas' = replicas
      BY <1>1 DEF SetBrokerReplicasDone, podVars
    <2>2. local.master \in Brokers
      BY <2>1 DEF Elected
    <2>3. \/ \A b \in Brokers \ {local.master} : replicas[b] = {}
          \/ replicas[local.master] = {}
      BY <2>1 DEF ClearsTheRest
    <2>4. OneMaster
      BY <2>2, <2>3, BrokerAssumption DEF OneMaster
    <2> QED
      BY <2>1, <2>4 DEF OneMasterAtTheEnd, OneMaster
  <1>2. CASE Finish
    BY <1>2 DEF Finish, Proceed, Retry, podVars, OneMasterAtTheEnd, OneMaster
  <1>3. ASSUME NEW p \in Pods, PodBack(p)
        PROVE  OneMasterAtTheEnd'
    <2>1. pc' = pc /\ queued' = queued
      BY <1>3 DEF PodBack, opVars
    <2>2. \A b \in Brokers : replicas'[b] = {} \/ replicas'[b] = replicas[b]
      BY <1>3 DEF PodBack, podVars
    <2> QED
      BY <2>1, <2>2 DEF OneMasterAtTheEnd, OneMaster
  <1>4. ASSUME NEW p \in Pods, PodDown(p)
        PROVE  OneMasterAtTheEnd'
    BY <1>4 DEF PodDown, opVars, podVars, OneMasterAtTheEnd, OneMaster
  <1>5. CASE UpdateStatus \/ SyncStatefulSet \/ SyncEndpoints \/ Resync \/ UNCHANGED vars
    BY <1>5 DEF UpdateStatus, SyncStatefulSet, SyncEndpoints, Resync, vars, opVars, podVars,
       OneMasterAtTheEnd, OneMaster
  <1>6. ASSUME NEW b \in Brokers, GetReplicaAddresses(b) \/ GetEpoch(b) \/ ClearReplicas(b)
        PROVE  OneMasterAtTheEnd'
    BY <1>6 DEF GetReplicaAddresses, GetEpoch, ClearReplicas, Proceed, Retry, OneMasterAtTheEnd
  <1>7. ASSUME NEW c \in Coordinators, ConfigSetBroker(c)
        PROVE  OneMasterAtTheEnd'
    BY <1>7 DEF ConfigSetBroker, Proceed, OneMasterAtTheEnd
  <1>8. CASE \/ ReconcileStart \/ BrokerAndCoordinatorReady \/ GetBrokerEndpoints
             \/ GetCurrentMaster \/ ElectNewest \/ SetMasterBrokerStatus \/ ConfigSetDone
             \/ SetBrokerReplicas \/ ReconcileRest \/ Abort
    BY <1>8 DEF ReconcileStart, BrokerAndCoordinatorReady, GetBrokerEndpoints, GetCurrentMaster,
       ElectNewest, SetMasterBrokerStatus, ConfigSetDone, SetBrokerReplicas, ReconcileRest,
       Abort, Retry, Proceed, OneMasterAtTheEnd
  <1> QED
    BY <1>1, <1>2, <1>3, <1>4, <1>5, <1>6, <1>7, <1>8 DEF Next, Reconcile

-----------------------------------------------------------------------------
\* The inductive invariant holds in every state of every behaviour.
THEOREM Invariance == Spec => []IInv
  <1>1. Init => IInv
    <2> SUFFICES ASSUME Init PROVE IInv
      OBVIOUS
    <2>1. /\ replicas = [b \in Brokers |-> {}]
          /\ broker = [c \in Coordinators |-> None]
          /\ up = Pods /\ endpoints = {} /\ pc = "Idle" /\ faults = 0 /\ queued = TRUE
      BY DEF Init
    <2>2. status \in Statuses /\ cache \in Statuses
      BY DEF Init, Statuses
    <2>3. local \in Locals
      BY NoLocalsType DEF Init
    <2>4. TypeOK
      BY <2>1, <2>2, <2>3, BrokerAssumption DEF TypeOK, Steps
    <2> QED
      BY <2>1, <2>4 DEF IInv, Elected, ClearsTheRest, OneMasterAtTheEnd, OneMaster
  <1>2. IInv /\ [Next]_vars => IInv'
    BY TypeStep, ElectedStep, ClearStep, EndStep DEF IInv
  <1> QED
    BY <1>1, <1>2, PTL DEF Spec

\* The election keeps its types: no broker is its own replica, and the address
\* given to a coordinator is a broker's.
THEOREM TypeCorrect == Spec => []TypeOK
  <1>1. IInv => TypeOK
    BY DEF IInv
  <1> QED
    BY <1>1, Invariance, PTL

\* The operator never goes to sleep on two masters (setBrokerReplicas and the
\* requeue after its errors), for any coordinators, faults and epochs.
THEOREM SplitBrainHeals == Spec => []SplitBrainIsTemporary
  <1>1. IInv => SplitBrainIsTemporary
    BY DEF IInv, OneMasterAtTheEnd, OneMaster, SplitBrainIsTemporary
  <1> QED
    BY <1>1, Invariance, PTL
=============================================================================
