------------------------------ MODULE Creation ------------------------------
(***************************************************************************)
(* createResources: the ConfigMap, the Secret, the Services and the        *)
(* StatefulSets of an Undermoon custom resource (CR), which are made one   *)
(* after the other unless the cache has an object of that name, while the  *)
(* user deletes the CR and creates it again and the garbage collector of   *)
(* Kubernetes removes what the deleted one owned.  The operator is woken   *)
(* by events of the CR, of Services and of StatefulSets.                   *)
(***************************************************************************)
EXTENDS Integers, Sequences

CONSTANTS
    Kinds,     \* of the objects in the order of createResources
    MaxCRs,    \* bound on the creations of the CR
    MaxFaults  \* bound on failed calls and restarts of the operator

ASSUME CreationAssumption ==
    /\ Kinds \in Seq({"ConfigMap", "Secret", "Service", "StatefulSet"})
    /\ Len(Kinds) > 0
    /\ MaxCRs \in Nat
    /\ MaxFaults \in Nat

\* The objects of the code: each function makes its own, one after the other.
CreateMeta == <<"ConfigMap", "Secret">>
CreateBroker == <<"Service", "Service", "StatefulSet">>
CreateCoordinator == <<"Service", "StatefulSet">>
CreateStorage == <<"Service", "Service", "StatefulSet">>
CreateResources == CreateMeta \o CreateBroker \o CreateCoordinator \o CreateStorage

Objects == 1..Len(Kinds)

VARIABLES
    cr,        \* uid of the CR in the API server; 0: there is none
    crCache,   \* uid of the CR in the cache
    crUnseen,  \* an event of the CR has not been delivered
    object,    \* uid of the owner of every object; 0: there is none
    cache,     \* the objects in the cache
    unseen,    \* objects with an event that has not been delivered
    queued,    \* a reconcile request waits in the work queue
    pc, at,    \* reconcile in progress: next call, object it is about
    tries,     \* i of the guard
    uid,       \* of the CR it works for
    uids,      \* CRs created so far
    faults

crVars == <<cr, crCache, crUnseen, uids>>
objectVars == <<object, cache, unseen>>
opVars == <<queued, pc, at, tries, uid>>
vars == <<crVars, objectVars, opVars, faults>>

Uids == 1..MaxCRs

TypeOK ==
    /\ cr \in Uids \cup {0} /\ crCache \in Uids \cup {0}
    /\ crUnseen \in BOOLEAN
    /\ object \in [Objects -> Uids \cup {0}]
    /\ cache \in [Objects -> Uids \cup {0}]
    /\ unseen \subseteq Objects
    /\ queued \in BOOLEAN
    /\ pc \in {"Idle", "Get", "Create", "Rest"}
    /\ at \in Objects
    /\ tries \in 0..2
    /\ uid \in Uids \cup {0}
    /\ pc \in {"Get", "Create"} => uid # 0
    /\ uids \in 0..MaxCRs
    /\ faults \in 0..MaxFaults

Init ==
    /\ cr = 0 /\ crCache = 0 /\ crUnseen = FALSE
    /\ object = [o \in Objects |-> 0]
    /\ cache = [o \in Objects |-> 0]
    /\ unseen = {}
    /\ queued = FALSE
    /\ pc = "Idle" /\ at = 1 /\ tries = 0 /\ uid = 0
    /\ uids = 0
    /\ faults = 0

-----------------------------------------------------------------------------
(* The reconcile in progress *)

Return == pc' = "Idle" /\ at' = 1 /\ tries' = 0 /\ uid' = 0
Retry == Return /\ queued' = TRUE

\* Without a CR there is nothing to do, and nothing is requeued.
ReconcileStart ==
    /\ pc = "Idle" /\ queued
    /\ queued' = FALSE
    /\ pc' = IF crCache = 0 THEN "Idle" ELSE "Get"
    /\ at' = 1 /\ tries' = 0 /\ uid' = crCache
    /\ UNCHANGED <<crVars, objectVars, faults>>

\* An object is there: on to the next one, and after the last one to the rest
\* of Reconcile.
Created ==
    /\ IF at = Len(Kinds) THEN pc' = "Rest" /\ at' = at ELSE pc' = "Get" /\ at' = at + 1
    /\ tries' = 0
    /\ UNCHANGED <<queued, uid>>

\* Objects are looked up by name, whoever owns them.
GetObject ==
    /\ pc = "Get"
    /\ IF cache[at] # 0 THEN Created ELSE pc' = "Create" /\ UNCHANGED <<queued, at, tries, uid>>
    /\ UNCHANGED <<crVars, objectVars, faults>>

\* SetControllerReference.
Owner_NotSet == MaxCRs + 1    \* mutant: nobody owns the object
Owner == uid

\* The guards call a function again that failed with AlreadyExists.
LastTry_OneMore == tries = 3    \* mutant: off by one
LastTry == tries + 1 = 3

CreateObject ==
    /\ pc = "Create"
    /\ IF object[at] = 0
       THEN /\ object' = [object EXCEPT ![at] = Owner]
            /\ unseen' = unseen \cup {at}
            /\ Created
       ELSE /\ IF LastTry
               THEN Retry
               ELSE pc' = "Get" /\ tries' = tries + 1 /\ UNCHANGED <<queued, at, uid>>
            /\ UNCHANGED <<object, unseen>>
    /\ UNCHANGED <<crVars, cache, faults>>

\* The rest of Reconcile is left open: it is over or to be done again, for pods
\* that are not ready say.
Rest ==
    /\ pc = "Rest"
    /\ Retry \/ (Return /\ UNCHANGED queued)
    /\ UNCHANGED <<crVars, objectVars, faults>>

Fault == faults < MaxFaults /\ faults' = faults + 1

\* A call that fails, before or after its effect.
Abort ==
    /\ pc # "Idle" /\ Fault
    /\ Retry
    /\ \/ UNCHANGED <<object, unseen>>
       \/ /\ pc = "Create" /\ object[at] = 0
          /\ object' = [object EXCEPT ![at] = Owner]
          /\ unseen' = unseen \cup {at}
    /\ UNCHANGED <<crVars, cache>>

\* A new operator lists everything and gets a request for what it finds.
Restart ==
    /\ Fault
    /\ Retry
    /\ crCache' = cr /\ crUnseen' = FALSE
    /\ cache' = object /\ unseen' = {}
    /\ UNCHANGED <<cr, uids, object>>

-----------------------------------------------------------------------------
(* Events and the environment *)

SyncCR ==
    /\ crUnseen
    /\ crCache' = cr /\ crUnseen' = FALSE
    /\ queued' = TRUE
    /\ UNCHANGED <<cr, uids, objectVars, pc, at, tries, uid, faults>>

\* For and Owns; a request names the CR, whatever its uid.
Watched_StatefulSets(o) == Kinds[o] = "StatefulSet"    \* mutant: Services are forgotten
Watched(o) == Kinds[o] \in {"Service", "StatefulSet"}

SyncObject(o) ==
    /\ o \in unseen
    /\ cache' = [cache EXCEPT ![o] = object[o]]
    /\ unseen' = unseen \ {o}
    /\ queued' = IF Watched(o) THEN TRUE ELSE queued
    /\ UNCHANGED <<crVars, object, pc, at, tries, uid, faults>>

Resync ==
    /\ ~queued
    /\ queued' = TRUE
    /\ UNCHANGED <<crVars, objectVars, pc, at, tries, uid, faults>>

CreateCR ==
    /\ cr = 0 /\ uids < MaxCRs
    /\ cr' = uids + 1 /\ uids' = uids + 1
    /\ crUnseen' = TRUE
    /\ UNCHANGED <<crCache, objectVars, opVars, faults>>

DeleteCR ==
    /\ cr # 0
    /\ cr' = 0
    /\ crUnseen' = TRUE
    /\ UNCHANGED <<crCache, uids, objectVars, opVars, faults>>

\* The garbage collector removes an object whose owner is gone.
Collect(o) ==
    /\ object[o] \in Uids \ {cr}
    /\ object' = [object EXCEPT ![o] = 0]
    /\ unseen' = unseen \cup {o}
    /\ UNCHANGED <<crVars, cache, opVars, faults>>

-----------------------------------------------------------------------------
Reconcile == ReconcileStart \/ GetObject \/ CreateObject \/ Rest

Next ==
    \/ Reconcile \/ Abort \/ Restart
    \/ SyncCR \/ Resync \/ CreateCR \/ DeleteCR
    \/ \E o \in Objects : SyncObject(o) \/ Collect(o)

Spec == Init /\ [][Next]_vars

\* The operator, the informers with their resync and the garbage collector go
\* on; no fault and no action of the user is fair.
Fairness ==
    /\ WF_vars(Reconcile) /\ WF_vars(SyncCR) /\ WF_vars(Resync)
    /\ \A o \in Objects : WF_vars(SyncObject(o)) /\ WF_vars(Collect(o))

FairSpec == Spec /\ Fairness

-----------------------------------------------------------------------------
\* The operator does not go to sleep on a Service or a StatefulSet that is
\* missing: also when the one it found belonged to the CR of the same name
\* before, and was collected afterwards.
RestsOnlyWhenCreated ==
    pc = "Idle" /\ ~queued /\ cr # 0 /\ ~crUnseen =>
        \A o \in Objects \ unseen :
            Kinds[o] \in {"Service", "StatefulSet"} => object[o] # 0

\* When the user is done, all objects come to belong to the CR that is there,
\* and to be gone when there is none.
OwnedInTheEnd == <>[](\A o \in Objects : object[o] = cr)
=============================================================================
