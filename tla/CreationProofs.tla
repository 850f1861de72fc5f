--------------------------- MODULE CreationProofs ---------------------------
(***************************************************************************)
(* Creation for every list of objects, every number of CRs and faults: the *)
(* model is type correct, and the operator never sleeps on a Service or a  *)
(* StatefulSet that is missing.                                            *)
(***************************************************************************)
EXTENDS Creation, TLAPS

\* Without an event under way the cache is what it copies.
CacheSeen ==
    /\ ~crUnseen => crCache = cr
    /\ \A o \in Objects \ unseen : cache[o] = object[o]

\* A watched object that is missing has an event under way, or a request, or a
\* reconcile that has not come to it.
Noticed ==
    cr # 0 =>
        \A o \in Objects :
            Watched(o) /\ object[o] = 0 =>
                \/ o \in unseen \/ crUnseen \/ queued
                \/ pc \in {"Get", "Create"} /\ at <= o

IInv == TypeOK /\ CacheSeen /\ Noticed

\* The facts about the constants that the steps use.
LEMMA Constants ==
    /\ Len(Kinds) \in Nat /\ 1 \in Objects
    /\ \A o \in Objects : o \in Nat /\ o <= Len(Kinds) /\ (o # Len(Kinds) => o + 1 \in Objects)
    /\ 0 \notin Uids
    /\ MaxCRs \in Nat /\ MaxFaults \in Nat
BY CreationAssumption DEF Objects, Uids

LEMMA InitIInv == Init => IInv
<1> SUFFICES ASSUME Init PROVE IInv
  OBVIOUS
<1>1. TypeOK
  <2>1. cr \in Uids \cup {0} /\ crCache \in Uids \cup {0} /\ crUnseen \in BOOLEAN
    BY DEF Init
  <2>2. /\ object \in [Objects -> Uids \cup {0}] /\ cache \in [Objects -> Uids \cup {0}]
        /\ unseen \subseteq Objects
    BY DEF Init
  <2>3. queued \in BOOLEAN /\ pc \in {"Idle", "Get", "Create", "Rest"}
    BY DEF Init
  <2>4. at \in Objects
    BY Constants DEF Init
  <2>5. tries \in 0..2 
    BY DEF Init
  <2>6. uid \in Uids \cup {0} /\ (pc \in {"Get", "Create"} => uid # 0)
    BY DEF Init
  <2>7. uids \in 0..MaxCRs /\ faults \in 0..MaxFaults
    BY CreationAssumption DEF Init
  <2> QED BY <2>1, <2>2, <2>3, <2>4, <2>5, <2>6, <2>7 DEF TypeOK
<1>2. CacheSeen /\ Noticed
  BY DEF Init, CacheSeen, Noticed
<1> QED
  BY <1>1, <1>2 DEF IInv

\* The parts of a step that several actions share.
LEMMA CreatedType ==
    ASSUME TypeOK, Created, pc \in {"Get", "Create"}
    PROVE  /\ queued' \in BOOLEAN
           /\ pc' \in {"Idle", "Get", "Create", "Rest"}
           /\ at' \in Objects
           /\ tries' \in 0..2
           /\ uid' \in Uids /\ uid' # 0
BY Constants DEF TypeOK, Created

LEMMA CreatedMovesOn ==
    ASSUME at \in Objects, Created
    PROVE  \A o \in Objects \ {at} : at <= o => pc' = "Get" /\ at' <= o
<1> SUFFICES ASSUME NEW o \in Objects, o # at, at <= o PROVE pc' = "Get" /\ at' <= o
  OBVIOUS
<1>1. at \in Nat /\ o \in Nat /\ Len(Kinds) \in Nat /\ o <= Len(Kinds)
  BY Constants
<1>2. at # Len(Kinds) /\ at + 1 <= o
  BY <1>1
<1> QED
  BY <1>2 DEF Created

LEMMA ReturnType ==
    ASSUME Return
    PROVE  /\ pc' = "Idle"
           /\ at' \in Objects
           /\ tries' \in 0..2
           /\ uid' \in Uids \cup {0}
BY Constants DEF Return

LEMMA OwnedType ==
    ASSUME TypeOK, pc = "Create", object' = [object EXCEPT ![at] = Owner]
    PROVE  object' \in [Objects -> Uids \cup {0}]
BY DEF TypeOK, Owner

\* Types first: the reconcile, then its environment.
LEMMA ReconcileType == TypeOK /\ Reconcile => TypeOK'
<1> SUFFICES ASSUME TypeOK, Reconcile PROVE TypeOK'
  OBVIOUS
<1> USE Constants
<1>1. CASE ReconcileStart
  <2>1. at' \in Objects /\ tries' \in 0..2
    BY <1>1 DEF ReconcileStart
  <2>2. pc' \in {"Idle", "Get"} /\ (pc' = "Get" => uid' # 0) /\ uid' \in Uids \cup {0}
    BY <1>1 DEF ReconcileStart, TypeOK
  <2> QED
    BY <1>1, <2>1, <2>2 DEF ReconcileStart, TypeOK, crVars, objectVars
<1>2. CASE GetObject
  <2>1. CASE cache[at] # 0
    BY <1>2, <2>1, CreatedType DEF GetObject, TypeOK, crVars, objectVars
  <2>2. CASE cache[at] = 0
    BY <1>2, <2>2 DEF GetObject, TypeOK, crVars, objectVars
  <2> QED
    BY <2>1, <2>2
<1>3. CASE CreateObject
  <2>1. CASE object[at] = 0
    BY <1>3, <2>1, CreatedType, OwnedType DEF CreateObject, TypeOK, crVars
  <2>2. CASE object[at] # 0 /\ LastTry
    BY <1>3, <2>2 DEF CreateObject, Retry, Return, TypeOK, crVars
  <2>3. CASE object[at] # 0 /\ ~LastTry
    <3>1. tries + 1 \in 0..2
      BY <2>3 DEF TypeOK, LastTry
    <3> QED
      BY <1>3, <2>3, <3>1 DEF CreateObject, TypeOK, crVars
  <2> QED
    BY <2>1, <2>2, <2>3
<1>4. CASE Rest
  BY <1>4, ReturnType DEF Rest, Retry, TypeOK, crVars, objectVars
<1> QED
  BY <1>1, <1>2, <1>3, <1>4 DEF Reconcile

LEMMA StepType == TypeOK /\ [Next]_vars => TypeOK'
<1> SUFFICES ASSUME TypeOK, [Next]_vars PROVE TypeOK'
  OBVIOUS
<1> USE Constants
<1>1. CASE Reconcile
  BY <1>1, ReconcileType
<1>2. CASE Abort
  <2>1. object' \in [Objects -> Uids \cup {0}] /\ unseen' \subseteq Objects
    BY <1>2, OwnedType DEF Abort, TypeOK
  <2>2. faults' \in 0..MaxFaults
    BY <1>2 DEF Abort, Fault, TypeOK
  <2> QED
    BY <1>2, <2>1, <2>2, ReturnType DEF Abort, Retry, TypeOK, crVars
<1>3. CASE Restart
  <2>1. faults' \in 0..MaxFaults
    BY <1>3 DEF Restart, Fault, TypeOK
  <2> QED
    BY <1>3, <2>1, ReturnType DEF Restart, Retry, TypeOK
<1>4. CASE SyncCR
  BY <1>4 DEF SyncCR, TypeOK, objectVars
<1>5. CASE Resync
  BY <1>5 DEF Resync, TypeOK, crVars, objectVars
<1>6. CASE CreateCR
  BY <1>6 DEF CreateCR, TypeOK, objectVars, opVars, Uids
<1>7. CASE DeleteCR
  BY <1>7 DEF DeleteCR, TypeOK, objectVars, opVars
<1>8. ASSUME NEW o \in Objects, SyncObject(o) PROVE TypeOK'
  BY <1>8 DEF SyncObject, TypeOK, crVars
<1>9. ASSUME NEW o \in Objects, Collect(o) PROVE TypeOK'
  BY <1>9 DEF Collect, TypeOK, crVars, opVars
<1>10. CASE UNCHANGED vars
  BY <1>10 DEF TypeOK, vars, crVars, objectVars, opVars
<1> QED
  BY <1>1, <1>2, <1>3, <1>4, <1>5, <1>6, <1>7, <1>8, <1>9, <1>10 DEF Next

\* What the reconcile does to the cache and to the objects.
LEMMA ReconcileStep ==
    ASSUME TypeOK, CacheSeen, Noticed, Reconcile
    PROVE  CacheSeen' /\ Noticed'
<1> USE Constants
<1>1. CASE ReconcileStart
  <2>1. CacheSeen'
    BY <1>1 DEF ReconcileStart, CacheSeen, crVars, objectVars
  <2>2. CASE crCache = 0
    BY <1>1, <2>2 DEF ReconcileStart, CacheSeen, Noticed, crVars, objectVars
  <2>3. CASE crCache # 0
    <3>1. pc' = "Get" /\ at' = 1
      BY <1>1, <2>3 DEF ReconcileStart
    <3> QED
      BY <3>1, <2>1 DEF Noticed, Objects
  <2> QED
    BY <2>1, <2>2, <2>3
<1>2. CASE GetObject
  <2>1. CacheSeen'
    BY <1>2 DEF GetObject, CacheSeen, crVars, objectVars
  <2>2. cache[at] # 0 => at \in unseen \/ object[at] # 0
    BY DEF CacheSeen, TypeOK
  <2>3. CASE cache[at] # 0
    <3>1. \A o \in Objects \ {at} : at <= o => pc' = "Get" /\ at' <= o
      BY <1>2, <2>3, CreatedMovesOn DEF GetObject, TypeOK
    <3>2. UNCHANGED <<cr, crUnseen, queued, object, unseen>>
      BY <1>2, <2>3 DEF GetObject, Created, crVars, objectVars
    <3> QED
      BY <2>1, <2>2, <2>3, <3>1, <3>2 DEF Noticed, Watched
  <2>4. CASE cache[at] = 0
    BY <1>2, <2>1, <2>4 DEF GetObject, Noticed, crVars, objectVars, Watched
  <2> QED
    BY <2>1, <2>3, <2>4
<1>3. CASE CreateObject
  <2>1. CacheSeen'
    BY <1>3 DEF CreateObject, CacheSeen, TypeOK, crVars
  <2>2. CASE object[at] = 0
    <3>1. object'[at] # 0
      BY <1>3, <2>2 DEF CreateObject, Owner, TypeOK
    <3>2. \A o \in Objects \ {at} : object'[o] = object[o]
      BY <1>3, <2>2 DEF CreateObject, TypeOK
    <3>3. \A o \in Objects \ {at} : at <= o => pc' = "Get" /\ at' <= o
      BY <1>3, <2>2, CreatedMovesOn DEF CreateObject, TypeOK
    <3>4. unseen \subseteq unseen' /\ UNCHANGED <<cr, crUnseen, queued>>
      BY <1>3, <2>2 DEF CreateObject, Created, crVars
    <3> QED
      BY <2>1, <3>1, <3>2, <3>3, <3>4 DEF Noticed, Watched
  <2>3. CASE object[at] # 0 /\ LastTry
    BY <1>3, <2>1, <2>3 DEF CreateObject, Retry, Noticed
  <2>4. CASE object[at] # 0 /\ ~LastTry
    BY <1>3, <2>1, <2>4 DEF CreateObject, Noticed, crVars, Watched
  <2> QED
    BY <2>1, <2>2, <2>3, <2>4
<1>4. CASE Rest
  BY <1>4 DEF Rest, Retry, Return, TypeOK, CacheSeen, Noticed, crVars, objectVars, Watched
<1> QED
  BY <1>1, <1>2, <1>3, <1>4 DEF Reconcile

LEMMA Step == IInv /\ [Next]_vars => IInv'
<1> SUFFICES ASSUME TypeOK, CacheSeen, Noticed, [Next]_vars PROVE CacheSeen' /\ Noticed'
  BY StepType DEF IInv
<1> USE Constants
<1>1. CASE Reconcile
  BY <1>1, ReconcileStep
<1>2. CASE Abort
  BY <1>2 DEF Abort, Retry, Return, TypeOK, CacheSeen, Noticed, crVars
<1>3. CASE Restart
  BY <1>3 DEF Restart, Retry, Return, TypeOK, CacheSeen, Noticed
<1>4. CASE SyncCR
  BY <1>4 DEF SyncCR, TypeOK, CacheSeen, Noticed, objectVars
<1>5. CASE Resync
  BY <1>5 DEF Resync, TypeOK, CacheSeen, Noticed, crVars, objectVars
<1>6. CASE CreateCR
  BY <1>6 DEF CreateCR, TypeOK, CacheSeen, Noticed, objectVars, opVars
<1>7. CASE DeleteCR
  BY <1>7 DEF DeleteCR, TypeOK, CacheSeen, Noticed, objectVars, opVars
<1>8. ASSUME NEW o \in Objects, SyncObject(o) PROVE CacheSeen' /\ Noticed'
  BY <1>8 DEF SyncObject, TypeOK, CacheSeen, Noticed, crVars, Watched
<1>9. ASSUME NEW o \in Objects, Collect(o) PROVE CacheSeen' /\ Noticed'
  BY <1>9 DEF Collect, TypeOK, CacheSeen, Noticed, crVars, opVars, Watched
<1>10. CASE UNCHANGED vars
  BY <1>10 DEF CacheSeen, Noticed, vars, crVars, objectVars, opVars, Watched
<1> QED
  BY <1>1, <1>2, <1>3, <1>4, <1>5, <1>6, <1>7, <1>8, <1>9, <1>10 DEF Next

LEMMA IInvRests == IInv => RestsOnlyWhenCreated
BY Constants DEF IInv, TypeOK, Noticed, RestsOnlyWhenCreated, Watched

LEMMA Invariance == Spec => []IInv
BY InitIInv, Step, PTL DEF Spec

\* The types of the model hold for any list of objects, and the guard of a
\* creation never goes beyond its three tries.
THEOREM TypeCorrect == Spec => []TypeOK
BY Invariance, PTL DEF IInv

\* The operator does not go to sleep on a Service or a StatefulSet that is
\* missing: for any list of objects, however often the CR is deleted and
\* created again, and whatever calls fail.
THEOREM NeverSleepsOnMissing == Spec => []RestsOnlyWhenCreated
BY Invariance, IInvRests, PTL
=============================================================================
