------------------------ MODULE RollingUpdateProofs ------------------------
(***************************************************************************)
(* Proofs about RollingUpdate for every number of pods, edits and faults:  *)
(* its types, the order in which an image reaches the StatefulSets, that   *)
(* no edit is missed, and how lists of variables and resources compare.    *)
(*                                                                         *)
(* UpgradeOrder is not inductive: it needs that no StatefulSet is ahead of *)
(* the CR the operator works with (BehindTheCR), that a copy of a          *)
(* StatefulSet is never ahead of the StatefulSet (CopiesBehind), and that  *)
(* a component the operator has gone past has the image of that CR         *)
(* (Passed).  That a copy is current, which makes the write succeed, is    *)
(* not needed.                                                             *)
(***************************************************************************)
EXTENDS RollingUpdate, FiniteSetTheorems, TLAPS

BehindTheCR ==
    /\ \A c \in Components : set[c].template.image <= cr.image
    /\ cr.image <= edits
    /\ pc = "Roll" =>
         \A c \in Components : set[c].template.image <= local.cr.image
    /\ local.cr.image <= cr.image

CopiesBehind ==
    \A c \in Components :
        /\ setCache[c].template.image <= set[c].template.image
        /\ local.set[c].template.image <= set[c].template.image

Passed ==
    /\ pc # "Roll" => local.rolling = "broker"
    /\ pc = "Roll" =>
        /\ local.rolling # "broker" => local.cr.image <= set["broker"].template.image
        /\ local.rolling = "storage" => local.cr.image <= set["coordinator"].template.image

IInv == TypeOK /\ UpgradeOrder /\ BehindTheCR /\ CopiesBehind /\ Passed

-----------------------------------------------------------------------------
\* A template made from a CR of the right type has the right type, and the
\* image of that CR.
LEMMA TemplateType ==
    ASSUME NEW c \in Components, NEW spec \in CRs
    PROVE  Template(c, spec) \in Templates /\ Template(c, spec).image = spec.image
  <1>1. /\ spec.image \in Versions /\ spec.limit \in Versions /\ 0 \in Versions
        /\ spec.resources[c] \in Versions
    BY RollingAssumption DEF CRs, Versions
  <1>2. CASE c = "broker"
    BY <1>1, <1>2 DEF Template, CreateBrokerStatefulSet, Templates
  <1>3. CASE c = "coordinator"
    BY <1>1, <1>3 DEF Template, CreateCoordinatorStatefulSet, Templates
  <1>4. CASE c = "storage"
    BY <1>1, <1>4 DEF Template, CreateStorageStatefulSet, Templates
  <1> QED
    BY <1>2, <1>3, <1>4 DEF Components

\* The numbers of pods are numbers.
LEMMA PodNumbers == podNum \in [Components -> Nat]
  BY RollingAssumption DEF podNum

\* The state a reconcile starts with.
LEMMA NoLocalsType ==
    /\ NoLocals \in Locals
    /\ NoLocals.cr = FirstCR
    /\ NoLocals.rolling = "broker"
    /\ FirstCR \in CRs
    /\ FirstCR.image = 0
    /\ \A c \in Components : FirstSet(c) \in StatefulSets /\ FirstSet(c).template.image = 0
    /\ \A c \in Components : NoLocals.set[c].template.image = 0
  <1>1. FirstCR \in CRs /\ FirstCR.image = 0
    BY RollingAssumption DEF FirstCR, CRs, Versions
  <1>2. ASSUME NEW c \in Components
        PROVE  FirstSet(c) \in StatefulSets /\ FirstSet(c).template.image = 0
    BY <1>1, TemplateType, PodNumbers DEF FirstSet, StatefulSets
  <1>3. NoLocals \in Locals
    BY <1>1, <1>2 DEF NoLocals, Locals, Components
  <1> QED
    BY <1>1, <1>2, <1>3 DEF NoLocals

\* Pods(c) is finite, and so are its subsets.
LEMMA PodCounts ==
    ASSUME NEW c \in Components, NEW S, S \subseteq Pods(c)
    PROVE  Cardinality(S) \in Nat
  <1>1. IsFiniteSet(Pods(c))
    BY PodNumbers, FS_Interval DEF Pods
  <1> QED
    BY <1>1, FS_Subset, FS_CardinalityType

-----------------------------------------------------------------------------
\* The initial states satisfy the invariant.
LEMMA InitInv == Init => IInv
  <1> SUFFICES ASSUME Init PROVE IInv
    OBVIOUS
  <1>1. \A c \in Components : Template(c, FirstCR) \in Templates
    BY NoLocalsType, TemplateType
  <1>2. /\ cr = FirstCR /\ crCache = FirstCR /\ local = NoLocals /\ edits = 0
        /\ \A c \in Components : set[c] = FirstSet(c) /\ setCache[c] = FirstSet(c)
    BY DEF Init
  <1>3. /\ set \in [Components -> StatefulSets]
        /\ setCache \in [Components -> StatefulSets]
        /\ endpoints \in [Components -> Nat]
        /\ setFresh \in [Components -> BOOLEAN]
    BY NoLocalsType, PodNumbers DEF Init
  <1>4. /\ DOMAIN pods = Components
        /\ \A c \in Components : pods[c] \in [Pods(c) -> [template : Templates, up : BOOLEAN]]
    BY <1>1 DEF Init
  <1>5. TypeOK
    <2>1. /\ edits \in 0..MaxEdits /\ faults \in 0..MaxFaults
          /\ pc \in Steps /\ queued \in BOOLEAN
      <3>1. edits = 0 /\ faults = 0 /\ pc = "Idle" /\ queued = FALSE
        BY DEF Init
      <3>2. queued \in BOOLEAN
        BY <3>1
      <3>3. edits \in 0..MaxEdits /\ faults \in 0..MaxFaults
        BY <3>1, RollingAssumption
      <3>4. pc \in Steps
        BY <3>1 DEF Steps
      <3> QED
        BY <3>2, <3>3, <3>4
    <2> QED
      BY <1>2, <1>3, <1>4, <2>1, NoLocalsType DEF TypeOK
  <1>6. /\ cr.image = 0 /\ local.cr.image = 0
        /\ \A c \in Components : /\ set[c].template.image = 0
                                /\ setCache[c].template.image = 0
                                /\ local.set[c].template.image = 0
    BY <1>2, NoLocalsType
  <1>7. UpgradeOrder
    BY <1>6 DEF UpgradeOrder, Components
  <1>8. BehindTheCR /\ CopiesBehind /\ Passed
    BY <1>2, <1>6, NoLocalsType DEF BehindTheCR, CopiesBehind, Passed, Init
  <1> QED
    BY <1>5, <1>7, <1>8 DEF IInv

\* Copying the StatefulSets into the variables of the reconcile keeps their type.
LEMMA LocalCopyType ==
    ASSUME local \in Locals, NEW objects \in [Components -> StatefulSets],
           NEW fresh \in [Components -> BOOLEAN]
    PROVE  [local EXCEPT !.set = objects, !.fresh = fresh] \in Locals
  BY DEF Locals

\* Forgetting that a copy is current keeps their type.
LEMMA LocalStaleType ==
    ASSUME local \in Locals, NEW c \in Components
    PROVE  /\ [local EXCEPT !.fresh[c] = FALSE] \in Locals
           /\ [local EXCEPT !.fresh[c] = FALSE].cr = local.cr
           /\ [local EXCEPT !.fresh[c] = FALSE].set = local.set
           /\ [local EXCEPT !.fresh[c] = FALSE].rolling = local.rolling
  BY DEF Locals

-----------------------------------------------------------------------------
\* Going on with the reconcile without writing anything keeps the types.
LEMMA ReadTypeOK ==
    ASSUME TypeOK, AsIs, pc' \in Steps, queued' \in BOOLEAN, local' \in Locals
    PROVE  TypeOK'
  BY DEF TypeOK, AsIs, apiVars, cacheVars, k8sVars

\* The end of a reconcile has the right types.
LEMMA RetryTypes ==
    ASSUME Retry
    PROVE  pc' \in Steps /\ queued' \in BOOLEAN /\ local' \in Locals
  BY NoLocalsType DEF Retry, Steps

\* A change of the status keeps the type and the template of a StatefulSet.
LEMMA StatusType ==
    ASSUME NEW c, NEW object \in StatefulSets, NEW ready \in Nat, NEW current \in Nat
    PROVE  /\ Status(c, object, ready, current) \in StatefulSets
           /\ Status(c, object, ready, current).template = object.template
  BY DEF Status, StatefulSets

\* A step that changes a pod keeps the types.
LEMMA PodTypeOK ==
    ASSUME TypeOK, NEW c \in Components, NEW p \in Pods(c),
           NEW pod \in [template : Templates, up : BOOLEAN], NEW current \in Nat,
           PodStep(c, p, pod, current), faults' \in 0..MaxFaults
    PROVE  TypeOK'
  <1>1. /\ DOMAIN pods' = Components
        /\ \A d \in Components : pods'[d] \in [Pods(d) -> [template : Templates, up : BOOLEAN]]
    BY DEF PodStep, TypeOK
  <1>2. Cardinality(Up(c)') \in Nat
    <2>1. Up(c)' \subseteq Pods(c)
      BY DEF Up
    <2> QED
      BY <2>1, PodCounts
  <1>3. set' \in [Components -> StatefulSets]
    <2>1. Status(c, set[c], Cardinality(Up(c)'), current) \in StatefulSets
      BY <1>2, StatusType DEF TypeOK
    <2> QED
      BY <2>1 DEF PodStep, TypeOK
  <1>4. local' \in Locals
    BY LocalStaleType DEF PodStep, TypeOK
  <1>5. setFresh' \in [Components -> BOOLEAN]
    BY DEF PodStep, TypeOK
  <1> QED
    BY <1>1, <1>3, <1>4, <1>5 DEF PodStep, TypeOK

\* An edit gives the next version to one field and leaves the others alone.
LEMMA EditedType ==
    ASSUME cr \in CRs, NEW field \in Editable
    PROVE  /\ edits + 1 \in Versions => Edited(field) \in CRs
           /\ Edited(field).image \in {cr.image, edits + 1}
           /\ Edited(field).limit \in {cr.limit, edits + 1}
           /\ \A c \in Components : Edited(field).resources[c] \in {cr.resources[c], edits + 1}
           /\ \/ Edited(field).image = edits + 1
              \/ Edited(field).limit = edits + 1
              \/ \E c \in Components : Edited(field).resources[c] = edits + 1
  <1>1. CASE field = "image"
    BY <1>1 DEF Edited, CRs
  <1>2. CASE field = "limit"
    BY <1>2 DEF Edited, CRs
  <1>3. CASE field \in Components
    BY <1>3 DEF Edited, CRs, Components
  <1> QED
    BY <1>1, <1>2, <1>3, RollingAssumption

\* Every step keeps the types.
LEMMA NextTypeOK == TypeOK /\ [Next]_vars => TypeOK'
  <1> SUFFICES ASSUME TypeOK, [Next]_vars PROVE TypeOK'
    OBVIOUS
  <1>1. CASE ReconcileStart
    BY <1>1, ReadTypeOK, NoLocalsType DEF ReconcileStart, Steps
  <1>2. CASE CreateResources
    <2>1. local' \in Locals
      BY <1>2, LocalCopyType DEF CreateResources, TypeOK
    <2> QED
      BY <1>2, <2>1, ReadTypeOK DEF CreateResources, TypeOK, Steps
  <1>3. CASE ReconcileMaster
    <2>1. local' \in Locals
      BY <1>3, RetryTypes DEF ReconcileMaster, TypeOK, Locals
    <2> QED
      BY <1>3, <2>1, ReadTypeOK, RetryTypes DEF ReconcileMaster, TypeOK, Steps
  <1>4. CASE TriggerRollingUpdate
    <2> DEFINE c == local.rolling
               object == [local.set[c] EXCEPT !.template = Template(c, local.cr)]
    <2>1. c \in Components /\ local.cr \in CRs /\ local.set[c] \in StatefulSets
      BY DEF TypeOK, Locals
    <2>2. object \in StatefulSets
      BY <2>1, TemplateType DEF StatefulSets
    <2>3. set' \in [Components -> StatefulSets] /\ setFresh' \in [Components -> BOOLEAN]
      BY <1>4, <2>1, <2>2 DEF TriggerRollingUpdate, TypeOK
    <2>4. pc' \in Steps /\ queued' \in BOOLEAN /\ local' \in Locals
      BY <1>4, RetryTypes DEF TriggerRollingUpdate
    <2> QED
      BY <1>4, <2>3, <2>4 DEF TriggerRollingUpdate, k8sVars, TypeOK
  <1>5. CASE NextComponent
    <2>1. After(local.rolling) \in Components
      BY DEF After, Components
    <2>2. local' \in Locals
      BY <1>5, <2>1, RetryTypes, NoLocalsType DEF NextComponent, TypeOK, Locals
    <2>3. pc' \in Steps /\ queued' \in BOOLEAN
      BY <1>5, RetryTypes DEF NextComponent, TypeOK, Steps
    <2> QED
      BY <1>5, <2>2, <2>3, ReadTypeOK DEF NextComponent
  <1>6. CASE Abort
    <2>1. faults' \in 0..MaxFaults
      BY <1>6, RollingAssumption DEF Abort, Fault, TypeOK
    <2> QED
      BY <1>6, <2>1, RetryTypes DEF Abort, apiVars, cacheVars, k8sVars, TypeOK
  <1>7. ASSUME NEW spec \in CRs, UserEdit(spec) PROVE TypeOK'
    BY <1>7, RollingAssumption DEF UserEdit, cacheVars, k8sVars, opVars, TypeOK
  <1>8. CASE Edit
    <2>1. edits + 1 \in Versions \/ ~(edits < MaxEdits)
      BY RollingAssumption DEF TypeOK, Versions
    <2>2. ASSUME edits + 1 \in Versions, NEW field \in Editable PROVE Edited(field) \in CRs
      BY <2>2, EditedType DEF TypeOK
    <2> QED
      BY <1>7, <1>8, <2>1, <2>2 DEF Edit, UserEdit
  <1>9. CASE SyncCR
    BY <1>9 DEF SyncCR, apiVars, k8sVars, TypeOK
  <1>10. ASSUME NEW c \in Components, SyncStatefulSet(c) PROVE TypeOK'
    BY <1>10 DEF SyncStatefulSet, apiVars, k8sVars, TypeOK
  <1>11. ASSUME NEW c \in Components, SyncEndpoints(c) PROVE TypeOK'
    <2>1. Cardinality(Up(c)) \in Nat
      BY PodCounts DEF Up
    <2> QED
      BY <1>11, <2>1 DEF SyncEndpoints, apiVars, cacheVars, opVars, TypeOK
  <1>12. ASSUME NEW c \in Components, NEW p \in Pods(c),
               RestartPod(c, p) \/ PodStarts(c, p) \/ PodFails(c, p)
         PROVE  TypeOK'
    <2>1. /\ pods[c][p] \in [template : Templates, up : BOOLEAN]
          /\ set[c] \in StatefulSets
          /\ set[c].template \in Templates /\ set[c].current \in Nat
          /\ podNum[c] \in Nat
      BY PodNumbers DEF TypeOK, StatefulSets
    <2>2. faults' \in 0..MaxFaults
      BY <1>12, RollingAssumption DEF RestartPod, PodStarts, PodFails, Fault, TypeOK
    <2>3. CASE RestartPod(c, p)
      <3>1. Cardinality(Outdated(c) \ {p}) \in Nat
        BY PodCounts DEF Outdated
      <3> QED
        BY <2>1, <2>2, <2>3, <3>1, PodTypeOK DEF RestartPod
    <2>4. CASE PodStarts(c, p)
      BY <2>1, <2>2, <2>4, PodTypeOK DEF PodStarts
    <2>5. CASE PodFails(c, p)
      BY <2>1, <2>2, <2>5, PodTypeOK DEF PodFails
    <2> QED
      BY <1>12, <2>3, <2>4, <2>5
  <1>13. CASE UNCHANGED vars
    BY <1>13 DEF vars, apiVars, cacheVars, k8sVars, opVars, TypeOK
  <1> QED
    BY <1>1, <1>2, <1>3, <1>4, <1>5, <1>6, <1>8, <1>9, <1>10, <1>11, <1>12, <1>13
       DEF Next, Reconcile, Kubernetes

-----------------------------------------------------------------------------
Ordered == UpgradeOrder /\ BehindTheCR /\ CopiesBehind /\ Passed

\* The images are numbers.
LEMMA ImagesAreNumbers ==
    ASSUME TypeOK
    PROVE  /\ cr.image \in Nat /\ local.cr.image \in Nat /\ edits \in Nat
           /\ \A c \in Components : /\ set[c].template.image \in Nat
                                   /\ setCache[c].template.image \in Nat
                                   /\ local.set[c].template.image \in Nat
  BY RollingAssumption DEF TypeOK, CRs, StatefulSets, Templates, Locals, Versions

\* The end of a reconcile that wrote nothing keeps the order.
LEMMA RetryOrdered ==
    ASSUME TypeOK, Ordered, UNCHANGED <<cr, set, setCache, edits>>,
           pc' = "Idle", local' = NoLocals
    PROVE  Ordered'
  <1>1. local'.cr.image = 0 /\ \A c \in Components : local'.set[c].template.image = 0
    BY NoLocalsType
  <1>2. UpgradeOrder' /\ Passed'
    BY NoLocalsType DEF Ordered, UpgradeOrder, Passed
  <1>3. BehindTheCR' /\ CopiesBehind'
    BY <1>1, ImagesAreNumbers DEF Ordered, BehindTheCR, CopiesBehind
  <1> QED
    BY <1>2, <1>3 DEF Ordered

\* A step that changes no image, nor what the reconcile knows, keeps the order.
LEMMA FrameOrdered ==
    ASSUME Ordered, cr' = cr, edits' = edits, pc' = pc, setCache' = setCache,
           local'.cr = local.cr, local'.set = local.set, local'.rolling = local.rolling,
           \A c \in Components : set'[c].template = set[c].template
    PROVE  Ordered'
  <1>1. UpgradeOrder'
    BY DEF Ordered, UpgradeOrder, Components
  <1>2. BehindTheCR' /\ CopiesBehind'
    BY DEF Ordered, BehindTheCR, CopiesBehind
  <1>3. Passed'
    BY DEF Ordered, Passed, Components
  <1> QED
    BY <1>1, <1>2, <1>3 DEF Ordered

\* Every step keeps the order.
LEMMA NextOrdered == TypeOK /\ Ordered /\ [Next]_vars => Ordered'
  <1> SUFFICES ASSUME TypeOK, Ordered, [Next]_vars PROVE Ordered'
    OBVIOUS
  <1>0. TypeOK'
    BY NextTypeOK
  <1>1. CASE ReconcileStart
    <2>1. /\ cr' = cr /\ set' = set /\ setCache' = setCache /\ edits' = edits
          /\ pc' = "CreateResources" /\ local' = NoLocals
      BY <1>1 DEF ReconcileStart, AsIs, apiVars, cacheVars
    <2>2. local'.cr.image = 0 /\ \A c \in Components : local'.set[c].template.image = 0
      BY <2>1, NoLocalsType
    <2>3. UpgradeOrder' /\ Passed'
      BY <2>1, NoLocalsType DEF Ordered, UpgradeOrder, Passed
    <2>4. BehindTheCR' /\ CopiesBehind'
      BY <2>1, <2>2, ImagesAreNumbers DEF Ordered, BehindTheCR, CopiesBehind
    <2> QED
      BY <2>3, <2>4 DEF Ordered
  <1>2. CASE CreateResources
    <2>1. /\ UNCHANGED <<cr, set, setCache, edits>>
          /\ pc = "CreateResources" /\ pc' = "ReconcileMaster"
          /\ local'.cr = local.cr /\ local'.rolling = local.rolling /\ local'.set = setCache
      BY <1>2 DEF CreateResources, AsIs, apiVars, cacheVars, TypeOK, Locals
    <2>2. UpgradeOrder' /\ Passed' /\ BehindTheCR'
      BY <2>1 DEF Ordered, UpgradeOrder, Passed, BehindTheCR
    <2>3. CopiesBehind'
      BY <2>1 DEF Ordered, CopiesBehind
    <2> QED
      BY <2>2, <2>3 DEF Ordered
  <1>3. CASE ReconcileMaster
    <2>1. CASE Retry
      BY <1>3, <2>1, RetryOrdered DEF ReconcileMaster, AsIs, apiVars, cacheVars, Retry
    <2>2. CASE pc' = "Roll" /\ local' = [local EXCEPT !.cr = cr]
      <3>1. /\ UNCHANGED <<cr, set, setCache, edits>>
            /\ pc = "ReconcileMaster" /\ pc' = "Roll"
            /\ local'.cr = cr /\ local'.set = local.set /\ local'.rolling = local.rolling
        BY <1>3, <2>2 DEF ReconcileMaster, AsIs, apiVars, cacheVars, TypeOK, Locals
      <3>2. UpgradeOrder' /\ CopiesBehind' /\ Passed'
        BY <3>1 DEF Ordered, UpgradeOrder, CopiesBehind, Passed
      <3>3. BehindTheCR'
        BY <3>1, ImagesAreNumbers DEF Ordered, BehindTheCR
      <3> QED
        BY <3>2, <3>3 DEF Ordered
    <2> QED
      BY <1>3, <2>1, <2>2 DEF ReconcileMaster
  <1>4. CASE TriggerRollingUpdate
    <2> DEFINE c == local.rolling
               object == [local.set[c] EXCEPT !.template = Template(c, local.cr)]
    <2>1. c \in Components /\ local.cr \in CRs /\ local.set[c] \in StatefulSets
      BY DEF TypeOK, Locals
    <2>2. object.template.image = local.cr.image
      BY <2>1, TemplateType DEF StatefulSets
    <2>3. /\ UNCHANGED <<cr, setCache, edits>>
          /\ pc = "Roll" /\ pc' = "Idle" /\ local' = NoLocals
      BY <1>4 DEF TriggerRollingUpdate, Retry
    <2>4. CASE ~local.fresh[c]
      BY <1>4, <2>3, <2>4, RetryOrdered DEF TriggerRollingUpdate
    <2>5. CASE local.fresh[c]
      <3> HIDE DEF object
      <3>1. set' = [set EXCEPT ![c] = object]
        BY <1>4, <2>5 DEF TriggerRollingUpdate, object
      <3>2. \A d \in Components : set'[d].template.image =
                IF d = c THEN local.cr.image ELSE set[d].template.image
        BY <2>1, <2>2, <3>1 DEF TypeOK
      <3>3. \A d \in Components : /\ set[d].template.image <= set'[d].template.image
                                 /\ set'[d].template.image <= cr.image
        BY <2>3, <3>2, ImagesAreNumbers DEF Ordered, BehindTheCR
      <3>4. UpgradeOrder'
        BY <2>1, <2>3, <3>2, ImagesAreNumbers
           DEF Ordered, UpgradeOrder, BehindTheCR, Passed, Components
      <3>5. local'.cr.image = 0 /\ \A d \in Components : local'.set[d].template.image = 0
        BY <2>3, NoLocalsType
      <3>6. BehindTheCR'
        BY <2>3, <3>3, <3>5, ImagesAreNumbers DEF Ordered, BehindTheCR
      <3>7. CopiesBehind'
        <4>1. \A d \in Components : set'[d].template.image \in Nat
          BY <1>0, ImagesAreNumbers, <3>2
        <4> QED
          BY <2>3, <3>3, <3>5, <4>1, ImagesAreNumbers DEF Ordered, CopiesBehind
      <3>8. Passed'
        BY <2>3, NoLocalsType DEF Passed
      <3> QED
        BY <3>4, <3>6, <3>7, <3>8 DEF Ordered
    <2> QED
      BY <2>4, <2>5
  <1>5. CASE NextComponent
    <2>1. CASE local' = NoLocals /\ pc' = "Idle"
      BY <1>5, <2>1, RetryOrdered DEF NextComponent, AsIs, apiVars, cacheVars
    <2>2. CASE /\ local.rolling # "storage"
               /\ local' = [local EXCEPT !.rolling = After(local.rolling)]
               /\ UNCHANGED <<queued, pc>>
      <3>1. /\ UNCHANGED <<cr, set, setCache, edits>>
            /\ pc = "Roll" /\ pc' = "Roll"
            /\ local'.cr = local.cr /\ local'.set = local.set
            /\ local'.rolling = After(local.rolling)
        BY <1>5, <2>2 DEF NextComponent, AsIs, apiVars, cacheVars, TypeOK, Locals
      <3>2. UpgradeOrder' /\ BehindTheCR' /\ CopiesBehind'
        BY <3>1 DEF Ordered, UpgradeOrder, BehindTheCR, CopiesBehind
      <3>3. local.cr.image = local.set[local.rolling].template.image
        BY <1>5 DEF NextComponent, NeedRollingUpdate, BrokerStatefulSetChanged,
           CoordinatorStatefulSetChanged, StorageStatefulSetChanged
      <3>4. local.rolling \in Components
        BY DEF TypeOK, Locals
      <3>5. local.cr.image <= set[local.rolling].template.image
        BY <3>3, <3>4 DEF Ordered, CopiesBehind
      <3>6. Passed'
        BY <2>2, <3>1, <3>4, <3>5 DEF Ordered, Passed, After, Components
      <3> QED
        BY <3>2, <3>6 DEF Ordered
    <2> QED
      BY <1>5, <2>1, <2>2 DEF NextComponent, Retry
  <1>6. CASE Abort
    BY <1>6, RetryOrdered DEF Abort, Retry, apiVars, cacheVars
  <1>7. ASSUME NEW spec \in CRs, UserEdit(spec), spec.image \in {cr.image, edits + 1}
        PROVE  Ordered'
    <2>1. cr' = spec /\ edits' = edits + 1 /\ UNCHANGED <<set, setCache, pc, local>>
      BY <1>7 DEF UserEdit, cacheVars, opVars
    <2>2. UpgradeOrder' /\ CopiesBehind' /\ Passed'
      BY <2>1 DEF Ordered, UpgradeOrder, CopiesBehind, Passed
    <2>3. cr.image <= spec.image /\ spec.image <= edits + 1 /\ spec.image \in Nat
      BY <1>7, ImagesAreNumbers DEF Ordered, BehindTheCR
    <2>4. BehindTheCR'
      BY <2>1, <2>3, ImagesAreNumbers DEF Ordered, BehindTheCR
    <2> QED
      BY <2>2, <2>4 DEF Ordered
  <1>8. CASE Edit
    <2>1. edits + 1 \in Versions \/ ~(edits < MaxEdits)
      BY RollingAssumption DEF TypeOK, Versions
    <2>2. ASSUME edits + 1 \in Versions, NEW field \in Editable
          PROVE  Edited(field) \in CRs /\ Edited(field).image \in {cr.image, edits + 1}
      BY <2>2, EditedType DEF TypeOK
    <2> QED
      BY <1>7, <1>8, <2>1, <2>2 DEF Edit, UserEdit
  <1>9. CASE SyncCR
    BY <1>9, FrameOrdered DEF SyncCR, apiVars
  <1>10. ASSUME NEW c \in Components, SyncStatefulSet(c) PROVE Ordered'
    <2>1. /\ UNCHANGED <<cr, set, pc, local, edits>>
          /\ \A d \in Components : setCache'[d] = IF d = c THEN set[c] ELSE setCache[d]
      BY <1>10 DEF SyncStatefulSet, apiVars, TypeOK
    <2>2. UpgradeOrder' /\ BehindTheCR' /\ Passed'
      BY <2>1 DEF Ordered, UpgradeOrder, BehindTheCR, Passed
    <2>3. CopiesBehind'
      BY <2>1, ImagesAreNumbers DEF Ordered, CopiesBehind
    <2> QED
      BY <2>2, <2>3 DEF Ordered
  <1>11. ASSUME NEW c \in Components, SyncEndpoints(c) PROVE Ordered'
    BY <1>11, FrameOrdered DEF SyncEndpoints, apiVars, cacheVars, opVars
  <1>12. ASSUME NEW c \in Components, NEW p, NEW pod, NEW current \in Nat,
               PodStep(c, p, pod, current)
         PROVE  Ordered'
    <2>1. Cardinality(Up(c)') \in Nat
      <3>1. Up(c)' \subseteq Pods(c)
        BY DEF Up
      <3> QED
        BY <3>1, PodCounts
    <2>2. \A d \in Components : set'[d].template = set[d].template
      <3>1. Status(c, set[c], Cardinality(Up(c)'), current).template = set[c].template
        BY <2>1, StatusType DEF TypeOK
      <3>2. set' = [set EXCEPT ![c] = Status(c, set[c], Cardinality(Up(c)'), current)]
        BY <1>12 DEF PodStep
      <3> QED
        BY <3>1, <3>2 DEF TypeOK
    <2>3. /\ local'.cr = local.cr /\ local'.set = local.set /\ local'.rolling = local.rolling
      BY <1>12, LocalStaleType DEF PodStep, TypeOK
    <2> QED
      BY <1>12, <2>2, <2>3, FrameOrdered DEF PodStep
  <1>13. ASSUME NEW c \in Components, NEW p \in Pods(c),
               RestartPod(c, p) \/ PodStarts(c, p) \/ PodFails(c, p)
         PROVE  Ordered'
    <2>1. set[c].current \in Nat /\ podNum[c] \in Nat
      BY PodNumbers DEF TypeOK, StatefulSets
    <2>2. Cardinality(Outdated(c) \ {p}) \in Nat
      BY PodCounts DEF Outdated
    <2> QED
      BY <1>12, <1>13, <2>1, <2>2 DEF RestartPod, PodStarts, PodFails
  <1>14. CASE UNCHANGED vars
    BY <1>14, FrameOrdered DEF vars, apiVars, cacheVars, opVars
  <1> QED
    BY <1>1, <1>2, <1>3, <1>4, <1>5, <1>6, <1>8, <1>9, <1>10, <1>11, <1>13, <1>14
       DEF Next, Reconcile, Kubernetes

-----------------------------------------------------------------------------
(* Why the operator may go to sleep *)

\* Every version in the CR, and in the cached one, is the number of an edit
\* that has been made: the next edit makes the two differ.
EditsCounted ==
    \A spec \in {cr, crCache} :
        /\ spec.image <= edits /\ spec.limit <= edits
        /\ \A c \in Components : spec.resources[c] <= edits

CacheIsCurrent == \A c \in Components : setFresh[c] => setCache[c] = set[c]

\* What the reconcile in progress has taken from the cache is still there, or
\* there is a request for another reconcile.
ReadFromCache ==
    (~queued /\ pc \in {"ReconcileMaster", "Roll"}) =>
        \A c \in Components : local.set[c] = setCache[c]

\* So with the CR that it got from the API server.
CRIsCurrent == (~queued /\ crCache = cr /\ pc = "Roll") => local.cr = cr

Before(c, d) == c # d /\ (c = "broker" \/ d = "storage")

\* It only goes on to the next component when the last one needs nothing.
PassedAreDone ==
    pc = "Roll" =>
        \A c \in Components :
            Before(c, local.rolling) => ~NeedRollingUpdate(c, local.cr, local.set[c].template)

Resting ==
    /\ EditsCounted /\ CacheIsCurrent /\ ReadFromCache /\ CRIsCurrent /\ PassedAreDone
    /\ RestsOnlyWhenUpdated

\* The initial states: nothing has been edited and nothing needs an update.
LEMMA InitResting == Init => Resting
  <1> SUFFICES ASSUME Init PROVE Resting
    OBVIOUS
  <1>1. /\ cr = FirstCR /\ crCache = FirstCR /\ edits = 0 /\ pc = "Idle"
        /\ \A c \in Components : set[c] = FirstSet(c) /\ setCache[c] = FirstSet(c)
    BY DEF Init
  <1>2. EditsCounted
    BY <1>1 DEF EditsCounted, FirstCR
  <1>3. CacheIsCurrent /\ ReadFromCache /\ CRIsCurrent /\ PassedAreDone
    BY <1>1 DEF CacheIsCurrent, ReadFromCache, CRIsCurrent, PassedAreDone
  <1>4. ASSUME NEW c \in Components PROVE ~NeedRollingUpdate(c, FirstCR, FirstSet(c).template)
    BY DEF NeedRollingUpdate, BrokerStatefulSetChanged, CoordinatorStatefulSetChanged,
       StorageStatefulSetChanged, FirstSet, Template, CreateBrokerStatefulSet,
       CreateCoordinatorStatefulSet, CreateStorageStatefulSet, FirstCR, Components
  <1>5. RestsOnlyWhenUpdated
    BY <1>1, <1>4 DEF RestsOnlyWhenUpdated
  <1> QED
    BY <1>2, <1>3, <1>5 DEF Resting

\* The end of a reconcile that is to be tried again.
LEMMA RetryResting ==
    ASSUME EditsCounted', CacheIsCurrent', pc' = "Idle", queued' = TRUE
    PROVE  Resting'
  BY DEF Resting, ReadFromCache, CRIsCurrent, PassedAreDone, RestsOnlyWhenUpdated

\* A step that leaves the operator's knowledge alone and gives another
\* resourceVersion to each StatefulSet it changes.
LEMMA FrameResting ==
    ASSUME Resting, UNCHANGED <<cr, crCache, setCache, queued, pc, edits>>,
           local'.cr = local.cr, local'.set = local.set, local'.rolling = local.rolling,
           \A c \in Components : \/ set'[c] = set[c] /\ setFresh'[c] = setFresh[c]
                                \/ ~setFresh'[c]
    PROVE  Resting'
  <1>1. EditsCounted' /\ CacheIsCurrent'
    BY DEF Resting, EditsCounted, CacheIsCurrent
  <1>2. ReadFromCache' /\ CRIsCurrent' /\ PassedAreDone'
    BY DEF Resting, ReadFromCache, CRIsCurrent, PassedAreDone
  <1>3. RestsOnlyWhenUpdated'
    BY DEF Resting, RestsOnlyWhenUpdated
  <1> QED
    BY <1>1, <1>2, <1>3 DEF Resting

\* Every step keeps the facts about the operator at rest.
LEMMA NextResting == TypeOK /\ Ordered /\ Resting /\ [Next]_vars => Resting'
  <1> SUFFICES ASSUME TypeOK, Ordered, Resting, [Next]_vars PROVE Resting'
    OBVIOUS
  <1>0. AsIs => EditsCounted' /\ CacheIsCurrent'
    BY DEF Resting, EditsCounted, CacheIsCurrent, AsIs, apiVars, cacheVars
  <1>1. CASE ReconcileStart
    <2>1. pc' = "CreateResources"
      BY <1>1 DEF ReconcileStart
    <2> QED
      BY <1>0, <1>1, <2>1 DEF ReconcileStart, Resting, ReadFromCache, CRIsCurrent,
         PassedAreDone, RestsOnlyWhenUpdated
  <1>2. CASE CreateResources
    <2>1. /\ AsIs /\ queued' = queued /\ setCache' = setCache
          /\ pc' = "ReconcileMaster" /\ local'.set = setCache
      BY <1>2 DEF CreateResources, AsIs, cacheVars, TypeOK, Locals
    <2> QED
      BY <1>0, <2>1 DEF Resting, ReadFromCache, CRIsCurrent, PassedAreDone, RestsOnlyWhenUpdated
  <1>3. CASE ReconcileMaster
    <2>1. CASE Retry
      BY <1>0, <1>3, <2>1, RetryResting DEF ReconcileMaster, Retry
    <2>2. CASE pc' = "Roll" /\ local' = [local EXCEPT !.cr = cr] /\ UNCHANGED queued
      <3>1. /\ AsIs /\ cr' = cr /\ setCache' = setCache /\ queued' = queued
            /\ pc = "ReconcileMaster" /\ pc' = "Roll"
            /\ local'.cr = cr /\ local'.set = local.set /\ local'.rolling = local.rolling
        BY <1>3, <2>2 DEF ReconcileMaster, AsIs, apiVars, cacheVars, TypeOK, Locals
      <3>2. ReadFromCache' /\ CRIsCurrent' /\ RestsOnlyWhenUpdated'
        BY <3>1 DEF Resting, ReadFromCache, CRIsCurrent, RestsOnlyWhenUpdated
      <3>3. PassedAreDone'
        <4>1. local'.rolling = "broker"
          BY <3>1 DEF Ordered, Passed
        <4> QED
          BY <4>1 DEF PassedAreDone, Before
      <3> QED
        BY <1>0, <3>1, <3>2, <3>3 DEF Resting
    <2> QED
      BY <1>3, <2>1, <2>2 DEF ReconcileMaster
  <1>4. CASE TriggerRollingUpdate
    <2>1. /\ UNCHANGED <<cr, crCache, setCache, edits>>
          /\ pc' = "Idle" /\ queued' = TRUE
      BY <1>4 DEF TriggerRollingUpdate, Retry
    <2>2. EditsCounted'
      BY <2>1 DEF Resting, EditsCounted
    <2>3. \A c \in Components : \/ set'[c] = set[c] /\ setFresh'[c] = setFresh[c]
                               \/ ~setFresh'[c]
      BY <1>4 DEF TriggerRollingUpdate, TypeOK
    <2>4. CacheIsCurrent'
      BY <2>1, <2>3 DEF Resting, CacheIsCurrent
    <2> QED
      BY <2>1, <2>2, <2>4, RetryResting
  <1>5. CASE NextComponent
    <2> DEFINE c == local.rolling
    <2>1. /\ AsIs /\ UNCHANGED <<cr, crCache, set, setCache, setFresh>> /\ pc = "Roll"
          /\ c \in Components
          /\ ~NeedRollingUpdate(c, local.cr, local.set[c].template)
      BY <1>5 DEF NextComponent, AsIs, apiVars, cacheVars, TypeOK, Locals
    <2>2. CASE Retry
      BY <1>0, <2>1, <2>2, RetryResting DEF Retry
    <2>3. CASE /\ c # "storage"
               /\ local' = [local EXCEPT !.rolling = After(c)]
               /\ UNCHANGED <<queued, pc>>
      <3>1. local'.cr = local.cr /\ local'.set = local.set /\ local'.rolling = After(c)
        BY <2>3 DEF TypeOK, Locals
      <3>2. \A d \in Components : Before(d, After(c)) => d = c \/ Before(d, c)
        BY <2>1, <2>3 DEF Before, After, Components
      <3>3. PassedAreDone'
        BY <2>1, <2>3, <3>1, <3>2 DEF Resting, PassedAreDone
      <3>4. ReadFromCache' /\ CRIsCurrent' /\ RestsOnlyWhenUpdated'
        BY <2>1, <2>3, <3>1 DEF Resting, ReadFromCache, CRIsCurrent, RestsOnlyWhenUpdated
      <3> QED
        BY <1>0, <2>1, <3>3, <3>4 DEF Resting
    <2>4. CASE c = "storage" /\ pc' = "Idle" /\ UNCHANGED queued
      <3>1. ASSUME ~queued, crCache = cr, \A d \in Components : setFresh[d],
                   NEW d \in Components
            PROVE  ~NeedRollingUpdate(d, cr, set[d].template)
        <4>1. local.cr = cr /\ local.set[d] = set[d]
          BY <2>1, <3>1 DEF Resting, CacheIsCurrent, ReadFromCache, CRIsCurrent
        <4>2. ~NeedRollingUpdate(d, local.cr, local.set[d].template)
          BY <2>1, <2>4 DEF Resting, PassedAreDone, Before
        <4> QED
          BY <4>1, <4>2
      <3>2. RestsOnlyWhenUpdated'
        BY <2>1, <2>4, <3>1 DEF RestsOnlyWhenUpdated
      <3> QED
        BY <1>0, <2>1, <2>4, <3>2 DEF Resting, ReadFromCache, CRIsCurrent, PassedAreDone
    <2> QED
      BY <1>5, <2>2, <2>3, <2>4 DEF NextComponent
  <1>6. CASE Abort
    <2>1. EditsCounted' /\ CacheIsCurrent'
      BY <1>6 DEF Abort, apiVars, cacheVars, Resting, EditsCounted, CacheIsCurrent
    <2> QED
      BY <1>6, <2>1, RetryResting DEF Abort, Retry
  <1>7. CASE Edit
    <2>1. /\ edits < MaxEdits /\ edits' = edits + 1
          /\ UNCHANGED <<crCache, set, setCache, setFresh, queued, pc, local>>
      BY <1>7 DEF Edit, UserEdit, cacheVars, opVars
    <2>2. /\ edits \in Nat /\ cr \in CRs /\ crCache \in CRs
          /\ cr.image \in Nat /\ cr.limit \in Nat /\ crCache.image \in Nat /\ crCache.limit \in Nat
          /\ \A c \in Components : cr.resources[c] \in Nat /\ crCache.resources[c] \in Nat
      BY RollingAssumption DEF TypeOK, CRs, Versions
    <2>3. /\ cr'.image \in {cr.image, edits + 1} /\ cr'.limit \in {cr.limit, edits + 1}
          /\ \A c \in Components : cr'.resources[c] \in {cr.resources[c], edits + 1}
          /\ \/ cr'.image = edits + 1 \/ cr'.limit = edits + 1
             \/ \E c \in Components : cr'.resources[c] = edits + 1
      BY <1>7, <2>2, EditedType DEF Edit, UserEdit
    <2>4. EditsCounted'
      BY <2>1, <2>2, <2>3 DEF Resting, EditsCounted
    <2>5. crCache' # cr'
      BY <2>1, <2>2, <2>3 DEF Resting, EditsCounted
    <2> QED
      BY <2>1, <2>4, <2>5 DEF Resting, CacheIsCurrent, ReadFromCache, CRIsCurrent,
         PassedAreDone, RestsOnlyWhenUpdated
  <1>8. CASE SyncCR
    <2>1. /\ queued' = TRUE /\ crCache' = cr
          /\ UNCHANGED <<cr, set, setCache, setFresh, pc, local, edits>>
      BY <1>8 DEF SyncCR, apiVars
    <2> QED
      BY <2>1 DEF Resting, EditsCounted, CacheIsCurrent, ReadFromCache, CRIsCurrent, PassedAreDone,
         RestsOnlyWhenUpdated
  <1>9. ASSUME NEW c \in Components, SyncStatefulSet(c) PROVE Resting'
    <2>1. queued' = TRUE /\ UNCHANGED <<cr, crCache, set, pc, local, edits>>
      BY <1>9 DEF SyncStatefulSet, apiVars
    <2>2. CacheIsCurrent'
      <3>1. /\ set' = set
            /\ setCache' = [setCache EXCEPT ![c] = set[c]]
            /\ setFresh' = [setFresh EXCEPT ![c] = TRUE]
        BY <1>9 DEF SyncStatefulSet, apiVars
      <3>2. \A d \in Components : setFresh[d] => setCache[d] = set[d]
        BY DEF Resting, CacheIsCurrent
      <3>3. \A d \in Components : setFresh'[d] => setCache'[d] = set'[d]
        BY <3>1, <3>2 DEF TypeOK
      <3> QED
        BY <3>3 DEF CacheIsCurrent
    <2> QED
      BY <2>1, <2>2 DEF Resting, EditsCounted, ReadFromCache, CRIsCurrent, PassedAreDone,
         RestsOnlyWhenUpdated
  <1>10. ASSUME NEW c \in Components, SyncEndpoints(c) PROVE Resting'
    BY <1>10, FrameResting DEF SyncEndpoints, apiVars, cacheVars, opVars
  <1>11. ASSUME NEW c \in Components, NEW p, NEW pod, NEW current, PodStep(c, p, pod, current)
         PROVE  Resting'
    <2>1. local'.cr = local.cr /\ local'.set = local.set /\ local'.rolling = local.rolling
      BY <1>11, LocalStaleType DEF PodStep, TypeOK
    <2>2. \A d \in Components : \/ set'[d] = set[d] /\ setFresh'[d] = setFresh[d]
                               \/ ~setFresh'[d]
      BY <1>11 DEF PodStep, TypeOK
    <2> QED
      BY <1>11, <2>1, <2>2, FrameResting DEF PodStep
  <1>12. CASE UNCHANGED vars
    BY <1>12, FrameResting DEF vars, apiVars, cacheVars, opVars
  <1>13. CASE Reconcile
    BY <1>1, <1>2, <1>3, <1>4, <1>5, <1>13 DEF Reconcile
  <1> QED
    BY <1>6, <1>7, <1>8, <1>9, <1>10, <1>11, <1>12, <1>13
       DEF Next, Kubernetes, RestartPod, PodStarts, PodFails

-----------------------------------------------------------------------------
\* The inductive invariant holds in every reachable state.
THEOREM Invariance == Spec => [](IInv /\ Resting)
  <1>1. (IInv /\ Resting) /\ [Next]_vars => (IInv /\ Resting)'
    BY NextTypeOK, NextOrdered, NextResting DEF IInv, Ordered
  <1> QED
    BY InitInv, InitResting, <1>1, PTL DEF Spec

\* Type correctness of the rolling update model.
THEOREM TypeCorrect == Spec => []TypeOK
  BY Invariance, PTL DEF IInv

\* triggerRollingUpdate gives an image to the broker, then the coordinator,
\* then the storage, for any number of pods and edits and however stale the
\* StatefulSets are that it compares.
THEOREM UpgradesInOrder == Spec => []UpgradeOrder
  BY Invariance, PTL DEF IInv

\* Reconcile ends without asking for another try only when every StatefulSet
\* has the image and the resources of the CR, or when the event of a later
\* change is still on its way: no edit is missed for good, for any number of
\* pods, edits and faults.
THEOREM NoEditIsMissed == Spec => []RestsOnlyWhenUpdated
  BY Invariance, PTL DEF Resting

-----------------------------------------------------------------------------
(* The rolling update implements an ordered upgrade *)

Images == [c \in Components |-> set[c].template.image]

\* The steps that change an image, in the CR or in a StatefulSet.
LEMMA ImageSteps ==
    ASSUME TypeOK, [Next]_vars
    PROVE  \/ Edit
           \/ TriggerRollingUpdate /\ local.fresh[local.rolling]
           \/ cr' = cr /\ Images' = Images
  <1>1. CASE UNCHANGED <<cr, set>>
    BY <1>1 DEF Images
  <1>2. ASSUME NEW c \in Components, NEW p, NEW pod, NEW current \in Nat,
              PodStep(c, p, pod, current)
        PROVE  cr' = cr /\ Images' = Images
    <2>1. Cardinality(Up(c)') \in Nat
      <3>1. Up(c)' \subseteq Pods(c)
        BY DEF Up
      <3> QED
        BY <3>1, PodCounts
    <2>2. Status(c, set[c], Cardinality(Up(c)'), current).template = set[c].template
      BY <2>1, StatusType DEF TypeOK
    <2>3. \A d \in Components : set'[d].template = set[d].template
      BY <1>2, <2>2 DEF PodStep, TypeOK
    <2> QED
      BY <1>2, <2>3 DEF PodStep, Images
  <1>3. ASSUME NEW c \in Components, NEW p \in Pods(c),
              RestartPod(c, p) \/ PodStarts(c, p) \/ PodFails(c, p)
        PROVE  cr' = cr /\ Images' = Images
    <2>1. set[c].current \in Nat /\ podNum[c] \in Nat
      BY PodNumbers DEF TypeOK, StatefulSets
    <2>2. Cardinality(Outdated(c) \ {p}) \in Nat
      BY PodCounts DEF Outdated
    <2> QED
      BY <1>2, <1>3, <2>1, <2>2 DEF RestartPod, PodStarts, PodFails
  <1> QED
    BY <1>1, <1>3 DEF Next, vars, Reconcile, ReconcileStart, CreateResources, ReconcileMaster,
       NextComponent, TriggerRollingUpdate, AsIs, apiVars, Abort, SyncCR, Kubernetes,
       SyncStatefulSet, SyncEndpoints

\* The images of the three StatefulSets are those of an ordered upgrade: one
\* component at a time, after the one before it, and never back, for any
\* number of pods, edits and faults.
THEOREM UpgradesStepByStep == Spec => OrderedUpgrade
  <1>1. Init => Upgrades!Init
    <2> SUFFICES ASSUME Init PROVE Upgrades!Init
      OBVIOUS
    <2>1. /\ cr = FirstCR
          /\ \A c \in Components : set[c] = FirstSet(c)
      BY DEF Init
    <2> QED
      BY <2>1, NoLocalsType DEF Upgrades!Init
  <1>2. IInv /\ [Next]_vars => [Upgrades!Next]_<<cr.image, Images>>
    <2> SUFFICES ASSUME IInv, [Next]_vars PROVE [Upgrades!Next]_<<cr.image, Images>>
      OBVIOUS
    <2>1. CASE Edit
      <3>1. set' = set /\ edits < MaxEdits /\ edits' = edits + 1
        BY <2>1 DEF Edit, UserEdit
      <3>2. cr'.image \in {cr.image, edits + 1}
        BY <2>1, EditedType DEF Edit, UserEdit, IInv, TypeOK
      <3>3. \/ cr'.image = cr.image
            \/ cr'.image \in Nat /\ cr'.image > cr.image
        BY <3>2, ImagesAreNumbers DEF IInv, BehindTheCR
      <3> QED
        BY <3>1, <3>3 DEF Images, Upgrades!Next, Upgrades!Ask
    <2>2. CASE TriggerRollingUpdate /\ local.fresh[local.rolling]
      <3>0. PICK c \in Components : c = local.rolling
        BY DEF IInv, TypeOK, Locals
      <3> DEFINE object == [local.set[c] EXCEPT !.template = Template(c, local.cr)]
      <3>1. c \in Components /\ local.cr \in CRs /\ local.set[c] \in StatefulSets
        BY DEF IInv, TypeOK, Locals
      <3>2. object.template.image = local.cr.image
        BY <3>1, TemplateType DEF StatefulSets
      <3>3. cr' = cr /\ pc = "Roll" /\ set' = [set EXCEPT ![c] = object]
        BY <2>2, <3>0 DEF TriggerRollingUpdate
      <3> HIDE DEF object
      <3>4. Images' = [Images EXCEPT ![c] = local.cr.image]
        BY <3>1, <3>2, <3>3 DEF Images, IInv, TypeOK
      <3>5. /\ Images[c] \in Nat /\ local.cr.image \in Nat
            /\ Images[c] <= local.cr.image
        BY <3>1, <3>3, ImagesAreNumbers DEF IInv, BehindTheCR, Images
      <3>6. local.cr.image <= Upgrades!Limit(c)
        <4>1. CASE c = "broker"
          BY <4>1 DEF IInv, BehindTheCR, Upgrades!Limit
        <4>2. CASE c = "coordinator"
          BY <3>0, <3>3, <4>2 DEF IInv, Passed, Upgrades!Limit, Components
        <4>3. CASE c = "storage"
          BY <3>0, <3>3, <4>3 DEF IInv, Passed, Upgrades!Limit, Components
        <4> QED
          BY <3>1, <4>1, <4>2, <4>3 DEF Components
      <3>7. Upgrades!Limit(c) \in Nat
        BY <3>1, ImagesAreNumbers DEF IInv, Upgrades!Limit, Components
      <3>8. CASE Images[c] = local.cr.image
        BY <3>1, <3>3, <3>4, <3>8 DEF Images
      <3>9. CASE Images[c] # local.cr.image
        <4>1. local.cr.image \in (Images[c] + 1)..Upgrades!Limit(c)
          BY <3>5, <3>6, <3>7, <3>9
        <4>2. Upgrades!Install(c)
          BY <3>3, <3>4, <4>1 DEF Upgrades!Install, Images
        <4> QED
          BY <3>1, <4>2 DEF Upgrades!Next
      <3> QED
        BY <3>8, <3>9
    <2>3. CASE cr' = cr /\ Images' = Images
      BY <2>3
    <2> QED
      BY <2>1, <2>2, <2>3, ImageSteps DEF IInv
  <1> QED
    BY <1>1, <1>2, Invariance, PTL DEF Spec, OrderedUpgrade, Upgrades!Spec, Images

-----------------------------------------------------------------------------
(* The comparison with the CR *)

\* A StatefulSet that has just been replaced is not replaced again for its
\* environment, whatever the operator adds and whatever names the CR uses, as
\* long as the CR has one variable of each name.
THEOREM ReplacedOnce ==
    ASSUME NEW E, NEW base \in Seq(E), NEW new \in Seq(E), OneOfEachName(new)
    PROVE  ~EnvVarListNeedUpdate(base \o new, new)
<1> SUFFICES ASSUME NEW i \in DOMAIN new PROVE InOldMap(base \o new, new[i])
  BY DEF EnvVarListNeedUpdate
<1> DEFINE all == base \o new
           at == Len(base) + i
<1>1. i \in 1..Len(new) /\ Len(base) \in Nat /\ Len(new) \in Nat
  OBVIOUS
<1>2. DOMAIN all = 1..(Len(base) + Len(new))
  OBVIOUS
<1>3. at \in DOMAIN all /\ all[at] = new[i]
  BY <1>1, <1>2
<1>4. ASSUME NEW j \in DOMAIN all, all[j].name = new[i].name, ~(j <= at) PROVE FALSE
  <2>1. j - Len(base) \in 1..Len(new) /\ all[j] = new[j - Len(base)]
    BY <1>1, <1>2, <1>4
  <2>2. j - Len(base) = i
    BY <1>4, <2>1 DEF OneOfEachName
  <2> QED
    BY <1>1, <1>2, <1>4, <2>2
<1> HIDE DEF all, at
<1>5. \E k \in DOMAIN all :
        all[k] = new[i] /\ \A j \in DOMAIN all : all[j].name = new[i].name => j <= k
  BY <1>3, <1>4
<1> QED
  BY <1>5 DEF InOldMap, all

\* The indices of a list are numbers and its elements are of its kind.
LEMMA SeqElements ==
    ASSUME NEW E, NEW s \in Seq(E)
    PROVE  DOMAIN s \subseteq Nat /\ \A j \in DOMAIN s : s[j] \in E
<1>1. DOMAIN s = 1..Len(s) /\ Len(s) \in Nat
  OBVIOUS
<1> QED
  BY <1>1

\* Of a list of variables, each of them a name and a value, the operator's map
\* keeps the one that a process finds in its environment.
LEMMA MapKeepsTheEffective ==
    ASSUME NEW E, \A d, e \in E : d.name = e.name /\ d.value = e.value => d = e,
           NEW all \in Seq(E), NEW e \in E
    PROVE  InOldMap(all, e) <=> Effective(all, e.name) = {e.value}
<1> DEFINE last == {j \in DOMAIN all :
                     all[j].name = e.name /\ \A k \in DOMAIN all : all[k].name = e.name => k <= j}
<1>1. DOMAIN all \subseteq Nat /\ \A j \in DOMAIN all : all[j] \in E
  BY SeqElements
<1>2. \A j, k \in last : j = k
  <2> SUFFICES ASSUME NEW j \in last, NEW k \in last PROVE j = k
    OBVIOUS
  <2>1. j <= k /\ k <= j /\ j \in Nat /\ k \in Nat
    BY <1>1
  <2> QED
    BY <2>1
<1>3. Effective(all, e.name) = {all[j].value : j \in last}
  BY DEF Effective
<1>4. InOldMap(all, e) <=> \E j \in last : all[j] = e
  BY DEF InOldMap
<1>5. \A j \in last : all[j] = e <=> all[j].value = e.value
  BY <1>1
<1> HIDE DEF last
<1>6. ASSUME NEW j \in last, all[j] = e PROVE {all[k].value : k \in last} = {e.value}
  BY <1>2, <1>6
<1>7. ASSUME {all[k].value : k \in last} = {e.value} PROVE \E j \in last : all[j].value = e.value
  BY <1>7
<1> QED
  BY <1>3, <1>4, <1>5, <1>6, <1>7

\* A StatefulSet is replaced for its environment exactly when that changes
\* what its pods see of some variable of the CR, whatever the operator adds.
THEOREM ReplacedForADifference ==
    ASSUME NEW E, \A d, e \in E : d.name = e.name /\ d.value = e.value => d = e,
           NEW base \in Seq(E), NEW old \in Seq(E), NEW new \in Seq(E), OneOfEachName(new)
    PROVE  EnvVarListNeedUpdate(base \o old, new) <=>
             \E i \in DOMAIN new :
               Effective(base \o old, new[i].name) # Effective(base \o new, new[i].name)
<1>1. base \o old \in Seq(E) /\ base \o new \in Seq(E) /\ \A i \in DOMAIN new : new[i] \in E
  OBVIOUS
<1>2. \A i \in DOMAIN new : InOldMap(base \o new, new[i])
  BY ReplacedOnce DEF EnvVarListNeedUpdate
<1>3. ASSUME NEW all \in Seq(E), NEW e \in E
      PROVE  InOldMap(all, e) <=> Effective(all, e.name) = {e.value}
  BY MapKeepsTheEffective
<1>4. \A i \in DOMAIN new : Effective(base \o new, new[i].name) = {new[i].value}
  BY <1>1, <1>2, <1>3
<1>5. \A i \in DOMAIN new :
        InOldMap(base \o old, new[i]) <=> Effective(base \o old, new[i].name) = {new[i].value}
  BY <1>1, <1>3
<1> QED
  BY <1>4, <1>5 DEF EnvVarListNeedUpdate

\* The variables of the CR, which follow the ones of the operator, do not hide
\* those when maxmemory, redirection or threads is looked up: the first one of
\* a name among the operator's is found.
THEOREM OwnVariableFound ==
    ASSUME NEW E, NEW base \in Seq(E), NEW new \in Seq(E), NEW empty, NEW i \in DOMAIN base,
           \A j \in DOMAIN base : base[j].name = base[i].name => i <= j
    PROVE  GetEnvValue(base \o new, base[i].name, empty) = base[i].value
<1> DEFINE all == base \o new
           name == base[i].name
           IsFirst(k) == all[k].name = name /\ \A j \in DOMAIN all : all[j].name = name => k <= j
           first == CHOOSE k \in DOMAIN all : IsFirst(k)
<1>1. /\ Len(base) \in Nat /\ Len(new) \in Nat /\ i \in 1..Len(base)
      /\ DOMAIN all = 1..(Len(base) + Len(new))
  OBVIOUS
<1>2. \A j \in DOMAIN base : j \in DOMAIN all /\ all[j] = base[j]
  OBVIOUS
<1>3. ASSUME NEW j \in DOMAIN all, all[j].name = name PROVE i <= j
  <2>1. CASE j \in DOMAIN base
    BY <1>2, <1>3, <2>1
  <2>2. CASE j \notin DOMAIN base
    BY <1>1, <2>2
  <2> QED
    BY <2>1, <2>2
<1> HIDE DEF all
<1>4. i \in DOMAIN all /\ IsFirst(i)
  BY <1>2, <1>3
<1>5. first \in DOMAIN all /\ IsFirst(first)
  BY <1>4
<1>6. first = i
  <2>1. first <= i /\ i <= first
    BY <1>4, <1>5
  <2> QED
    BY <1>1, <1>4, <1>5, <2>1
<1>7. GetEnvValue(all, name, empty) = all[first].value
  BY <1>4 DEF GetEnvValue
<1> QED
  BY <1>2, <1>6, <1>7 DEF all

\* Two resource lists are equal exactly when they name the same resources with
\* the same amounts: that only the names of the first are looked up is enough.
THEOREM SameResources ==
    ASSUME NEW lhs, NEW rhs, IsFiniteSet(DOMAIN lhs), IsFiniteSet(DOMAIN rhs)
    PROVE  ResourceListEqual(lhs, rhs) <=>
             /\ DOMAIN lhs = DOMAIN rhs
             /\ \A r \in DOMAIN lhs : lhs[r].amount = rhs[r].amount
<1>1. ASSUME ResourceListEqual(lhs, rhs) PROVE DOMAIN lhs = DOMAIN rhs
  <2>1. DOMAIN lhs \in SUBSET DOMAIN rhs
    BY <1>1 DEF ResourceListEqual
  <2> QED
    BY <1>1, <2>1, FS_Subset DEF ResourceListEqual
<1> QED
  BY <1>1 DEF ResourceListEqual
=============================================================================
