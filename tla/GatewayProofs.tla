----------------------------- MODULE GatewayProofs -----------------------------
(***************************************************************************)
(* The last layers of the inductive invariant of one controller process,   *)
(* Reads and Wakes, the safety theorems, and that the specification        *)
(* implements GatewayContract.                                             *)
(***************************************************************************)
EXTENDS GatewayInvariantProofs

--------------------------------------------------------------------------------
(* Reads.                                                                  *)

LEMMA VersionNumbers ==
    ASSUME TypeOK
    PROVE  /\ routes \in Nat /\ eps \in Nat
           /\ configMap.rt \in Nat /\ deployment.rt \in Nat /\ status.rt \in Nat
           /\ \A i \in Reading : configMap.ep[i] \in Nat /\ deployment.ep[i] \in Nat
           /\ \A o \in Operators :
                 /\ seen[o].rt \in Nat /\ seen[o].done \in Nat
                 /\ seen[o].ep \in [Reading -> Nat]
                 /\ \A i \in Reading : seen[o].ep[i] \in Nat
  BY DEF TypeOK, Config, Status, Seen

\* StatusIsBacked, child by child.
Backed ==
    status.verdict = "programmed" =>
        /\ configMap.uid > 0 => /\ configMap.uid = status.uid
                                /\ configMap.gen >= status.gen
                                /\ configMap.rt >= status.rt
        /\ deployment.uid > 0 => /\ deployment.uid = status.uid
                                 /\ deployment.gen >= status.gen
                                 /\ deployment.rt >= status.rt
        /\ service.uid > 0 => service.uid = status.uid /\ service.gen >= status.gen

LEMMA BackedIs == (StatusIsBacked <=> Backed) /\ (StatusIsBacked <=> Backed)'
<1>1. StatusIsBacked <=> Backed
  <2>1. /\ Child("configMap") = configMap /\ Child("deployment") = deployment
        /\ Child("service") = service
    BY DEF Child
  <2> QED BY <2>1 DEF StatusIsBacked, Backed, ChildNames, Exists
<1>2. (StatusIsBacked <=> Backed)'
  <2>1. /\ Child("configMap")' = configMap' /\ Child("deployment")' = deployment'
        /\ Child("service")' = service'
    BY DEF Child
  <2> QED BY <2>1 DEF StatusIsBacked, Backed, ChildNames, Exists
<1> QED BY <1>1, <1>2

LEMMA ReadsInit == Init => Reads
  BY BackedIs DEF Init, Reads, VersionsInv, Backed, HashNeverAhead, ReadsInv, AppliedInv, Exists,
     NoConfig, AllOf, NoService, NoStatus, AfterRoutes, AfterEndpoints, AfterConfigMap,
     AfterDeployment, AfterService, ApplyPhases, Absent, Blank

\* A process that is not past its routes is not bound by what it read.
LEMMA ReadsEarly ==
    ASSUME TypeOK, Reads, NEW o \in Operators, SoleOperator, pc'[o] \notin AfterRoutes,
           UNCHANGED <<routes, eps, children>>,
           \/ status' = status
           \/ status'.verdict # "programmed" /\ status'.rt = 0
    PROVE  Reads'
<1>1. VersionsInv' /\ Backed' /\ HashNeverAhead'
  BY BackedIs, VersionNumbers DEF Reads, VersionsInv, Backed, HashNeverAhead, children,
     Exists
<1>2. ReadsInv(o)' /\ AppliedInv(o)'
  BY DEF ReadsInv, AppliedInv, AfterRoutes, AfterEndpoints, AfterConfigMap,
     AfterDeployment, AfterService, ApplyPhases
<1> QED BY <1>1, <1>2, BackedIs DEF Reads, SoleOperator

\* Others only raise versions and remove children.
LEMMA ReadsOthers ==
    ASSUME TypeOK, TypeOK', Reads, UNCHANGED <<pc, snap, seen>>,
           routes <= routes', eps <= eps',
           configMap' \in {configMap, NoConfig}, deployment' \in {deployment, NoConfig},
           \/ service' = NoService
           \/ service'.uid = service.uid /\ service'.gen = service.gen,
           status' \in {status, NoStatus}
    PROVE  Reads'
<1> USE VersionNumbers
<1> routes' \in Nat /\ eps' \in Nat
  BY DEF TypeOK
<1>1. VersionsInv'
  BY DEF Reads, VersionsInv, NoConfig, AllOf, NoStatus
<1>2. Backed'
  BY BackedIs DEF Reads, Backed, NoConfig, NoService, NoStatus
<1>3. HashNeverAhead'
  BY DEF Reads, HashNeverAhead, NoConfig, Exists
<1>4. ASSUME NEW r \in Operators PROVE ReadsInv(r)' /\ AppliedInv(r)'
  <2>1. ReadsInv(r)'
    BY DEF Reads, ReadsInv, ReadInv, NoConfig, AllOf, NoStatus
  <2>2. AppliedInv(r)'
    BY DEF Reads, AppliedInv, Current, NoConfig, NoService
  <2> QED BY <2>1, <2>2
<1> QED BY <1>1, <1>2, <1>3, <1>4, BackedIs DEF Reads

\* A read keeps or raises what the process has read.
LEMMA ReadsRead ==
    ASSUME TypeOK, Writes, Reads, NEW o \in Operators, SoleOperator,
           \/ ListRoutes(o) \/ FetchNamespaces(o) \/ ResolveEndpoints(o) \/ ReadAddress(o)
    PROVE  Reads'
<1>1. UNCHANGED <<routes, eps, status, configMap, deployment, service, snap>>
  BY DEF ListRoutes, FetchNamespaces, ResolveEndpoints, ReadAddress, Goto, api, children
<1>2. VersionsInv' /\ Backed' /\ HashNeverAhead'
  BY <1>1, BackedIs DEF Reads, VersionsInv, Backed, HashNeverAhead, Exists
<1>3. seen[o] \in Seen /\ seen \in [Operators -> Seen] /\ pc \in [Operators -> Phases]
  BY DEF TypeOK
<1>4. CASE ListRoutes(o)
  <2>1. pc'[o] = "namespaces" /\ seen'[o].rt = routes /\ seen'[o].done = 0
    BY <1>3, <1>4 DEF ListRoutes, Goto, Seen, Blank
  <2> QED BY <1>1, <1>2, <2>1, BackedIs, VersionNumbers
             DEF Reads, VersionsInv, ReadsInv, AppliedInv, SoleOperator, AfterRoutes,
                 AfterEndpoints, AfterConfigMap, AfterDeployment, AfterService
<1>5. CASE FetchNamespaces(o)
  <2>1. /\ pc[o] = "namespaces" /\ seen'[o].rt = seen[o].rt
        /\ pc'[o] = "endpoints" \/ (pc'[o] = "address" /\ snap[o].kind # "served")
        /\ seen'[o].done = seen[o].done
    BY <1>3, <1>5 DEF FetchNamespaces, Goto, Seen
  <2>2. seen[o].done = 0 /\ \A i \in Reading : ~(i <= 0)
    BY <2>1 DEF Reads, ReadsInv, Reading
  <2> QED BY <1>1, <1>2, <2>1, <2>2, BackedIs
             DEF Reads, ReadsInv, AppliedInv, SoleOperator, AfterRoutes,
                 AfterEndpoints, AfterConfigMap, AfterDeployment, AfterService, ApplyPhases
<1>6. CASE ResolveEndpoints(o)
  <2> DEFINE next == seen[o].done + 1
  <2>1. /\ pc[o] = "endpoints" /\ seen'[o].rt = seen[o].rt /\ seen'[o].done = next
        /\ seen'[o].ep = [seen[o].ep EXCEPT ![next] = eps]
        /\ pc'[o] = IF next = EndpointReads THEN "configMap" ELSE "endpoints"
    BY <1>3, <1>6 DEF ResolveEndpoints, Goto, Seen
  <2>2. pc[o] \in AfterRoutes /\ ReadsInv(o) /\ VersionsInv
    BY <2>1 DEF Reads, AfterRoutes, ApplyPhases
  <2>3. ASSUME NEW i \in Reading, i <= next PROVE ReadInv(o, i)'
    <3>1. CASE i = next
      BY <1>1, <2>1, <2>2, <3>1, VersionNumbers DEF ReadInv, VersionsInv
    <3>2. CASE i # next
      <4>1. i <= seen[o].done
        BY <2>3, <3>2, VersionNumbers DEF Reading
      <4>2. ReadInv(o, i) /\ seen'[o].ep[i] = seen[o].ep[i]
        BY <2>1, <2>2, <3>2, <4>1, VersionNumbers DEF ReadsInv
      <4> QED BY <1>1, <4>2 DEF ReadInv
    <3> QED BY <3>1, <3>2
  <2>4. ReadsInv(o)'
    <3>1. pc'[o] \in AfterEndpoints => next = EndpointReads
      BY <2>1 DEF AfterEndpoints
    <3>2. \A i \in Reading : i <= EndpointReads
      BY BoundsAssumption DEF Reading
    <3> QED BY <1>1, <2>1, <2>2, <2>3, <3>1, <3>2
            DEF ReadsInv, AfterRoutes, AfterEndpoints, ApplyPhases
  <2>5. AppliedInv(o)'
    BY <2>1 DEF AppliedInv, AfterConfigMap, AfterDeployment, AfterService
  <2> QED BY <1>2, <2>4, <2>5, BackedIs DEF Reads, SoleOperator
<1>7. CASE ReadAddress(o)
  <2>1. pc[o] = "address" /\ pc'[o] = "status" /\ seen'[o].rt = seen[o].rt
    BY <1>3, <1>7 DEF ReadAddress, Goto, Seen
  <2> QED BY <1>1, <1>2, <2>1, BackedIs
             DEF Reads, ReadsInv, AppliedInv, Current, SoleOperator, AfterRoutes,
                 AfterEndpoints, AfterConfigMap, AfterDeployment, AfterService, ApplyPhases
<1> QED BY <1>4, <1>5, <1>6, <1>7

\* A process about to write knows the incarnation the status is of.
LEMMA StatusOwner ==
    ASSUME Lifecycle, Writes, NEW o \in Operators, pc[o] \in ApplyPhases
    PROVE  /\ snap[o].uid > 0 /\ snap[o].gen > 0 /\ snap[o].uid = gw.uid
           /\ status.uid = snap[o].uid \/ status = NoStatus
           /\ Bounds(snap[o])
  BY DEF Lifecycle, SnapInv, Held, Writes, ObjectsInv, CopiesInv, ApplyPhases

LEMMA ReadsConfigMap ==
    ASSUME TypeOK, Lifecycle, Writes, Reads, NEW o \in Operators, SoleOperator,
           ApplyConfigMap(o)
    PROVE  Reads'
<1>1. UNCHANGED <<routes, eps, status, deployment, service>> /\ pc[o] = "configMap"
  BY DEF ApplyConfigMap, api
<1>2. /\ configMap'.uid = snap[o].uid /\ configMap'.gen = snap[o].gen
      /\ configMap'.rt = seen[o].rt /\ configMap'.ep = seen[o].ep
  BY DEF ApplyConfigMap, Generated
<1>3. ReadsInv(o) /\ VersionsInv /\ Backed /\ HashNeverAhead
  BY BackedIs DEF Reads
<1>4. pc[o] \in AfterRoutes /\ pc[o] \in AfterEndpoints /\ pc[o] \in ApplyPhases
  BY <1>1 DEF AfterRoutes, AfterEndpoints, ApplyPhases
<1>5. VersionsInv'
  BY <1>1, <1>2, <1>3, <1>4 DEF VersionsInv, ReadsInv, ReadInv
<1>6. Backed'
  BY <1>1, <1>2, <1>3, <1>4, StatusOwner, VersionNumbers, WrittenNumbers, Numbers
     DEF Backed, ReadsInv, Bounds, StatusBound, NoStatus
<1>7. HashNeverAhead'
  BY <1>1, <1>2, <1>3, <1>4, StatusOwner
     DEF HashNeverAhead, ReadsInv, ReadInv, Bounds, ChildBound, Exists
<1>8. \/ pc'[o] = "idle"
      \/ pc'[o] = "deployment" /\ snap' = snap /\ seen' = seen
  BY DEF ApplyConfigMap, ChildApplied, LostReply, Abort, Finish, Goto, TypeOK
<1>9. ReadsInv(o)' /\ AppliedInv(o)'
  <2>1. CASE pc'[o] = "idle"
    BY <2>1 DEF ReadsInv, AppliedInv, AfterRoutes, AfterEndpoints, AfterConfigMap,
       AfterDeployment, AfterService, ApplyPhases
  <2>2. CASE pc'[o] = "deployment" /\ snap' = snap /\ seen' = seen
    BY <1>1, <1>2, <1>3, <1>4, <2>2, VersionNumbers
       DEF ReadsInv, ReadInv, AppliedInv, Current, AfterRoutes, AfterEndpoints,
           AfterConfigMap, AfterDeployment, AfterService
  <2> QED BY <1>8, <2>1, <2>2
<1> QED BY <1>5, <1>6, <1>7, <1>9, BackedIs DEF Reads, SoleOperator

LEMMA ReadsDeployment ==
    ASSUME TypeOK, Lifecycle, Writes, Reads, NEW o \in Operators, SoleOperator,
           ApplyDeployment(o)
    PROVE  Reads'
<1>1. UNCHANGED <<routes, eps, status, configMap, service>> /\ pc[o] = "deployment"
  BY DEF ApplyDeployment, api
<1>2. /\ deployment'.uid = snap[o].uid /\ deployment'.gen = snap[o].gen
      /\ deployment'.rt = seen[o].rt /\ deployment'.ep = seen[o].ep
  BY DEF ApplyDeployment, Generated
<1>3. ReadsInv(o) /\ AppliedInv(o) /\ VersionsInv /\ Backed /\ HashNeverAhead
  BY BackedIs DEF Reads
<1>4. /\ pc[o] \in AfterRoutes /\ pc[o] \in AfterEndpoints /\ pc[o] \in ApplyPhases
      /\ pc[o] \in AfterConfigMap /\ snap[o].kind = "served"
  BY <1>1 DEF AfterRoutes, AfterEndpoints, AfterConfigMap, ApplyPhases, Writes, CopiesInv
<1>5. VersionsInv'
  BY <1>1, <1>2, <1>3, <1>4 DEF VersionsInv, ReadsInv, ReadInv
<1>6. Backed'
  BY <1>1, <1>2, <1>3, <1>4, StatusOwner, VersionNumbers, WrittenNumbers, Numbers
     DEF Backed, ReadsInv, Bounds, StatusBound, NoStatus
<1>7. HashNeverAhead'
  BY <1>1, <1>2, <1>3, <1>4, VersionNumbers, Numbers
     DEF HashNeverAhead, AppliedInv, Current, Exists
<1>8. \/ pc'[o] = "idle"
      \/ pc'[o] = "service" /\ snap' = snap /\ seen' = seen
  BY DEF ApplyDeployment, ChildApplied, LostReply, Abort, Finish, Goto, TypeOK
<1>9. ReadsInv(o)' /\ AppliedInv(o)'
  <2>1. CASE pc'[o] = "idle"
    BY <2>1 DEF ReadsInv, AppliedInv, AfterRoutes, AfterEndpoints, AfterConfigMap,
       AfterDeployment, AfterService, ApplyPhases
  <2>2. CASE pc'[o] = "service" /\ snap' = snap /\ seen' = seen
    BY <1>1, <1>2, <1>3, <1>4, <2>2, VersionNumbers
       DEF ReadsInv, ReadInv, AppliedInv, Current, AfterRoutes, AfterEndpoints,
           AfterConfigMap, AfterDeployment, AfterService
  <2> QED BY <1>8, <2>1, <2>2
<1> QED BY <1>5, <1>6, <1>7, <1>9, BackedIs DEF Reads, SoleOperator

LEMMA ReadsService ==
    ASSUME TypeOK, Lifecycle, Writes, Reads, NEW o \in Operators, SoleOperator,
           ApplyService(o)
    PROVE  Reads'
<1>1. UNCHANGED <<routes, eps, status, configMap, deployment>> /\ pc[o] = "service"
  BY DEF ApplyService, api
<1>2. service'.uid = snap[o].uid /\ service'.gen = snap[o].gen
  BY DEF ApplyService
<1>3. ReadsInv(o) /\ AppliedInv(o) /\ VersionsInv /\ Backed /\ HashNeverAhead
  BY BackedIs DEF Reads
<1>4. /\ pc[o] \in AfterRoutes /\ pc[o] \in ApplyPhases
      /\ pc[o] \in AfterConfigMap /\ pc[o] \in AfterDeployment
  BY <1>1 DEF AfterRoutes, AfterConfigMap, AfterDeployment, ApplyPhases
<1>5. VersionsInv' /\ HashNeverAhead'
  BY <1>1, <1>3 DEF VersionsInv, HashNeverAhead, Exists
<1>6. Backed'
  BY <1>1, <1>2, <1>3, <1>4, StatusOwner, WrittenNumbers, Numbers
     DEF Backed, Bounds, StatusBound, NoStatus
<1>7. \/ pc'[o] = "idle"
      \/ pc'[o] = "address" /\ snap' = snap /\ seen' = seen
  BY DEF ApplyService, ChildApplied, LostReply, Abort, Finish, Goto, TypeOK
<1>8. ReadsInv(o)' /\ AppliedInv(o)'
  <2>1. CASE pc'[o] = "idle"
    BY <2>1 DEF ReadsInv, AppliedInv, AfterRoutes, AfterEndpoints, AfterConfigMap,
       AfterDeployment, AfterService, ApplyPhases
  <2>2. CASE pc'[o] = "address" /\ snap' = snap /\ seen' = seen
    BY <1>1, <1>2, <1>3, <1>4, <2>2
       DEF ReadsInv, ReadInv, AppliedInv, Current, AfterRoutes, AfterEndpoints,
           AfterConfigMap, AfterDeployment, AfterService
  <2> QED BY <1>7, <2>1, <2>2
<1> QED BY <1>5, <1>6, <1>8, BackedIs DEF Reads, SoleOperator

\* Programmed is said with every child as this reconciliation applied it.
LEMMA ReadsPatchStatus ==
    ASSUME TypeOK, Lifecycle, Writes, Reads, NEW o \in Operators, SoleOperator,
           PatchStatus(o)
    PROVE  Reads'
<1>1. UNCHANGED <<routes, eps, children>> /\ pc[o] = "status" /\ pc'[o] = "idle"
  BY DEF PatchStatus, ApplyStatus, LostReply, Abort, Finish, TypeOK
<1>2. pc'[o] \notin AfterRoutes
  BY <1>1 DEF AfterRoutes, ApplyPhases
<1>3. \/ status' = status
      \/ status'.verdict # "programmed" /\ status'.rt = 0
      \/ /\ snap[o].kind = "served" /\ status'.rt = seen[o].rt
         /\ status'.uid = snap[o].uid /\ status'.gen = snap[o].gen
  BY DEF PatchStatus, StatusOf, ApplyStatus
<1>4. CASE /\ snap[o].kind = "served" /\ status'.rt = seen[o].rt
           /\ status'.uid = snap[o].uid /\ status'.gen = snap[o].gen
  <2>1. ReadsInv(o) /\ AppliedInv(o) /\ VersionsInv /\ HashNeverAhead
    BY DEF Reads
  <2>2. /\ pc[o] \in AfterRoutes /\ pc[o] \in AfterConfigMap
        /\ pc[o] \in AfterDeployment /\ pc[o] \in AfterService
    BY <1>1 DEF AfterRoutes, AfterConfigMap, AfterDeployment, AfterService, ApplyPhases
  <2>3. VersionsInv' /\ HashNeverAhead'
    BY <1>1, <1>4, <2>1, <2>2 DEF VersionsInv, HashNeverAhead, ReadsInv, children, Exists
  <2>4. Backed'
    BY <1>1, <1>4, <2>1, <2>2, VersionNumbers, WrittenNumbers, Numbers
       DEF Backed, AppliedInv, Current, children
  <2>5. ReadsInv(o)' /\ AppliedInv(o)'
    BY <1>1 DEF ReadsInv, AppliedInv, AfterRoutes, AfterEndpoints, AfterConfigMap,
       AfterDeployment, AfterService, ApplyPhases
  <2> QED BY <2>3, <2>4, <2>5, BackedIs DEF Reads, SoleOperator
<1> QED BY <1>1, <1>2, <1>3, <1>4, ReadsEarly

LEMMA ReadsStep ==
    ASSUME TypeOK, Lifecycle, Writes, Reads, SoleOperator, [Next]_vars PROVE Reads'
<1> TypeOK'
  BY TypeStep
<1>1. ASSUME NEW o \in Operators,
             \/ Start(o) \/ AddFinalizer(o) \/ RemoveFinalizer(o) \/ CheckClass(o)
             \/ Reject(o) \/ Fail(o) \/ Crash(o)
      PROVE  Reads'
  <2>1. pc'[o] \in {"idle", "class", "remove", "add", "reject", "routes"}
    BY <1>1 DEF Start, AddFinalizer, RemoveFinalizer, CheckClass, Reject, ApplyStatus,
       Fail, Crash, Goto, LostReply, AwaitChange, Abort, Finish, TypeOK
  <2>2. UNCHANGED <<routes, eps, children>>
    BY <1>1 DEF Start, AddFinalizer, RemoveFinalizer, CheckClass, Reject, Fail, Crash, api
  <2>3. \/ status' = status
        \/ status'.verdict # "programmed" /\ status'.rt = 0
    <3>1. CASE Reject(o)
      BY <3>1 DEF Reject, ApplyStatus, NoStatus
    <3>2. CASE RemoveFinalizer(o)
      BY <3>2 DEF RemoveFinalizer, NoStatus
    <3> QED BY <1>1, <3>1, <3>2 DEF Start, AddFinalizer, CheckClass, Fail, Crash, api
  <2> QED BY <2>1, <2>2, <2>3, ReadsEarly DEF AfterRoutes, ApplyPhases
<1>2. ASSUME NEW o \in Operators,
             \/ ListRoutes(o) \/ FetchNamespaces(o) \/ ResolveEndpoints(o)
             \/ ApplyConfigMap(o) \/ ApplyDeployment(o) \/ ApplyService(o)
             \/ ReadAddress(o) \/ PatchStatus(o)
      PROVE  Reads'
  BY <1>2, ReadsRead, ReadsConfigMap, ReadsDeployment, ReadsService, ReadsPatchStatus
<1>3. CASE Environment \/ (\E o \in Operators : Watch(o)) \/ UNCHANGED vars
  <2>1. UNCHANGED <<pc, snap, seen>>
    BY <1>3 DEF Environment, Watch, CreateGateway, EditSpec, DeleteGateway, EditRoutes,
       EditEndpoints, MoveClass, AssignLB, CollectGarbage, DeleteChild, Remove, vars,
       process
  <2>2. routes <= routes' /\ eps <= eps'
    <3>1. /\ routes' = routes \/ routes' = routes + 1
          /\ eps' = eps \/ eps' = eps + 1
      BY <1>3 DEF Environment, Watch, CreateGateway, EditSpec, DeleteGateway, EditRoutes,
         EditEndpoints, MoveClass, AssignLB, CollectGarbage, DeleteChild, Remove, vars, api
    <3> QED BY <3>1, VersionNumbers
  <2>3. status' \in {status, NoStatus}
    BY <1>3 DEF Environment, Watch, CreateGateway, EditSpec, DeleteGateway, EditRoutes,
       EditEndpoints, MoveClass, AssignLB, CollectGarbage, DeleteChild, Remove, vars, api
  <2>4. configMap' \in {configMap, NoConfig} /\ deployment' \in {deployment, NoConfig}
    BY <1>3 DEF Environment, Watch, CreateGateway, EditSpec, DeleteGateway, EditRoutes,
       EditEndpoints, MoveClass, AssignLB, CollectGarbage, DeleteChild, Remove, vars,
       children
  <2>5. \/ service' = NoService
        \/ service'.uid = service.uid /\ service'.gen = service.gen
    BY <1>3 DEF Environment, Watch, CreateGateway, EditSpec, DeleteGateway, EditRoutes,
       EditEndpoints, MoveClass, AssignLB, CollectGarbage, DeleteChild, Remove, vars,
       children, TypeOK, Service
  <2> QED BY <2>1, <2>2, <2>3, <2>4, <2>5, ReadsOthers
<1> QED BY <1>1, <1>2, <1>3 DEF Next, Operator

--------------------------------------------------------------------------------
(* The invariant and the safety properties.                                *)

LEMMA SafetyInit == Init => TypeOK /\ Lifecycle /\ Writes /\ Reads
  BY TypeInit, LifecycleInit, WritesInit, ReadsInit

LEMMA SafetyStep ==
    SoleOperator =>
        (TypeOK /\ Lifecycle /\ Writes /\ Reads /\ [Next]_vars
            => (TypeOK /\ Lifecycle /\ Writes /\ Reads)')
  BY TypeStep, LifecycleStep, WritesStep, ReadsStep

\* StatusIsBacked: with one process, a Gateway that reports Programmed never
\* runs less than it reports, however reconciliations fail half-way.
THEOREM BackedStatus == SoleOperator => (Spec => []StatusIsBacked)
<1> SUFFICES ASSUME SoleOperator PROVE Spec => []StatusIsBacked
  OBVIOUS
<1>1. Reads => StatusIsBacked
  BY DEF Reads
<1> QED BY <1>1, SafetyInit, SafetyStep, PTL DEF Spec

\* HashNeverAhead: with one process, the Deployment is never rolled to a
\* configuration the ConfigMap does not hold yet.
THEOREM HashFollows == SoleOperator => (Spec => []HashNeverAhead)
<1> SUFFICES ASSUME SoleOperator PROVE Spec => []HashNeverAhead
  OBVIOUS
<1>1. Reads => HashNeverAhead
  BY DEF Reads
<1> QED BY <1>1, SafetyInit, SafetyStep, PTL DEF Spec

--------------------------------------------------------------------------------
(* Wake-ups.                                                               *)

Awake(o) ==
    queue[o] = "idle" /\ cache[o] = gw /\ Exists(gw) =>
        IF pc[o] = "idle"
        THEN gc = "foreign" \/ (status.verdict = "rejected" /\ status.gen = gw.gen)
        ELSE snap[o] = gw

LEMMA AwakeIs ==
    /\ (Wakes /\ NeverForgotten) <=> \A o \in Operators : Awake(o)
    /\ ((Wakes /\ NeverForgotten) <=> \A o \in Operators : Awake(o))'
<1>1. (Wakes /\ NeverForgotten) <=> \A o \in Operators : Awake(o)
  BY DEF Wakes, NeverForgotten, Awake
<1>2. ((Wakes /\ NeverForgotten) <=> \A o \in Operators : Awake(o))'
  BY DEF Wakes, NeverForgotten, Awake
<1> QED BY <1>1, <1>2

LEMMA AwakeInit == Init => \A o \in Operators : Awake(o)
  BY DEF Init, Awake, Absent, Exists

\* A reconciliation that ends in an error or asks for the next is scheduled.
LEMMA FinishScheduled ==
    ASSUME TypeOK, NEW o \in Operators, NEW q \in [Operators -> Schedules], NEW again,
           Finish(o, q, again), again # "idle" \/ q[o] = "now"
    PROVE  queue'[o] # "idle"
  BY DEF Finish, Sooner

LEMMA AwakeOperator ==
    ASSUME TypeOK, Lifecycle, SoleOperator, NEW o \in Operators, Awake(o),
           Watch(o) \/ Operator(o) \/ Fail(o) \/ Crash(o)
    PROVE  Awake(o)'
<1> USE DEF Awake
<1>1. /\ queue \in [Operators -> Schedules] /\ Everyone \in [Operators -> Schedules]
      /\ Everyone[o] = "now" /\ pc \in [Operators -> Phases]
  BY DEF TypeOK, Everyone, Schedules
<1>2. CASE Watch(o)
  BY <1>1, <1>2 DEF Watch, TypeOK, api
<1>3. CASE Start(o)
  <2>1. GatewayInv /\ UNCHANGED <<gw, cache>>
    BY <1>3 DEF Lifecycle, Start, api
  <2>2. \/ pc'[o] # "idle" /\ snap'[o] = cache[o]
        \/ pc'[o] = "idle" /\ (~Exists(cache[o]) \/ (~cache[o].fin /\ cache[o].deleting))
    BY <1>3 DEF Start, TypeOK
  <2> QED BY <2>1, <2>2 DEF GatewayInv, Exists
<1>4. ASSUME NEW q, NEW err, Abort(o, q, err), q \in [Operators -> Schedules]
      PROVE  queue'[o] # "idle"
  BY <1>4, FinishScheduled DEF Abort, ErrorPolicy, Wrapped
<1>5. CASE AddFinalizer(o)
  <2>1. CASE AwaitChange(o, queue) /\ gw' = [gw EXCEPT !.fin = TRUE] /\ ~gw.fin
    <3>1. gw'.fin
      BY <2>1 DEF TypeOK, Object
    <3>2. cache'[o] = cache[o] /\ ~cache[o].fin
      BY <1>5, <2>1 DEF AddFinalizer, Lifecycle, SnapInv
    <3> QED BY <3>1, <3>2
  <2> QED BY <1>1, <1>4, <1>5, <2>1 DEF AddFinalizer, LostReply
<1>6. CASE RemoveFinalizer(o)
  <2>1. CASE Exists(gw) /\ gw.fin
    <3>1. gw.deleting
      BY <1>6, <2>1 DEF RemoveFinalizer, Lifecycle, SnapInv, Older
    <3> QED BY <1>6, <2>1, <3>1 DEF RemoveFinalizer, Absent, Exists
  <2> QED BY <1>1, <1>4, <1>6, <2>1 DEF RemoveFinalizer
<1>7. CASE CheckClass(o)
  <2>1. UNCHANGED <<gw, gc, status, cache>> /\ pc[o] # "idle"
    BY <1>7 DEF CheckClass, api
  <2>2. CASE queue' = queue /\ snap' = snap /\ pc'[o] # "idle"
    BY <2>1, <2>2
  <2>3. CASE gc = "foreign" /\ AwaitChange(o, queue)
    BY <2>1, <2>3 DEF AwaitChange, Finish, TypeOK
  <2>4. CASE \E err : Abort(o, queue, err)
    BY <1>1, <1>4, <2>4
  <2> QED BY <1>1, <1>7, <2>2, <2>3, <2>4 DEF CheckClass, Goto
<1>8. CASE Reject(o)
  <2>1. UNCHANGED <<gw, gc, cache>> /\ pc[o] # "idle"
    BY <1>8 DEF Reject
  <2>2. CASE queue'[o] # "idle"
    BY <2>2
  <2>3. CASE /\ status' = status /\ status.gen = snap[o].gen
             /\ status.verdict = "rejected" /\ Finish(o, queue, "idle")
    <3>1. queue'[o] = "idle" => queue[o] = "idle"
      BY <1>1, <2>3 DEF Finish, Sooner
    <3>2. pc'[o] = "idle"
      BY <1>1, <2>3 DEF Finish
    <3> QED BY <2>1, <2>3, <3>1, <3>2
  <2>4. ASSUME NEW again, Finish(o, Everyone, again) PROVE queue'[o] # "idle"
    BY <1>1, <2>4, FinishScheduled
  <2>5. CASE ~Exists(gw)
    <3>1. Abort(o, queue, "Kube")
      BY <1>8, <2>5 DEF Reject, ApplyStatus
    <3> QED BY <1>1, <1>4, <2>2, <3>1
  <2>6. CASE Exists(gw)
    <3> DEFINE new == [NoStatus EXCEPT !.uid = snap[o].uid, !.gen = snap[o].gen,
                                       !.verdict = "rejected"]
    <3>1. new.gen = snap[o].gen /\ new.verdict = "rejected"
      BY DEF NoStatus
    <3>2. /\ status' = new
          /\ \E q \in IF new = status THEN {queue, Everyone} ELSE {Everyone} :
               Finish(o, q, "idle") \/ LostReply(o, q)
      BY <1>8, <2>6 DEF Reject, ApplyStatus
    <3> HIDE DEF new
    <3>3. PICK q \in {queue, Everyone} :
            /\ Finish(o, q, "idle") \/ LostReply(o, q)
            /\ q = Everyone \/ (q = queue /\ new = status)
      BY <3>2
    <3>4. CASE LostReply(o, q)
      BY <1>1, <1>4, <2>2, <3>3, <3>4 DEF LostReply
    <3>5. CASE Finish(o, q, "idle") /\ q = Everyone
      BY <2>2, <2>4, <3>5
    <3>6. CASE Finish(o, q, "idle") /\ q = queue /\ new = status
      BY <2>3, <3>1, <3>2, <3>6
    <3> QED BY <3>3, <3>4, <3>5, <3>6
  <2> QED BY <2>5, <2>6
<1>9. CASE ListRoutes(o) \/ FetchNamespaces(o) \/ ResolveEndpoints(o) \/ ReadAddress(o)
  <2>1. UNCHANGED <<gw, cache, snap, queue>> /\ pc[o] # "idle" /\ pc'[o] # "idle"
    BY <1>1, <1>9 DEF ListRoutes, FetchNamespaces, ResolveEndpoints, ReadAddress, Goto, api
  <2> QED BY <2>1
<1>10. CASE ApplyConfigMap(o) \/ ApplyDeployment(o) \/ ApplyService(o)
  <2>1. UNCHANGED <<gw, cache>> /\ pc[o] # "idle"
    BY <1>10 DEF ApplyConfigMap, ApplyDeployment, ApplyService, api
  <2>2. PICK changed \in BOOLEAN, next \in ApplyPhases : ChildApplied(o, changed, next)
    BY <1>10 DEF ApplyConfigMap, ApplyDeployment, ApplyService, ApplyPhases
  <2>3. PICK q \in {queue, Everyone} :
           \/ Goto(o, next) /\ queue' = q
           \/ Abort(o, q, "Kube")
    BY <2>2 DEF ChildApplied, LostReply
  <2> QED BY <1>1, <1>4, <2>1, <2>3 DEF Goto, ApplyPhases
<1>11. CASE PatchStatus(o)
  <2>1. PICK q \in {queue, Everyone}, again \in {"in15", "in30"} : Finish(o, q, again)
    BY <1>11 DEF PatchStatus, ApplyStatus, LostReply, Abort, ErrorPolicy, Wrapped
  <2> QED BY <1>1, <2>1, FinishScheduled
<1>12. CASE Fail(o)
  BY <1>1, <1>4, <1>12 DEF Fail
<1>13. CASE Crash(o)
  <2>1. cache'[o] = Absent /\ gw' = gw
    BY <1>13 DEF Crash, TypeOK, api
  <2> QED BY <2>1 DEF Absent, Exists
<1> QED BY <1>2, <1>3, <1>5, <1>6, <1>7, <1>8, <1>9, <1>10, <1>11, <1>12, <1>13
           DEF Operator

\* Every change of the Gateway makes the store older than it.
LEMMA ChangesUnseen ==
    ASSUME TypeOK, Lifecycle, NEW o \in Operators,
           CreateGateway \/ EditSpec \/ DeleteGateway
    PROVE  cache'[o] # gw' \/ ~Exists(gw')
<1>1. CacheInv(o) /\ gw \in Object /\ births \in Nat /\ UNCHANGED process
  BY DEF Lifecycle, TypeOK, CreateGateway, EditSpec, DeleteGateway
<1>2. CASE CreateGateway
  <2>1. gw'.uid = births + 1
    BY <1>2 DEF CreateGateway, Absent
  <2>2. cache[o].uid \in Nat /\ cache[o].uid <= births /\ births \in Nat
    BY DEF Lifecycle, CacheInv, TypeOK, Object
  <2>3. cache'[o] # gw'
    BY <1>1, <2>1, <2>2 DEF process
  <2> QED BY <2>3
<1>3. CASE EditSpec
  <2>1. gw'.uid = gw.uid /\ gw'.gen = gw.gen + 1
    BY <1>1, <1>3 DEF EditSpec, Object
  <2> QED BY <1>1, <2>1, Numbers DEF CacheInv, Older, process
<1>4. CASE DeleteGateway
  <2>1. CASE gw' = Absent
    BY <2>1 DEF Absent, Exists
  <2>2. CASE gw' = [gw EXCEPT !.deleting = TRUE]
    <3>1. gw'.uid = gw.uid /\ gw'.deleting /\ ~gw.deleting
      BY <1>1, <1>4, <2>2 DEF Object, DeleteGateway
    <3> QED BY <1>1, <3>1 DEF CacheInv, Older, process
  <2> QED BY <1>4, <2>1, <2>2 DEF DeleteGateway
<1> QED BY <1>2, <1>3, <1>4

LEMMA AwakeUsers ==
    ASSUME TypeOK, Lifecycle, NEW o \in Operators, Awake(o),
           CreateGateway \/ EditSpec \/ DeleteGateway
    PROVE  Awake(o)'
  BY ChangesUnseen DEF Awake

LEMMA AwakeOthers ==
    ASSUME ClassesStayAway, NEW o \in Operators, Awake(o),
           \/ EditRoutes \/ EditEndpoints \/ MoveClass \/ AssignLB \/ CollectGarbage
           \/ DeleteChild \/ UNCHANGED vars
    PROVE  Awake(o)'
<1>1. UNCHANGED <<gw, status, cache, pc, snap>> /\ queue' \in {queue, Everyone}
  BY DEF EditRoutes, EditEndpoints, MoveClass, AssignLB, CollectGarbage, DeleteChild,
     Remove, vars, api, process
<1>2. gc = "foreign" => gc' = "foreign"
  BY DEF ClassesStayAway, EditRoutes, EditEndpoints, MoveClass, AssignLB,
     CollectGarbage, DeleteChild, Remove, vars, api
<1> QED BY <1>1, <1>2 DEF Awake, Everyone

LEMMA AwakeStep ==
    ASSUME TypeOK, Lifecycle, SoleOperator, ClassesStayAway,
           \A o \in Operators : Awake(o), [Next]_vars
    PROVE  (\A o \in Operators : Awake(o))'
<1>1. ASSUME NEW o \in Operators, Watch(o) \/ Operator(o) \/ Fail(o) \/ Crash(o)
      PROVE  (\A r \in Operators : Awake(r))'
  <2>1. Awake(o)'
    BY <1>1, AwakeOperator
  <2> QED BY <2>1 DEF SoleOperator
<1>2. CASE Environment \/ UNCHANGED vars
  BY <1>2, AwakeUsers, AwakeOthers DEF Environment
<1> QED BY <1>1, <1>2 DEF Next

\* NeverForgotten: one process never loses a wake-up, whatever is lost, as
\* long as no GatewayClass comes back from another controller.
THEOREM NoWakeupLost ==
    SoleOperator /\ ClassesStayAway => (Spec => []NeverForgotten)
<1> SUFFICES ASSUME SoleOperator, ClassesStayAway PROVE Spec => []NeverForgotten
  OBVIOUS
<1> DEFINE AllAwake == \A o \in Operators : Awake(o)
<1>1. Init => TypeOK /\ Lifecycle /\ AllAwake
  BY TypeInit, LifecycleInit, AwakeInit
<1>2. TypeOK /\ Lifecycle /\ AllAwake /\ [Next]_vars => (TypeOK /\ Lifecycle /\ AllAwake)'
  BY TypeStep, LifecycleStep, AwakeStep
<1>3. AllAwake => NeverForgotten
  BY AwakeIs
<1> QED BY <1>1, <1>2, <1>3, PTL DEF Spec

--------------------------------------------------------------------------------
(* The inductive invariant as a whole.                                     *)

Waking(o) ==
    pc[o] # "idle" /\ queue[o] = "idle" /\ cache[o] = gw /\ Exists(gw) => snap[o] = gw

\* A process works on the copy it started from until it is done.
LEMMA WakingOperator ==
    ASSUME TypeOK, NEW o \in Operators, Waking(o),
           Watch(o) \/ Operator(o) \/ Fail(o) \/ Crash(o)
    PROVE  Waking(o)'
<1> USE DEF Waking
<1>1. /\ queue \in [Operators -> Schedules] /\ pc \in [Operators -> Phases]
      /\ snap \in [Operators -> Object]
  BY DEF TypeOK
<1>2. CASE Watch(o)
  BY <1>1, <1>2 DEF Watch, TypeOK, api
<1>3. CASE Start(o)
  <2>1. UNCHANGED <<gw, cache>> /\ (pc'[o] # "idle" => snap'[o] = cache[o])
    BY <1>1, <1>3 DEF Start, TypeOK, api
  <2> QED BY <2>1
<1>4. ASSUME NEW q, NEW again, Finish(o, q, again) PROVE pc'[o] = "idle"
  BY <1>1, <1>4 DEF Finish
<1>5. CASE pc'[o] = "idle"
  BY <1>5
<1>6. CASE AddFinalizer(o) \/ RemoveFinalizer(o) \/ Reject(o) \/ PatchStatus(o) \/ Fail(o) \/ Crash(o)
  <2>1. pc'[o] = "idle"
    BY <1>1, <1>4, <1>6 DEF AddFinalizer, RemoveFinalizer, Reject, PatchStatus, ApplyStatus,
       Fail, Crash, LostReply, AwaitChange, Abort
  <2> QED BY <1>5, <2>1
<1>7. CASE CheckClass(o) \/ ListRoutes(o) \/ FetchNamespaces(o) \/ ResolveEndpoints(o) \/ ReadAddress(o)
  <2>1. UNCHANGED <<gw, cache>> /\ pc[o] # "idle"
    BY <1>7 DEF CheckClass, ListRoutes, FetchNamespaces, ResolveEndpoints, ReadAddress, api
  <2>2. pc'[o] = "idle" \/ UNCHANGED <<snap, queue>>
    BY <1>4, <1>7 DEF CheckClass, ListRoutes, FetchNamespaces, ResolveEndpoints, ReadAddress,
       Goto, AwaitChange, Abort
  <2> QED BY <1>5, <2>1, <2>2
<1>8. CASE ApplyConfigMap(o) \/ ApplyDeployment(o) \/ ApplyService(o)
  <2>1. UNCHANGED <<gw, cache>> /\ pc[o] # "idle"
    BY <1>8 DEF ApplyConfigMap, ApplyDeployment, ApplyService, api
  <2>2. PICK changed \in BOOLEAN, next \in ApplyPhases : ChildApplied(o, changed, next)
    BY <1>8 DEF ApplyConfigMap, ApplyDeployment, ApplyService, ApplyPhases
  <2>3. PICK q \in {queue, Everyone} :
           \/ Goto(o, next) /\ queue' = q
           \/ Abort(o, q, "Kube")
    BY <2>2 DEF ChildApplied, LostReply
  <2>4. queue'[o] = "idle" /\ pc'[o] # "idle" => UNCHANGED snap /\ queue[o] = "idle"
    BY <1>1, <1>4, <2>3 DEF Goto, Abort, Everyone
  <2> QED BY <2>1, <2>4
<1> QED BY <1>2, <1>3, <1>6, <1>7, <1>8 DEF Operator

LEMMA WakesStep ==
    ASSUME TypeOK, Lifecycle, SoleOperator, Wakes, [Next]_vars PROVE Wakes'
<1> SUFFICES ASSUME NEW r \in Operators PROVE Waking(r)'
  BY DEF Wakes, Waking
<1>1. Waking(r)
  BY DEF Wakes, Waking
<1>2. ASSUME NEW o \in Operators, Watch(o) \/ Operator(o) \/ Fail(o) \/ Crash(o)
      PROVE  Waking(r)'
  BY <1>1, <1>2, WakingOperator DEF SoleOperator
<1>3. CASE CreateGateway \/ EditSpec \/ DeleteGateway
  BY <1>3, ChangesUnseen DEF Waking
<1>4. CASE \/ EditRoutes \/ EditEndpoints \/ MoveClass \/ AssignLB \/ CollectGarbage
           \/ DeleteChild \/ UNCHANGED vars
  <2>1. UNCHANGED <<gw, cache, pc, snap>> /\ queue' \in {queue, Everyone}
    BY <1>4 DEF EditRoutes, EditEndpoints, MoveClass, AssignLB, CollectGarbage, DeleteChild,
       Remove, vars, api, process
  <2> QED BY <1>1, <2>1 DEF Waking, Everyone
<1> QED BY <1>2, <1>3, <1>4 DEF Next, Environment

\* Inductive: the four layers hold of one process in every state, so each of
\* its copies of the Gateway, its reads and its writes is where the others
\* allow it to be.
THEOREM InductiveHolds == SoleOperator => (Spec => []Inductive)
<1> SUFFICES ASSUME SoleOperator PROVE Spec => []Inductive
  OBVIOUS
<1>1. Init => Wakes
  BY DEF Init, Wakes
<1>2. TypeOK /\ Inductive /\ [Next]_vars => (TypeOK /\ Inductive)'
  BY SafetyStep, WakesStep DEF Inductive
<1> QED BY <1>1, <1>2, SafetyInit, PTL DEF Spec, Inductive

--------------------------------------------------------------------------------
(* Refinement: every step is a step of GatewayContract or invisible there.  *)

Part(child) == [uid |-> child.uid, gen |-> child.gen]

\* Applied, part by part.
LEMMA AppliedIs ==
    /\ Applied = [name \in ChildNames |-> Applied[name]]
    /\ Applied["configMap"] = Part(configMap)
    /\ Applied["deployment"] = Part(deployment)
    /\ Applied["service"] = Part(service)
    /\ Applied' = [name \in ChildNames |-> Applied'[name]]
    /\ Applied'["configMap"] = Part(configMap')
    /\ Applied'["deployment"] = Part(deployment')
    /\ Applied'["service"] = Part(service')
<1>1. /\ Child("configMap") = configMap /\ Child("deployment") = deployment
      /\ Child("service") = service
  BY DEF Child
<1>2. /\ Child("configMap")' = configMap' /\ Child("deployment")' = deployment'
      /\ Child("service")' = service'
  BY DEF Child
<1> QED BY <1>1, <1>2 DEF Applied, ChildNames, Part

LEMMA AppliedSame ==
    ASSUME Part(configMap') = Part(configMap), Part(deployment') = Part(deployment),
           Part(service') = Part(service)
    PROVE  Applied' = Applied
<1>1. \A name \in ChildNames : Applied'[name] = Applied[name]
  BY AppliedIs DEF ChildNames
<1> QED BY <1>1, AppliedIs

LEMMA AppliedKept == ASSUME UNCHANGED children PROVE Applied' = Applied
  BY AppliedSame DEF children

LEMMA ContractInit == Init => Contract!Init
  BY AppliedIs DEF Init, Contract!Init, Contract!Unapplied, Contract!Unacknowledged,
     Acknowledged, Part, ChildNames, Absent, NoConfig, NoService, NoStatus

\* What the contract does not see.
LEMMA Invisible ==
    ASSUME births' = births, gw'.uid = gw.uid, gw'.gen = gw.gen,
           Acknowledged' = Acknowledged, Applied' = Applied
    PROVE  UNCHANGED Contract!vars
  BY DEF Contract!vars

\* A change of one child that the contract sees as a change of one part.
LEMMA OnePart ==
    ASSUME \/ UNCHANGED <<deployment, service>>
           \/ UNCHANGED <<configMap, service>>
           \/ UNCHANGED <<configMap, deployment>>
    PROVE  \E name \in ChildNames :
              /\ Applied' = [Applied EXCEPT ![name] = Applied'[name]]
              /\ name = "configMap" => UNCHANGED <<deployment, service>>
              /\ name = "deployment" => UNCHANGED <<configMap, service>>
              /\ name = "service" => UNCHANGED <<configMap, deployment>>
  BY AppliedIs DEF ChildNames, Part

\* A child applied by a reconciliation is applied as the contract allows.
LEMMA AppliesPart ==
    ASSUME TypeOK, Lifecycle, Writes, NEW o \in Operators, pc[o] \in ApplyPhases,
           ApplyConfigMap(o) \/ ApplyDeployment(o) \/ ApplyService(o)
    PROVE  \E name \in ChildNames : Contract!Apply(name)
<1>1. /\ gw.uid = snap[o].uid /\ gw.uid > 0 /\ snap[o].gen <= gw.gen
      /\ Bounds(snap[o])
  BY Numbers DEF Lifecycle, SnapInv, Held, Older, Writes, CopiesInv, ApplyPhases
<1>2. UNCHANGED <<births, gw, status>>
  BY DEF ApplyConfigMap, ApplyDeployment, ApplyService, api
<1>3. Acknowledged' = Acknowledged
  BY <1>2 DEF Acknowledged
<1>4. CASE ApplyConfigMap(o)
  <2>1. UNCHANGED <<deployment, service>> /\ configMap' = Generated(o)
    BY <1>4 DEF ApplyConfigMap
  <2>2. Applied' = [Applied EXCEPT !["configMap"] = Applied'["configMap"]]
    BY <2>1, AppliedIs DEF ChildNames
  <2>3. Applied["configMap"] = Part(configMap) /\ Applied'["configMap"] = Part(configMap')
    BY AppliedIs DEF ChildNames
  <2>4. Contract!Apply("configMap")
    BY <1>1, <1>2, <1>3, <2>1, <2>2, <2>3
       DEF Contract!Apply, Part, Generated, Bounds, ChildBound
  <2> QED BY <2>4 DEF ChildNames
<1>5. CASE ApplyDeployment(o)
  <2>1. UNCHANGED <<configMap, service>> /\ deployment' = Generated(o)
    BY <1>5 DEF ApplyDeployment
  <2>2. Applied' = [Applied EXCEPT !["deployment"] = Applied'["deployment"]]
    BY <2>1, AppliedIs DEF ChildNames
  <2>3. Applied["deployment"] = Part(deployment)
        /\ Applied'["deployment"] = Part(deployment')
    BY AppliedIs DEF ChildNames
  <2>4. Contract!Apply("deployment")
    BY <1>1, <1>2, <1>3, <2>1, <2>2, <2>3
       DEF Contract!Apply, Part, Generated, Bounds, ChildBound
  <2> QED BY <2>4 DEF ChildNames
<1>6. CASE ApplyService(o)
  <2>1. /\ UNCHANGED <<configMap, deployment>>
        /\ service' = [uid |-> snap[o].uid, gen |-> snap[o].gen, lb |-> service.lb]
    BY <1>6 DEF ApplyService
  <2>2. Applied' = [Applied EXCEPT !["service"] = Applied'["service"]]
    BY <2>1, AppliedIs DEF ChildNames
  <2>3. Applied["service"] = Part(service) /\ Applied'["service"] = Part(service')
    BY AppliedIs DEF ChildNames
  <2>4. Contract!Apply("service")
    BY <1>1, <1>2, <1>3, <2>1, <2>2, <2>3
       DEF Contract!Apply, Part, Bounds, ChildBound
  <2> QED BY <2>4 DEF ChildNames
<1> QED BY <1>4, <1>5, <1>6

\* A status, rejecting or not, is an acknowledgement, or was refused.
LEMMA Acknowledges ==
    ASSUME TypeOK, Lifecycle, Writes, Reads, StatusIsBacked', NEW o \in Operators,
           Reject(o) \/ PatchStatus(o)
    PROVE  Contract!Acknowledge \/ UNCHANGED Contract!vars
<1>1. /\ gw.uid = snap[o].uid /\ gw.uid > 0 /\ snap[o].gen <= gw.gen
      /\ snap[o].gen > 0 /\ StatusBound(snap[o])
      /\ snap[o].kind # "params" \/ pc[o] = "reject"
      /\ pc[o] = "reject" => snap[o].kind = "params"
  BY Numbers DEF Reject, PatchStatus, Lifecycle, SnapInv, Held, Older, Writes, CopiesInv,
     Bounds, ApplyPhases
<1>2. UNCHANGED <<births, gw, children>>
  BY DEF Reject, PatchStatus
<1>3. Applied' = Applied
  BY <1>2, AppliedKept
<1>4. \/ status' = status
      \/ /\ status'.uid = snap[o].uid /\ status'.gen = snap[o].gen
         /\ status'.verdict = VerdictOn(snap[o].kind)
  <2>1. snap[o].kind \in Kinds
    BY DEF TypeOK, Object
  <2>2. CASE Reject(o)
    <3>1. VerdictOn(snap[o].kind) = "rejected"
      BY <1>1, <2>2 DEF Reject, VerdictOn
    <3> QED BY <2>2, <3>1 DEF Reject, ApplyStatus, NoStatus
  <2>3. CASE PatchStatus(o)
    <3>1. VerdictOn(snap[o].kind) =
             IF snap[o].kind = "served" THEN "programmed" ELSE "invalid"
      BY <1>1, <2>1, <2>3 DEF PatchStatus, VerdictOn, Kinds
    <3> QED BY <2>3, <3>1 DEF PatchStatus, StatusOf, ApplyStatus
  <2> QED BY <2>2, <2>3
<1>5. CASE status' = status
  BY <1>2, <1>3, <1>5, Invisible DEF Acknowledged
<1>6. CASE /\ status'.uid = snap[o].uid /\ status'.gen = snap[o].gen
           /\ status'.verdict = VerdictOn(snap[o].kind)
  <2>1. status.gen \in Nat /\ snap[o].gen \in Nat
    BY DEF TypeOK, Status, Object
  <2>2. status.gen <= snap[o].gen
        /\ (status.gen = snap[o].gen => status.verdict = VerdictOn(snap[o].kind))
    BY <1>1, <2>1 DEF Writes, ObjectsInv, StatusBound, NoStatus
  <2>3. ASSUME status'.verdict = "programmed", NEW name \in ChildNames
        PROVE  \/ Applied[name] = Contract!Unapplied
               \/ Applied[name].uid = gw.uid /\ Applied[name].gen >= status'.gen
    <3>1. Backed'
      BY BackedIs
    <3>2. /\ configMap.uid > 0 => configMap.uid = gw.uid /\ configMap.gen >= status'.gen
          /\ deployment.uid > 0 => deployment.uid = gw.uid /\ deployment.gen >= status'.gen
          /\ service.uid > 0 => service.uid = gw.uid /\ service.gen >= status'.gen
      BY <1>1, <1>2, <1>6, <2>3, <3>1 DEF Backed, children
    <3>3. /\ configMap.uid = 0 => Part(configMap) = Contract!Unapplied
          /\ deployment.uid = 0 => Part(deployment) = Contract!Unapplied
          /\ service.uid = 0 => Part(service) = Contract!Unapplied
      BY DEF Writes, ObjectsInv, Part, NoConfig, NoService, Contract!Unapplied
    <3>4. configMap.uid \in Nat /\ deployment.uid \in Nat /\ service.uid \in Nat
      BY DEF TypeOK, Config, Service
    <3> QED BY <3>2, <3>3, <3>4, AppliedIs DEF ChildNames, Part
  <2> QED BY <1>1, <1>2, <1>3, <1>6, <2>2, <2>3 DEF Contract!Acknowledge, Acknowledged
<1> QED BY <1>4, <1>5, <1>6

\* A child that is collected or deleted is a part that is dropped.
LEMMA DropsPart ==
    ASSUME NEW keep, Remove(keep) PROVE \E name \in ChildNames : Contract!Drop(name)
<1>1. PICK name \in ChildNames :
         /\ Applied' = [Applied EXCEPT ![name] = Applied'[name]]
         /\ name = "configMap" => configMap' = NoConfig
         /\ name = "deployment" => deployment' = NoConfig
         /\ name = "service" => service' = NoService
  BY AppliedIs DEF Remove, ChildNames, Part
<1>2. Applied'[name] = Contract!Unapplied
  BY <1>1, AppliedIs DEF ChildNames, Part, NoConfig, NoService, Contract!Unapplied
<1>3. UNCHANGED <<births, gw, status>>
  BY DEF Remove, api
<1> QED BY <1>1, <1>2, <1>3 DEF Contract!Drop, Acknowledged

LEMMA ContractStep ==
    ASSUME TypeOK, Lifecycle, Writes, Reads, Reads', [Next]_vars
    PROVE  [Contract!Next]_(Contract!vars)
<1>1. ASSUME UNCHANGED <<births, children, status>>, gw'.uid = gw.uid, gw'.gen = gw.gen
      PROVE  UNCHANGED Contract!vars
  BY <1>1, AppliedKept, Invisible DEF Acknowledged
<1>2. gw \in Object
  BY DEF TypeOK
<1>3. ASSUME NEW o \in Operators, Watch(o) \/ Operator(o) \/ Fail(o) \/ Crash(o)
      PROVE  [Contract!Next]_(Contract!vars)
  <2>1. CASE AddFinalizer(o)
    <3>1. gw'.uid = gw.uid /\ gw'.gen = gw.gen
      BY <1>2, <2>1 DEF AddFinalizer, Object
    <3> QED BY <1>1, <2>1, <3>1 DEF AddFinalizer
  <2>2. CASE RemoveFinalizer(o)
    <3>1. CASE gw' = Absent /\ status' = NoStatus
      BY <2>2, <3>1, AppliedKept
         DEF RemoveFinalizer, Contract!Next, Contract!Vanish,
             Contract!Unacknowledged, Acknowledged, Absent, NoStatus
    <3>2. CASE gw' \in {gw, [gw EXCEPT !.fin = FALSE]} /\ status' = status
      <4>1. gw'.uid = gw.uid /\ gw'.gen = gw.gen
        BY <1>2, <3>2 DEF Object
      <4> QED BY <1>1, <2>2, <3>2, <4>1 DEF RemoveFinalizer
    <3> QED BY <2>2, <3>1, <3>2 DEF RemoveFinalizer
  <2>3. CASE ApplyConfigMap(o) \/ ApplyDeployment(o) \/ ApplyService(o)
    <3>1. pc[o] \in ApplyPhases
      BY <2>3 DEF ApplyConfigMap, ApplyDeployment, ApplyService, ApplyPhases
    <3> QED BY <2>3, <3>1, AppliesPart DEF Contract!Next
  <2>4. CASE Reject(o) \/ PatchStatus(o)
    BY <2>4, Acknowledges DEF Reads, Contract!Next
  <2>5. CASE \/ Watch(o) \/ Start(o) \/ CheckClass(o) \/ ListRoutes(o)
             \/ FetchNamespaces(o) \/ ResolveEndpoints(o) \/ ReadAddress(o)
             \/ Fail(o) \/ Crash(o)
    <3>1. UNCHANGED <<births, gw, children, status>>
      BY <2>5 DEF Watch, Start, CheckClass, ListRoutes, FetchNamespaces,
         ResolveEndpoints, ReadAddress, Fail, Crash, api
    <3> QED BY <1>1, <3>1
  <2> QED BY <1>3, <2>1, <2>2, <2>3, <2>4, <2>5 DEF Operator
<1>4. CASE CreateGateway
  <2>1. gw.uid = 0
    BY <1>2, <1>4 DEF CreateGateway, Exists, Object
  <2>2. gw'.uid = births + 1 /\ gw'.gen = 1
    BY <1>4 DEF CreateGateway, Absent
  <2> QED BY <1>4, <2>1, <2>2, AppliedKept
             DEF CreateGateway, Contract!Next, Contract!Create, Acknowledged
<1>5. CASE EditSpec
  <2>1. gw'.uid = gw.uid /\ gw'.gen = gw.gen + 1
    BY <1>2, <1>5 DEF EditSpec, Object
  <2> QED BY <1>5, <2>1, AppliedKept
             DEF EditSpec, Exists, Contract!Next, Contract!Edit, Acknowledged
<1>6. CASE DeleteGateway
  <2>1. CASE gw' = Absent /\ status' = NoStatus
    BY <1>6, <2>1, AppliedKept
       DEF DeleteGateway, Contract!Next, Contract!Vanish,
           Contract!Unacknowledged, Acknowledged, Absent, NoStatus
  <2>2. CASE gw' = [gw EXCEPT !.deleting = TRUE] /\ status' = status
    <3>1. gw'.uid = gw.uid /\ gw'.gen = gw.gen
      BY <1>2, <2>2 DEF Object
    <3> QED BY <1>1, <1>6, <2>2, <3>1 DEF DeleteGateway
  <2> QED BY <1>6, <2>1, <2>2 DEF DeleteGateway
<1>7. CASE EditRoutes \/ EditEndpoints \/ MoveClass \/ UNCHANGED vars
  BY <1>1, <1>7 DEF EditRoutes, EditEndpoints, MoveClass, vars, api
<1>8. CASE AssignLB
  <2>1. Part(service') = Part(service)
    <3>1. service \in Service
      BY DEF TypeOK
    <3> QED BY <1>8, <3>1 DEF AssignLB, Part, Service
  <2>2. Applied' = Applied /\ UNCHANGED <<births, gw, status>>
    BY <1>8, <2>1, AppliedSame DEF AssignLB, api
  <2> QED BY <2>2, Invisible DEF Acknowledged
<1>9. CASE CollectGarbage \/ DeleteChild
  BY <1>9, DropsPart DEF CollectGarbage, DeleteChild, Contract!Next
<1> QED BY <1>3, <1>4, <1>5, <1>6, <1>7, <1>8, <1>9 DEF Next, Environment

\* ContractSpec: what a user sees of one controller process, whatever it
\* misses, repeats or leaves half done, is what the contract promises.
THEOREM Implements == SoleOperator => (Spec => ContractSpec)
<1> SUFFICES ASSUME SoleOperator PROVE Spec => ContractSpec
  OBVIOUS
<1> DEFINE Safe == TypeOK /\ Lifecycle /\ Writes /\ Reads
<1>1. Init => Safe
  BY SafetyInit
<1>2. Safe /\ [Next]_vars => Safe'
  BY SafetyStep
<1>3. Safe /\ Safe' /\ [Next]_vars => [Contract!Next]_(Contract!vars)
  BY ContractStep
<1> HIDE DEF Safe
<1> QED BY <1>1, <1>2, <1>3, ContractInit, PTL DEF Spec, ContractSpec, Contract!Spec

--------------------------------------------------------------------------------
(* Any number of processes.                                                *)

\* What any step may do to the Gateway: it is as it was or further on, or
\* gone, or the next incarnation.
Grown ==
    \/ births' = births /\ gw' = gw
    \/ /\ births' = births /\ gw.uid > 0
       /\ gw'.uid = gw.uid /\ gw'.gen >= gw.gen
       /\ gw'.gen = gw.gen => gw'.kind = gw.kind
       /\ gw.deleting => gw'.deleting
    \/ births' = births /\ gw' = Absent
    \/ births' = births + 1 /\ gw'.uid = births + 1 /\ gw.uid = 0

LEMMA GatewayGrows ==
    ASSUME TypeOK, GatewayInv, [Next]_vars
    PROVE  GatewayInv' /\ Grown
<1>1. gw \in Object /\ births \in Nat /\ gw.uid \in Nat /\ gw.gen \in Nat
  BY DEF TypeOK, Object
<1>2. CASE UNCHANGED <<gw, births>>
  BY <1>2 DEF GatewayInv, Grown
<1>3. ASSUME NEW o \in Operators, AddFinalizer(o), gw' # gw PROVE GatewayInv' /\ Grown
  <2>1. /\ births' = births /\ gw.uid > 0 /\ ~gw.deleting
        /\ gw' = [gw EXCEPT !.fin = TRUE]
    BY <1>3 DEF AddFinalizer, Exists
  <2>2. /\ gw'.uid = gw.uid /\ gw'.gen = gw.gen /\ gw'.kind = gw.kind
        /\ gw'.deleting = gw.deleting /\ gw'.fin
    BY <1>1, <2>1 DEF Object
  <2> QED BY <1>1, <2>1, <2>2 DEF GatewayInv, Grown
<1>4. ASSUME NEW o \in Operators, RemoveFinalizer(o), gw' # gw PROVE GatewayInv' /\ Grown
  <2>1. births' = births /\ gw.uid > 0
    BY <1>4 DEF RemoveFinalizer, Exists
  <2>2. CASE gw' = Absent
    BY <1>1, <2>1, <2>2 DEF GatewayInv, Grown, Absent
  <2>3. CASE ~gw.deleting /\ gw' = [gw EXCEPT !.fin = FALSE]
    <3>1. /\ gw'.uid = gw.uid /\ gw'.gen = gw.gen /\ gw'.kind = gw.kind /\ ~gw'.deleting
      BY <1>1, <2>3 DEF Object
    <3> QED BY <1>1, <2>1, <2>3, <3>1 DEF GatewayInv, Grown
  <2> QED BY <1>4, <2>2, <2>3 DEF RemoveFinalizer
<1>5. CASE CreateGateway
  <2>1. /\ births' = births + 1 /\ gw.uid = 0
        /\ gw'.uid = births + 1 /\ gw'.gen = 1 /\ ~gw'.deleting
    BY <1>1, <1>5 DEF CreateGateway, Exists, Absent
  <2> QED BY <1>1, <2>1 DEF GatewayInv, Grown
<1>6. CASE EditSpec
  <2>1. /\ births' = births /\ gw.uid > 0 /\ gw'.uid = gw.uid /\ gw'.gen = gw.gen + 1
        /\ gw'.deleting = gw.deleting /\ gw'.fin = gw.fin
    BY <1>1, <1>6 DEF EditSpec, Exists, Object
  <2> QED BY <1>1, <2>1 DEF GatewayInv, Grown
<1>7. CASE DeleteGateway
  <2>1. births' = births /\ gw.uid > 0
    BY <1>7 DEF DeleteGateway, Exists
  <2>2. CASE gw' = Absent
    BY <1>1, <2>1, <2>2 DEF GatewayInv, Grown, Absent
  <2>3. CASE gw.fin /\ gw' = [gw EXCEPT !.deleting = TRUE]
    <3>1. /\ gw'.uid = gw.uid /\ gw'.gen = gw.gen /\ gw'.kind = gw.kind
          /\ gw'.deleting /\ gw'.fin
      BY <1>1, <2>3 DEF Object
    <3> QED BY <1>1, <2>1, <3>1 DEF GatewayInv, Grown
  <2> QED BY <1>7, <2>2, <2>3 DEF DeleteGateway
<1>8. CASE EditRoutes \/ EditEndpoints \/ MoveClass \/ AssignLB \/ CollectGarbage
           \/ DeleteChild \/ UNCHANGED vars
  BY <1>2, <1>8 DEF EditRoutes, EditEndpoints, MoveClass, AssignLB, CollectGarbage,
     DeleteChild, Remove, vars, api
<1>9. ASSUME NEW o \in Operators, Watch(o) \/ Operator(o) \/ Fail(o) \/ Crash(o)
      PROVE  GatewayInv' /\ Grown
  <2>1. CASE Watch(o) \/ Start(o) \/ Crash(o)
    BY <1>2, <2>1 DEF Watch, Start, Crash, api
  <2>2. CASE AddFinalizer(o) \/ RemoveFinalizer(o)
    <3>1. births' = births
      BY <2>2 DEF AddFinalizer, RemoveFinalizer
    <3> QED BY <1>2, <1>3, <1>4, <2>2, <3>1
  <2> QED BY <1>2, <1>9, <2>1, <2>2, QuietSteps DEF Operator, Quiet
<1> QED BY <1>5, <1>6, <1>7, <1>8, <1>9 DEF Next, Environment

\* What is older than the Gateway stays so, whatever incarnation it is of.
LEMMA OlderStays ==
    ASSUME TypeOK, TypeOK', GatewayInv, Grown, NEW copy \in Object,
           copy.uid <= births, copy.uid = 0 => copy = Absent, Older(copy, gw)
    PROVE  copy.uid <= births' /\ Older(copy, gw')
<1>1. /\ births \in Nat /\ gw.uid \in Nat /\ gw.gen \in Nat /\ gw'.gen \in Nat
      /\ copy.uid \in Nat /\ copy.gen \in Nat
  BY DEF TypeOK, Object
<1>2. CASE births' = births /\ gw' = gw
  BY <1>2
<1>3. CASE /\ births' = births /\ gw.uid > 0
           /\ gw'.uid = gw.uid /\ gw'.gen >= gw.gen
           /\ gw'.gen = gw.gen => gw'.kind = gw.kind
           /\ gw.deleting => gw'.deleting
  <2> SUFFICES ASSUME copy.uid = gw.uid
               PROVE  /\ copy.gen <= gw'.gen
                      /\ copy.gen = gw'.gen => copy.kind = gw'.kind
                      /\ copy.deleting => gw'.deleting
    BY <1>1, <1>3 DEF Older
  <2>1. /\ copy.gen <= gw.gen
        /\ copy.gen = gw.gen => copy.kind = gw.kind
        /\ copy.deleting => gw.deleting
    BY DEF Older
  <2>2. CASE gw'.gen = gw.gen
    BY <1>3, <2>1, <2>2
  <2>3. CASE gw'.gen > gw.gen
    BY <1>1, <1>3, <2>1, <2>3
  <2> QED BY <1>1, <1>3, <2>2, <2>3
<1>4. CASE births' = births /\ gw' = Absent
  BY <1>1, <1>4 DEF Older, Absent
<1>5. CASE births' = births + 1 /\ gw'.uid = births + 1 /\ gw.uid = 0
  BY <1>1, <1>5 DEF Older
<1> QED BY <1>2, <1>3, <1>4, <1>5 DEF Grown

\* How any step may move a process.
Moved(o) ==
    /\ cache'[o] \in {cache[o], gw, Absent}
    /\ cache'[o] # cache[o] => UNCHANGED <<gw, births>>
    /\ \/ pc'[o] = "idle"
       \/ pc'[o] = pc[o] /\ snap'[o] = snap[o]
       \/ /\ pc'[o] \in {"class", "add", "remove"} /\ snap'[o] = cache[o]
          /\ cache[o].uid > 0 /\ UNCHANGED <<gw, births>>
       \/ /\ pc[o] \in ApplyPhases /\ snap'[o] = snap[o]
          /\ pc'[o] \in ApplyPhases \ {"class"}
          /\ pc'[o] = "reject" <=> snap[o].kind = "params"

LEMMA EveryoneMoves ==
    ASSUME TypeOK, [Next]_vars, NEW r \in Operators, Past(r)
    PROVE  Moved(r)
<1>1. /\ cache \in [Operators -> Object] /\ snap \in [Operators -> Object]
      /\ pc \in [Operators -> Phases]
  BY DEF TypeOK
<1>2. CASE cache'[r] = cache[r] /\ pc'[r] = pc[r] /\ snap'[r] = snap[r]
  BY <1>2 DEF Moved
<1>3. ASSUME cache' = cache, pc'[r] = "idle" PROVE Moved(r)
  BY <1>3 DEF Moved
<1>4. ASSUME NEW o \in Operators, o # r, Watch(o) \/ Operator(o) \/ Fail(o) \/ Crash(o)
      PROVE  Moved(r)
  <2>1. CASE Watch(o) \/ Start(o) \/ Crash(o)
    BY <1>1, <1>2, <1>4, <2>1 DEF Watch, Start, Crash, Finish
  <2>2. CASE AddFinalizer(o) \/ RemoveFinalizer(o)
    BY <1>1, <1>2, <1>4, <2>2
       DEF AddFinalizer, RemoveFinalizer, AwaitChange, LostReply, Abort, Finish
  <2>3. CASE Quiet(o)
    BY <1>1, <1>2, <1>4, <2>3 DEF Quiet
  <2> QED BY <1>4, <2>1, <2>2, <2>3, QuietSteps DEF Operator
<1>5. CASE Watch(r)
  BY <1>1, <1>5 DEF Watch, Moved, api
<1>6. CASE Crash(r)
  BY <1>1, <1>6 DEF Crash, Finish, Moved, api
<1>7. CASE Start(r)
  <2>1. /\ UNCHANGED <<gw, births>> /\ cache' = cache
        /\ \/ pc'[r] = "idle"
           \/ pc'[r] \in {"class", "add", "remove"} /\ snap'[r] = cache[r] /\ cache[r].uid > 0
    BY <1>1, <1>7 DEF Start, Exists, api
  <2> QED BY <2>1 DEF Moved
<1>8. CASE AddFinalizer(r) \/ RemoveFinalizer(r)
  BY <1>1, <1>3, <1>8
     DEF AddFinalizer, RemoveFinalizer, AwaitChange, LostReply, Abort, Finish
<1>9. CASE Fail(r) \/ Reject(r) \/ PatchStatus(r)
  BY <1>1, <1>3, <1>9
     DEF Fail, Reject, PatchStatus, ApplyStatus, LostReply, Abort, Finish
<1>10. CASE CheckClass(r)
  BY <1>1, <1>3, <1>10 DEF CheckClass, Goto, AwaitChange, Abort, Finish, ApplyPhases, Moved
<1>11. ASSUME pc[r] \in ApplyPhases \ {"class", "reject"}, cache' = cache,
              pc'[r] \in ApplyPhases \ {"class", "reject"}, snap' = snap
       PROVE  Moved(r)
  BY <1>11 DEF Past, Moved
<1>12. CASE ListRoutes(r) \/ FetchNamespaces(r) \/ ResolveEndpoints(r) \/ ReadAddress(r)
  BY <1>1, <1>11, <1>12
     DEF ListRoutes, FetchNamespaces, ResolveEndpoints, ReadAddress, Goto, ApplyPhases
<1>13. CASE ApplyConfigMap(r) \/ ApplyDeployment(r) \/ ApplyService(r)
  BY <1>1, <1>3, <1>11, <1>13
     DEF ApplyConfigMap, ApplyDeployment, ApplyService, ChildApplied, LostReply, Abort,
         Finish, Goto, ApplyPhases
<1>14. CASE Environment \/ UNCHANGED vars
  BY <1>2, <1>14 DEF Environment, CreateGateway, EditSpec, DeleteGateway, EditRoutes,
     EditEndpoints, MoveClass, AssignLB, CollectGarbage, DeleteChild, Remove, process, vars
<1> QED BY <1>4, <1>5, <1>6, <1>7, <1>8, <1>9, <1>10, <1>12, <1>13, <1>14
           DEF Next, Operator

LEMMA PastStep ==
    ASSUME TypeOK, Shared, [Next]_vars, NEW o \in Operators
    PROVE  Past(o)'
<1>1. TypeOK' /\ GatewayInv' /\ Grown /\ Moved(o) /\ Past(o)
  BY TypeStep, GatewayGrows, EveryoneMoves DEF Shared
<1>2. /\ cache[o] \in Object /\ snap[o] \in Object /\ gw \in Object /\ Absent \in Object
      /\ births \in Nat /\ births' \in Nat
  BY <1>1, EmptyType DEF TypeOK
<1>3. /\ cache'[o].uid <= births' /\ Older(cache'[o], gw')
      /\ cache'[o].uid = 0 => cache'[o] = Absent
  <2>1. CASE cache'[o] = cache[o]
    BY <1>1, <1>2, <2>1, OlderStays DEF Past, Shared
  <2>2. CASE cache'[o] = gw /\ UNCHANGED <<gw, births>>
    BY <1>2, <2>2 DEF Shared, GatewayInv, Older, Object
  <2>3. CASE cache'[o] = Absent /\ UNCHANGED <<gw, births>>
    BY <1>2, <2>3 DEF Shared, GatewayInv, Older, Absent, Object
  <2> QED BY <1>1, <2>1, <2>2, <2>3 DEF Moved
<1>4. pc'[o] # "idle" => snap'[o].uid \in 1..births' /\ Older(snap'[o], gw')
  <2>1. CASE snap'[o] = snap[o] /\ pc[o] # "idle"
    BY <1>1, <1>2, <2>1, OlderStays DEF Past, Shared, Object
  <2>2. CASE snap'[o] = cache[o] /\ cache[o].uid > 0 /\ UNCHANGED <<gw, births>>
    BY <1>1, <1>2, <2>2 DEF Past, Object
  <2> QED BY <1>1, <2>1, <2>2 DEF Moved, ApplyPhases
<1>5. /\ pc'[o] = "reject" => snap'[o].kind = "params"
      /\ pc'[o] \in ApplyPhases \ {"class", "reject"} => snap'[o].kind # "params"
  BY <1>1 DEF Moved, Past, ApplyPhases
<1> QED BY <1>3, <1>4, <1>5 DEF Past

\* What any step may do to a child (none is its absence) and to the status.
ChildMoved(old, new, none) ==
    \/ new \in {old, none}
    \/ new.uid > 0 /\ new.uid = old.uid /\ new.gen = old.gen
    \/ /\ UNCHANGED <<gw, births>>
       /\ \E o \in Operators : pc[o] # "idle" /\ new.uid = snap[o].uid /\ new.gen = snap[o].gen

StatusMoved ==
    \/ status' \in {status, NoStatus}
    \/ /\ UNCHANGED <<gw, births>>
       /\ \E o \in Operators :
             /\ pc[o] # "idle"
             /\ status'.uid = snap[o].uid /\ status'.gen = snap[o].gen
             /\ status'.verdict = VerdictOn(snap[o].kind)

LEMMA EveryoneWrites ==
    ASSUME TypeOK, Shared, [Next]_vars
    PROVE  /\ ChildMoved(configMap, configMap', NoConfig)
           /\ ChildMoved(deployment, deployment', NoConfig)
           /\ ChildMoved(service, service', NoService)
           /\ StatusMoved
<1>1. CASE UNCHANGED <<children, status>>
  BY <1>1 DEF ChildMoved, StatusMoved, children
<1>2. ASSUME NEW o \in Operators, ApplyConfigMap(o) \/ ApplyDeployment(o) \/ ApplyService(o)
      PROVE  /\ ChildMoved(configMap, configMap', NoConfig)
             /\ ChildMoved(deployment, deployment', NoConfig)
             /\ ChildMoved(service, service', NoService)
             /\ StatusMoved
  <2>1. pc[o] # "idle" /\ UNCHANGED <<gw, births, status>>
    BY <1>2 DEF ApplyConfigMap, ApplyDeployment, ApplyService, api
  <2>2. /\ configMap' = configMap \/ (configMap'.uid = snap[o].uid /\ configMap'.gen = snap[o].gen)
        /\ deployment' = deployment \/ (deployment'.uid = snap[o].uid /\ deployment'.gen = snap[o].gen)
        /\ service' = service \/ (service'.uid = snap[o].uid /\ service'.gen = snap[o].gen)
    BY <1>2 DEF ApplyConfigMap, ApplyDeployment, ApplyService, Generated
  <2> QED BY <2>1, <2>2 DEF ChildMoved, StatusMoved
<1>3. ASSUME NEW o \in Operators, Reject(o) \/ PatchStatus(o)
      PROVE  UNCHANGED children /\ StatusMoved
  <2>1. pc[o] # "idle" /\ UNCHANGED <<gw, births, children>>
    BY <1>3 DEF Reject, PatchStatus
  <2>2. Past(o) /\ snap[o].kind \in Kinds
    BY DEF Shared, TypeOK, Object
  <2>3. \/ status' = status
        \/ /\ status'.uid = snap[o].uid /\ status'.gen = snap[o].gen
           /\ status'.verdict = VerdictOn(snap[o].kind)
    <3>1. CASE Reject(o)
      BY <2>2, <3>1 DEF Reject, ApplyStatus, NoStatus, Past, VerdictOn
    <3>2. CASE PatchStatus(o)
      BY <2>2, <3>2
         DEF PatchStatus, StatusOf, ApplyStatus, Past, VerdictOn, Kinds, ApplyPhases
    <3> QED BY <1>3, <3>1, <3>2
  <2> QED BY <2>1, <2>3 DEF StatusMoved
<1>4. CASE CollectGarbage \/ DeleteChild
  BY <1>4 DEF CollectGarbage, DeleteChild, Remove, ChildMoved, StatusMoved, api
<1>5. CASE AssignLB
  <2>1. service.uid > 0 /\ service'.uid = service.uid /\ service'.gen = service.gen
    BY <1>5 DEF AssignLB, Exists, TypeOK, Service
  <2>2. UNCHANGED <<configMap, deployment, status>>
    BY <1>5 DEF AssignLB, api
  <2> QED BY <2>1, <2>2 DEF ChildMoved, StatusMoved
<1>6. CASE CreateGateway \/ EditSpec \/ DeleteGateway
  <2>1. UNCHANGED children /\ status' \in {status, NoStatus}
    BY <1>6 DEF CreateGateway, EditSpec, DeleteGateway
  <2> QED BY <2>1 DEF ChildMoved, StatusMoved, children
<1>7. CASE EditRoutes \/ EditEndpoints \/ MoveClass \/ UNCHANGED vars
  BY <1>1, <1>7 DEF EditRoutes, EditEndpoints, MoveClass, vars, api
<1>8. ASSUME NEW o \in Operators, Watch(o) \/ Start(o) \/ AddFinalizer(o) \/ CheckClass(o)
                \/ ListRoutes(o) \/ FetchNamespaces(o) \/ ResolveEndpoints(o)
                \/ ReadAddress(o) \/ Fail(o) \/ Crash(o)
      PROVE  UNCHANGED <<children, status>>
  BY <1>8 DEF Watch, Start, AddFinalizer, CheckClass, ListRoutes, FetchNamespaces,
     ResolveEndpoints, ReadAddress, Fail, Crash, api
<1>9. ASSUME NEW o \in Operators, RemoveFinalizer(o)
      PROVE  UNCHANGED children /\ status' \in {status, NoStatus}
  BY <1>9 DEF RemoveFinalizer
<1>10. CASE UNCHANGED children /\ StatusMoved
  BY <1>10 DEF ChildMoved, children
<1> QED BY <1>1, <1>2, <1>3, <1>4, <1>5, <1>6, <1>7, <1>8, <1>9, <1>10
           DEF Next, Operator, Environment, StatusMoved

\* A child of the past stays one.
LEMMA ChildStays ==
    ASSUME TypeOK, TypeOK', Shared, Grown, NEW old, NEW new, NEW none,
           old.uid \in Nat, old.gen \in Nat, new.uid \in Nat, new.gen \in Nat,
           none.uid = 0, none.gen = 0,
           old.uid <= births, old.uid = 0 => old = none, ChildBound(old, gw),
           ChildMoved(old, new, none)
    PROVE  new.uid <= births' /\ (new.uid = 0 => new = none) /\ ChildBound(new, gw')
<1>1. /\ births \in Nat /\ gw.uid \in Nat /\ gw.gen \in Nat
      /\ births' \in Nat /\ gw'.uid \in Nat /\ gw'.gen \in Nat /\ births' >= births
  BY DEF TypeOK, Object, Grown
<1>2. CASE new = none
  BY <1>1, <1>2 DEF ChildBound
<1>3. CASE new.uid > 0 /\ new.uid = old.uid /\ new.gen = old.gen
  <2>1. ASSUME gw'.uid = new.uid PROVE gw'.uid = gw.uid /\ gw'.gen >= gw.gen
    BY <1>1, <1>3, <2>1 DEF Grown, Absent
  <2> QED BY <1>1, <1>3, <2>1 DEF ChildBound
<1>4. CASE UNCHANGED <<gw, births>> /\ \E o \in Operators :
             pc[o] # "idle" /\ new.uid = snap[o].uid /\ new.gen = snap[o].gen
  BY <1>1, <1>4 DEF Shared, Past, Older, ChildBound
<1>5. new = old => new.uid > 0 \/ new = none
  OBVIOUS
<1> QED BY <1>2, <1>3, <1>4, <1>5 DEF ChildMoved

LEMMA StatusStays ==
    ASSUME TypeOK, TypeOK', Shared, Grown, StatusMoved
    PROVE  status'.uid <= births' /\ (status'.uid = 0 => status' = NoStatus) /\ StatusBound(gw)'
<1>1. /\ births \in Nat /\ gw.uid \in Nat /\ gw.gen \in Nat
      /\ births' \in Nat /\ gw'.uid \in Nat /\ gw'.gen \in Nat /\ births' >= births
      /\ status.uid \in Nat /\ status.gen \in Nat
  BY DEF TypeOK, Object, Status, Grown
<1>2. CASE status' = NoStatus
  BY <1>1, <1>2 DEF StatusBound, NoStatus
<1>3. CASE status' = status /\ status.uid > 0
  <2>1. ASSUME gw'.uid = status.uid
        PROVE  /\ gw'.uid = gw.uid /\ gw'.gen >= gw.gen
               /\ gw'.gen = gw.gen => gw'.kind = gw.kind
    BY <1>1, <1>3, <2>1 DEF Grown, Absent, Shared
  <2>2. StatusBound(gw) /\ status.uid <= births
    BY DEF Shared, KeepsToSpec, Bounds
  <2>3. CASE gw'.uid = status.uid /\ gw'.gen = gw.gen
    BY <1>1, <1>3, <2>1, <2>2, <2>3 DEF StatusBound
  <2>4. CASE gw'.uid = status.uid /\ gw'.gen > gw.gen
    BY <1>1, <1>3, <2>1, <2>2, <2>4 DEF StatusBound
  <2>5. CASE gw'.uid # status.uid
    BY <1>1, <1>3, <2>2, <2>5 DEF StatusBound
  <2> QED BY <1>1, <2>1, <2>3, <2>4, <2>5
<1>4. CASE /\ UNCHANGED <<gw, births>>
           /\ \E o \in Operators :
                 /\ pc[o] # "idle"
                 /\ status'.uid = snap[o].uid /\ status'.gen = snap[o].gen
                 /\ status'.verdict = VerdictOn(snap[o].kind)
  BY <1>1, <1>4 DEF Shared, Past, Older, StatusBound
<1>5. status.uid = 0 => status = NoStatus
  BY DEF Shared
<1> QED BY <1>1, <1>2, <1>3, <1>4, <1>5 DEF StatusMoved

LEMMA SharedStep == TypeOK /\ Shared /\ [Next]_vars => Shared'
<1> SUFFICES ASSUME TypeOK, Shared, [Next]_vars PROVE Shared'
  OBVIOUS
<1>1. TypeOK' /\ GatewayInv' /\ Grown
  BY TypeStep, GatewayGrows DEF Shared
<1>2. /\ configMap.uid \in Nat /\ configMap.gen \in Nat
      /\ deployment.uid \in Nat /\ deployment.gen \in Nat
      /\ service.uid \in Nat /\ service.gen \in Nat
      /\ configMap'.uid \in Nat /\ configMap'.gen \in Nat
      /\ deployment'.uid \in Nat /\ deployment'.gen \in Nat
      /\ service'.uid \in Nat /\ service'.gen \in Nat
  BY <1>1 DEF TypeOK, Config, Service
<1>3. /\ NoConfig.uid = 0 /\ NoConfig.gen = 0
      /\ NoService.uid = 0 /\ NoService.gen = 0
  BY DEF NoConfig, NoService
<1>4. /\ configMap.uid <= births /\ (configMap.uid = 0 => configMap = NoConfig)
      /\ deployment.uid <= births /\ (deployment.uid = 0 => deployment = NoConfig)
      /\ service.uid <= births /\ (service.uid = 0 => service = NoService)
      /\ ChildBound(configMap, gw) /\ ChildBound(deployment, gw) /\ ChildBound(service, gw)
  BY DEF Shared, KeepsToSpec, Bounds
<1>5. configMap'.uid <= births' /\ (configMap'.uid = 0 => configMap' = NoConfig)
      /\ ChildBound(configMap', gw')
  BY <1>1, <1>2, <1>3, <1>4, ChildStays, EveryoneWrites
<1>6. deployment'.uid <= births' /\ (deployment'.uid = 0 => deployment' = NoConfig)
      /\ ChildBound(deployment', gw')
  BY <1>1, <1>2, <1>3, <1>4, ChildStays, EveryoneWrites
<1>7. service'.uid <= births' /\ (service'.uid = 0 => service' = NoService)
      /\ ChildBound(service', gw')
  BY <1>1, <1>2, <1>3, <1>4, ChildStays, EveryoneWrites
<1>8. status'.uid <= births' /\ (status'.uid = 0 => status' = NoStatus) /\ StatusBound(gw)'
  BY <1>1, StatusStays, EveryoneWrites
<1>9. \A o \in Operators : Past(o)'
  BY PastStep
<1> QED BY <1>1, <1>5, <1>6, <1>7, <1>8, <1>9 DEF Shared, KeepsToSpec, Bounds, ChildBound

LEMMA SharedInit == Init => Shared
  BY DEF Init, Shared, KeepsToSpec, Past, GatewayInv, Bounds, ChildBound, StatusBound, Older,
     Absent, NoConfig, NoService, NoStatus, ApplyPhases

\* KeepsToSpec: with any number of processes, however stale, nothing is written
\* for the living Gateway from a generation it never had, and a status of its
\* newest generation says what that generation's listeners call for.
THEOREM SpecKept == Spec => []KeepsToSpec
<1>1. Shared => KeepsToSpec
  BY DEF Shared
<1>2. TypeOK /\ Shared /\ [Next]_vars => (TypeOK /\ Shared)'
  BY TypeStep, SharedStep
<1> QED BY <1>1, <1>2, TypeInit, SharedInit, PTL DEF Spec
================================================================================
