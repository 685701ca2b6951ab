------------------------ MODULE GatewayInvariantProofs ------------------------
(***************************************************************************)
(* Proofs about the Gateway controller: it is well typed, for every value  *)
(* of its constants, and the first two layers of the inductive invariant   *)
(* of one process, Lifecycle (the finalizer protocol) and Writes (what is  *)
(* written, against the copies of the Gateway the process holds), are      *)
(* kept by every step.                                                     *)
(***************************************************************************)
EXTENDS GatewayInvariant, TLAPS

--------------------------------------------------------------------------------
(* Types.                                                                  *)

LEMMA EmptyType ==
    /\ Absent \in Object /\ NoConfig \in Config /\ NoService \in Service
    /\ NoStatus \in Status /\ Blank \in Seen
<1>1. AllOf(0) \in [Reading -> Nat]
  BY DEF AllOf
<1> QED BY <1>1 DEF Object, Absent, Config, NoConfig, Service, NoService, Status, NoStatus,
                    Seen, Blank, Kinds, Verdicts

\* How a reconciliation that ends leaves the process well typed.
LEMMA FinishType ==
    ASSUME TypeOK, NEW o \in Operators, NEW q \in [Operators -> Schedules],
           NEW again \in Schedules, Finish(o, q, again)
    PROVE  /\ queue' \in [Operators -> Schedules] /\ pc' \in [Operators -> Phases]
           /\ snap' \in [Operators -> Object] /\ seen' \in [Operators -> Seen]
<1>1. queue' \in [Operators -> Schedules]
  BY DEF Finish, Sooner, Schedules
<1>2. pc' \in [Operators -> Phases]
  BY DEF Finish, TypeOK, Phases
<1>3. snap' \in [Operators -> Object]
  BY DEF Finish, TypeOK, Object, Absent, Kinds
<1>4. seen' \in [Operators -> Seen]
  BY EmptyType DEF Finish, TypeOK
<1> QED BY <1>1, <1>2, <1>3, <1>4

LEMMA TypeInit == Init => TypeOK
  BY EmptyType DEF Init, TypeOK, Classes, Phases, Schedules

LEMMA WatchType == ASSUME TypeOK, NEW o \in Operators, Watch(o) PROVE TypeOK'
  BY DEF Watch, Exists, Schedules, TypeOK, api, children, process

LEMMA StartType == ASSUME TypeOK, NEW o \in Operators, Start(o) PROVE TypeOK'
<1> DEFINE obj == cache[o]
<1>1. PICK phase \in {"idle", "class", "remove", "add"} :
          /\ pc' = [pc EXCEPT ![o] = phase]
          /\ snap' = [snap EXCEPT ![o] = IF phase = "idle" THEN Absent ELSE obj]
  BY DEF Start
<1>2. pc' \in [Operators -> Phases]
  BY <1>1 DEF TypeOK, Phases, ApplyPhases
<1>3. snap' \in [Operators -> Object]
  BY <1>1 DEF TypeOK, Absent, Object, Kinds
<1>4. queue' \in [Operators -> Schedules]
  BY DEF Start, TypeOK, Schedules
<1> QED BY <1>2, <1>3, <1>4 DEF Start, TypeOK, api, children

\* The two writers of the status.
LEMMA ApplyStatusType ==
    ASSUME TypeOK, NEW o \in Operators, NEW new \in Status,
           NEW again \in Schedules, ApplyStatus(o, new, again)
    PROVE  /\ status' \in Status /\ faults' \in Nat
           /\ queue' \in [Operators -> Schedules] /\ pc' \in [Operators -> Phases]
           /\ snap' \in [Operators -> Object] /\ seen' \in [Operators -> Seen]
<1>1. status' \in Status /\ faults' \in Nat
  BY DEF ApplyStatus, LostReply, TypeOK
<1>2. Everyone \in [Operators -> Schedules] /\ queue \in [Operators -> Schedules]
  BY DEF Everyone, Schedules, TypeOK
<1>3. PICK q \in [Operators -> Schedules], delay \in Schedules : Finish(o, q, delay)
  BY <1>2 DEF ApplyStatus, LostReply, Abort, ErrorPolicy, Wrapped, Schedules
<1> QED BY <1>1, <1>3, FinishType

LEMMA RejectType == ASSUME TypeOK, NEW o \in Operators, Reject(o) PROVE TypeOK'
<1> DEFINE new == [NoStatus EXCEPT !.uid = snap[o].uid, !.gen = snap[o].gen,
                                   !.verdict = "rejected"]
<1>1. new \in Status
  BY DEF TypeOK, Object, NoStatus, Status, Verdicts
<1>2. "idle" \in Schedules /\ ApplyStatus(o, new, "idle")
  BY DEF Reject, Schedules
<1> HIDE DEF new
<1> QED BY <1>1, <1>2, ApplyStatusType DEF Reject, TypeOK, children

LEMMA PatchStatusType == ASSUME TypeOK, NEW o \in Operators, PatchStatus(o) PROVE TypeOK'
<1> DEFINE new == StatusOf(o, snap[o].gen, seen[o].rt)
<1>1. snap[o] \in Object /\ seen[o] \in Seen
  BY DEF TypeOK
<1>2. new \in Status
  BY <1>1 DEF StatusOf, Object, Seen, Status, Verdicts
<1>3. "in30" \in Schedules /\ ApplyStatus(o, new, "in30")
  BY DEF PatchStatus, Schedules
<1> HIDE DEF new
<1> QED BY <1>2, <1>3, ApplyStatusType DEF PatchStatus, TypeOK, children

\* The three writers of children.
LEMMA ChildAppliedType ==
    ASSUME TypeOK, NEW o \in Operators, NEW changed \in BOOLEAN, NEW next \in Phases,
           ChildApplied(o, changed, next)
    PROVE  /\ faults' \in Nat
           /\ queue' \in [Operators -> Schedules] /\ pc' \in [Operators -> Phases]
           /\ snap' \in [Operators -> Object] /\ seen' \in [Operators -> Seen]
<1> DEFINE q == IF changed THEN Everyone ELSE queue
<1>1. q \in [Operators -> Schedules]
  BY DEF Everyone, Schedules, TypeOK
<1>2. CASE Goto(o, next) /\ queue' = q /\ UNCHANGED <<seen, faults>>
  BY <1>1, <1>2 DEF Goto, TypeOK
<1>3. CASE LostReply(o, q)
  <2>1. Finish(o, q, "in15") /\ "in15" \in Schedules
    BY <1>3 DEF LostReply, Abort, ErrorPolicy, Wrapped, Schedules
  <2> QED BY <1>1, <1>3, <2>1, FinishType DEF LostReply, TypeOK
<1> QED BY <1>2, <1>3 DEF ChildApplied

LEMMA GeneratedType == ASSUME TypeOK, NEW o \in Operators PROVE Generated(o) \in Config
  BY DEF TypeOK, Object, Seen, Generated, Config

LEMMA ApplyConfigMapType ==
    ASSUME TypeOK, NEW o \in Operators, ApplyConfigMap(o) PROVE TypeOK'
  BY ChildAppliedType, GeneratedType DEF ApplyConfigMap, TypeOK, Phases, ApplyPhases, api

LEMMA ApplyDeploymentType ==
    ASSUME TypeOK, NEW o \in Operators, ApplyDeployment(o) PROVE TypeOK'
  BY ChildAppliedType, GeneratedType DEF ApplyDeployment, TypeOK, Phases, ApplyPhases, api

LEMMA ApplyServiceType ==
    ASSUME TypeOK, NEW o \in Operators, ApplyService(o) PROVE TypeOK'
<1>1. service' \in Service
  BY DEF ApplyService, TypeOK, Object, Service
<1> QED BY <1>1, ChildAppliedType DEF ApplyService, TypeOK, Phases, ApplyPhases, api

LEMMA AddFinalizerType == ASSUME TypeOK, NEW o \in Operators, AddFinalizer(o) PROVE TypeOK'
<1>1. gw' \in Object
  BY DEF AddFinalizer, TypeOK, Object
<1>2. PICK again \in Schedules : Finish(o, queue, again)
  BY DEF AddFinalizer, AwaitChange, LostReply, Abort, ErrorPolicy, Wrapped, Schedules
<1>3. faults' \in Nat
  BY DEF AddFinalizer, LostReply, TypeOK
<1> QED BY <1>1, <1>2, <1>3, FinishType DEF AddFinalizer, TypeOK, children

LEMMA RemoveFinalizerType ==
    ASSUME TypeOK, NEW o \in Operators, RemoveFinalizer(o) PROVE TypeOK'
<1>1. gw' \in Object
  <2>1. Exists(gw) /\ gw.fin /\ gw.deleting => gw' = Absent
    BY DEF RemoveFinalizer
  <2>2. ~(Exists(gw) /\ gw.fin /\ gw.deleting) => gw' = gw \/ gw' = [gw EXCEPT !.fin = FALSE]
    BY DEF RemoveFinalizer
  <2>3. gw \in Object /\ [gw EXCEPT !.fin = FALSE] \in Object
    BY DEF TypeOK, Object
  <2> QED BY <2>1, <2>2, <2>3, EmptyType
<1>2. status' \in Status
  BY EmptyType DEF RemoveFinalizer, TypeOK
<1>3. PICK again \in Schedules : Finish(o, queue, again)
  BY DEF RemoveFinalizer, AwaitChange, LostReply, Abort, ErrorPolicy, Wrapped, Schedules
<1>4. faults' \in Nat
  BY DEF RemoveFinalizer, LostReply, TypeOK
<1> QED BY <1>1, <1>2, <1>3, <1>4, FinishType DEF RemoveFinalizer, TypeOK, children

LEMMA CheckClassType == ASSUME TypeOK, NEW o \in Operators, CheckClass(o) PROVE TypeOK'
  BY FinishType DEF CheckClass, AwaitChange, Abort, ErrorPolicy, Wrapped, Schedules, Goto, Phases, ApplyPhases, TypeOK, api, children, process

LEMMA ListRoutesType == ASSUME TypeOK, NEW o \in Operators, ListRoutes(o) PROVE TypeOK'
<1>1. [Blank EXCEPT !.rt = routes] \in Seen
  BY EmptyType DEF TypeOK, Seen
<1>2. seen' \in [Operators -> Seen]
  BY <1>1 DEF ListRoutes, TypeOK
<1> QED BY <1>2 DEF ListRoutes, Goto, Phases, ApplyPhases, TypeOK, api, children, process

LEMMA FetchNamespacesType == ASSUME TypeOK, NEW o \in Operators, FetchNamespaces(o) PROVE TypeOK'
<1>1. seen' \in [Operators -> Seen]
  BY DEF FetchNamespaces, Seen, TypeOK
<1>2. pc' \in [Operators -> Phases]
  BY DEF FetchNamespaces, Goto, Phases, ApplyPhases, TypeOK
<1> QED BY <1>1, <1>2 DEF FetchNamespaces, Goto, TypeOK, api, children, process

LEMMA ResolveEndpointsType == ASSUME TypeOK, NEW o \in Operators, ResolveEndpoints(o) PROVE TypeOK'
<1>1. seen' \in [Operators -> Seen]
  <2> DEFINE next == seen[o].done + 1
             ep == [seen[o].ep EXCEPT ![next] = eps]
  <2>1. seen[o] \in Seen /\ seen \in [Operators -> Seen]
    BY DEF TypeOK
  <2>2. next \in Nat /\ ep \in [Reading -> Nat]
    <3>1. seen[o].done \in Nat /\ seen[o].ep \in [Reading -> Nat] /\ eps \in Nat
      BY <2>1 DEF Seen, TypeOK
    <3>2. next \in Nat
      BY <3>1
    <3> HIDE DEF next
    <3> QED BY <3>1, <3>2
  <2>3. seen' = [seen EXCEPT ![o] = [@ EXCEPT !.ep = ep, !.done = next]]
    BY <2>1 DEF ResolveEndpoints, Seen
  <2> HIDE DEF next, ep
  <2>4. [seen[o] EXCEPT !.ep = ep, !.done = next] \in Seen
    BY <2>1, <2>2 DEF Seen
  <2> QED BY <2>1, <2>3, <2>4
<1>2. pc' \in [Operators -> Phases]
  BY DEF ResolveEndpoints, Goto, Phases, ApplyPhases, TypeOK
<1> QED BY <1>1, <1>2 DEF ResolveEndpoints, Goto, TypeOK, api, children, process

LEMMA ReadAddressType == ASSUME TypeOK, NEW o \in Operators, ReadAddress(o) PROVE TypeOK'
<1>1. seen' \in [Operators -> Seen]
  <2>1. service.lb \in BOOLEAN /\ seen[o] \in Seen /\ seen \in [Operators -> Seen]
    BY DEF Service, TypeOK
  <2>2. [seen[o] EXCEPT !.addr = service.lb] \in Seen
    BY <2>1 DEF Seen
  <2>3. \/ seen' = [seen EXCEPT ![o] = [@ EXCEPT !.addr = service.lb]]
        \/ seen' = seen
    BY DEF ReadAddress
  <2> QED BY <2>1, <2>2, <2>3
<1>2. pc' \in [Operators -> Phases]
  BY DEF ReadAddress, Goto, Phases, ApplyPhases, TypeOK
<1> QED BY <1>1, <1>2 DEF ReadAddress, Goto, TypeOK, api, children, process

LEMMA FailType == ASSUME TypeOK, NEW o \in Operators, Fail(o) PROVE TypeOK'
  BY FinishType DEF Fail, Abort, ErrorPolicy, Wrapped, Schedules, TypeOK, api, children, process

LEMMA CrashType == ASSUME TypeOK, NEW o \in Operators, Crash(o) PROVE TypeOK'
<1>1. cache' \in [Operators -> Object]
  BY EmptyType DEF Crash, TypeOK
<1>2. PICK q \in [Operators -> Schedules] : Finish(o, q, "idle")
  BY DEF Crash, TypeOK, Schedules
<1> QED BY <1>1, <1>2, FinishType DEF Crash, TypeOK, Schedules, api, children

LEMMA CreateGatewayType == ASSUME TypeOK, CreateGateway PROVE TypeOK'
<1>1. births + 1 \in Nat
  BY DEF TypeOK
<1>2. ASSUME NEW kind \in Kinds, NEW uid \in Nat
      PROVE  [Absent EXCEPT !.uid = uid, !.gen = 1, !.kind = kind] \in Object
  BY DEF Absent, Object, Kinds
<1>3. gw' \in Object
  BY <1>1, <1>2 DEF CreateGateway
<1> QED BY <1>1, <1>3 DEF CreateGateway, TypeOK, children, process

LEMMA EditSpecType == ASSUME TypeOK, EditSpec PROVE TypeOK'
<1>1. gw \in Object /\ gw.gen + 1 \in Nat
  BY DEF TypeOK, Object
<1>2. ASSUME NEW kind \in Kinds, NEW gen \in Nat
      PROVE  [gw EXCEPT !.gen = gen, !.kind = kind] \in Object
  BY <1>1 DEF Object
<1>3. gw' \in Object
  BY <1>1, <1>2 DEF EditSpec
<1> QED BY <1>3 DEF EditSpec, TypeOK, children, process

LEMMA DeleteGatewayType == ASSUME TypeOK, DeleteGateway PROVE TypeOK'
<1>1. gw' \in Object
  <2>1. gw' = Absent \/ gw' = [gw EXCEPT !.deleting = TRUE]
    BY DEF DeleteGateway
  <2>2. gw \in Object
    BY DEF TypeOK
  <2> QED BY <2>1, <2>2, EmptyType DEF Object
<1>2. status' \in Status
  BY EmptyType DEF DeleteGateway, TypeOK
<1> QED BY <1>1, <1>2 DEF DeleteGateway, TypeOK, children, process

LEMMA EditRoutesType == ASSUME TypeOK, EditRoutes PROVE TypeOK'
  BY DEF EditRoutes, Everyone, Schedules, TypeOK, api, children, process

LEMMA EditEndpointsType == ASSUME TypeOK, EditEndpoints PROVE TypeOK'
  BY DEF EditEndpoints, TypeOK, api, children, process

LEMMA MoveClassType == ASSUME TypeOK, MoveClass PROVE TypeOK'
  BY DEF MoveClass, TypeOK, api, children, process

LEMMA AssignLBType == ASSUME TypeOK, AssignLB PROVE TypeOK'
  BY DEF AssignLB, Everyone, Schedules, Service, TypeOK, api, children, process

LEMMA RemoveType == ASSUME TypeOK, NEW keep \in Nat, Remove(keep), faults' \in Nat PROVE TypeOK'
<1>1. configMap' \in Config /\ deployment' \in Config
  BY EmptyType DEF Remove, TypeOK
<1>2. service' \in Service
  BY EmptyType DEF Remove, TypeOK
<1>3. queue' \in [Operators -> Schedules]
  BY DEF Remove, Everyone, Schedules
<1> QED BY <1>1, <1>2, <1>3 DEF Remove, TypeOK, api

LEMMA CollectGarbageType == ASSUME TypeOK, CollectGarbage PROVE TypeOK'
  BY RemoveType DEF CollectGarbage, TypeOK, Object

LEMMA DeleteChildType == ASSUME TypeOK, DeleteChild PROVE TypeOK'
  BY RemoveType DEF DeleteChild, TypeOK

LEMMA TypeStep == TypeOK /\ [Next]_vars => TypeOK'
<1> SUFFICES ASSUME TypeOK, [Next]_vars PROVE TypeOK'
  OBVIOUS
<1>1. ASSUME NEW o \in Operators, Watch(o) \/ Operator(o) \/ Fail(o) \/ Crash(o)
      PROVE  TypeOK'
  BY <1>1, WatchType, StartType, AddFinalizerType, RemoveFinalizerType,
     CheckClassType, RejectType, ListRoutesType, FetchNamespacesType,
     ResolveEndpointsType, ApplyConfigMapType, ApplyDeploymentType,
     ApplyServiceType, ReadAddressType, PatchStatusType, FailType, CrashType
     DEF Operator
<1>2. CASE Environment
  BY <1>2, CreateGatewayType, EditSpecType, DeleteGatewayType, EditRoutesType,
     EditEndpointsType, MoveClassType, AssignLBType, CollectGarbageType,
     DeleteChildType DEF Environment
<1>3. CASE UNCHANGED vars
  BY <1>3 DEF vars, api, children, process, TypeOK
<1> QED BY <1>1, <1>2, <1>3 DEF Next

\* TypeOK of GatewayController holds in every state of every behaviour: what
\* the reconciler, the API server and the users write is always well formed.
THEOREM TypeCorrect == Spec => []TypeOK
  BY TypeInit, TypeStep, PTL DEF Spec

--------------------------------------------------------------------------------
(* Lifecycle.                                                              *)

\* The typing facts the arithmetic below needs.
LEMMA Numbers ==
    ASSUME TypeOK, NEW o \in Operators
    PROVE  /\ births \in Nat /\ gw.uid \in Nat /\ gw.gen \in Nat
           /\ cache[o].uid \in Nat /\ cache[o].gen \in Nat
           /\ snap[o].uid \in Nat /\ snap[o].gen \in Nat
  BY DEF TypeOK, Object

\* How a reconciliation that touches no Gateway may move.
Quiet(o) ==
    /\ UNCHANGED <<gw, births, cache>>
    /\ \/ pc' = [pc EXCEPT ![o] = "idle"]
          /\ \A r \in Operators \ {o} : snap'[r] = snap[r]
       \/ /\ pc[o] \in ApplyPhases /\ snap' = snap
          /\ \E phase \in ApplyPhases : pc' = [pc EXCEPT ![o] = phase]
       \/ UNCHANGED <<pc, snap>>

LEMMA LifecycleQuiet ==
    ASSUME TypeOK, Lifecycle, NEW o \in Operators, Quiet(o) PROVE Lifecycle'
<1>1. GatewayInv'
  BY DEF Lifecycle, GatewayInv, Quiet
<1>2. ASSUME NEW r \in Operators PROVE CacheInv(r)'
  BY DEF Lifecycle, CacheInv, Older, Held, Quiet
<1>3. ASSUME NEW r \in Operators PROVE SnapInv(r)'
  <2>1. SnapInv(r) /\ pc[r] \in Phases /\ pc \in [Operators -> Phases]
    BY DEF Lifecycle, TypeOK
  <2>2. CASE pc'[r] = "idle"
    BY <2>2 DEF SnapInv, ApplyPhases
  <2>3. CASE pc'[r] = pc[r] /\ snap'[r] = snap[r]
    BY <2>1, <2>3 DEF SnapInv, Quiet, Older, Held
  <2>4. CASE pc[r] \in ApplyPhases /\ pc'[r] \in ApplyPhases /\ snap'[r] = snap[r]
    BY <2>1, <2>4 DEF SnapInv, Quiet, Older, Held, ApplyPhases
  <2> QED BY <2>1, <2>2, <2>3, <2>4 DEF Quiet
<1> QED BY <1>1, <1>2, <1>3 DEF Lifecycle

LEMMA LifecycleInit == Init => Lifecycle
  BY DEF Init, Lifecycle, GatewayInv, CacheInv, SnapInv, Older, Held, Absent, ApplyPhases

LEMMA LifecycleWatch ==
    ASSUME TypeOK, Lifecycle, NEW o \in Operators, Watch(o) PROVE Lifecycle'
<1>1. GatewayInv'
  BY DEF Lifecycle, GatewayInv, Watch, api
<1> SUFFICES ASSUME NEW r \in Operators PROVE CacheInv(r)' /\ SnapInv(r)'
  BY <1>1 DEF Lifecycle
<1>2. cache'[r] = cache[r] \/ cache'[r] = gw
  BY DEF Watch, TypeOK
<1>3. UNCHANGED <<gw, births, pc, snap>>
  BY DEF Watch, api
<1>4. gw' = gw /\ births' = births /\ gw.uid \in Nat /\ gw.gen \in Nat /\ births \in Nat
  BY <1>3, Numbers
<1>5. CacheInv(r)'
  <2>1. CASE cache'[r] = cache[r]
    BY <1>3, <2>1 DEF Lifecycle, CacheInv, Older, Held
  <2>2. CASE cache'[r] = gw
    BY <1>3, <1>4, <2>2 DEF Lifecycle, GatewayInv, CacheInv, Older, Held
  <2> QED BY <1>2, <2>1, <2>2
<1>6. SnapInv(r)'
  BY <1>2, <1>3 DEF Lifecycle, SnapInv, Older, Held
<1> QED BY <1>5, <1>6

LEMMA LifecycleStart ==
    ASSUME TypeOK, Lifecycle, NEW o \in Operators, Start(o) PROVE Lifecycle'
<1>1. UNCHANGED <<gw, births, cache>>
  BY DEF Start, api
<1>2. GatewayInv' /\ \A r \in Operators : CacheInv(r)'
  BY <1>1 DEF Lifecycle, GatewayInv, CacheInv, Older, Held
<1> SUFFICES ASSUME NEW r \in Operators PROVE SnapInv(r)'
  BY <1>2 DEF Lifecycle
<1>3. CASE r # o
  BY <1>1, <1>3 DEF Start, TypeOK, Lifecycle, SnapInv, Older, Held
<1>4. CASE r = o
  <2>1. \/ pc'[o] = "idle"
        \/ pc'[o] = "class" /\ snap'[o] = cache[o] /\ Exists(cache[o])
           /\ cache[o].fin /\ ~cache[o].deleting
        \/ pc'[o] = "remove" /\ snap'[o] = cache[o] /\ Exists(cache[o])
           /\ cache[o].fin /\ cache[o].deleting
        \/ pc'[o] = "add" /\ snap'[o] = cache[o] /\ Exists(cache[o]) /\ ~cache[o].fin
    BY DEF Start, TypeOK
  <2>2. CacheInv(o) /\ cache'[o] = cache[o]
    BY <1>1 DEF Lifecycle
  <2> QED BY <1>1, <1>4, <2>1, <2>2, Numbers
             DEF SnapInv, CacheInv, Older, Held, Exists, ApplyPhases
<1> QED BY <1>3, <1>4

LEMMA LifecycleAddFinalizer ==
    ASSUME TypeOK, Lifecycle, NEW o \in Operators, AddFinalizer(o), SoleOperator
    PROVE  Lifecycle'
<1>1. UNCHANGED <<births, cache>> /\ pc'[o] = "idle"
  BY DEF AddFinalizer, Abort, AwaitChange, LostReply, Finish, TypeOK
<1>2. \/ gw' = gw
      \/ Exists(gw) /\ ~gw.fin /\ ~gw.deleting /\ gw' = [gw EXCEPT !.fin = TRUE]
  BY DEF AddFinalizer
<1>3. gw \in Object
  BY DEF TypeOK
<1>4. /\ gw'.uid = gw.uid /\ gw'.gen = gw.gen /\ gw'.kind = gw.kind
      /\ gw'.deleting = gw.deleting
      /\ gw.fin => gw'.fin
      /\ gw.uid = 0 => gw' = gw
  BY <1>2, <1>3 DEF Object, Exists
<1>5. GatewayInv'
  BY <1>1, <1>2, <1>4 DEF Lifecycle, GatewayInv
<1>6. ~gw.fin => ~cache[o].fin
  BY DEF AddFinalizer, Lifecycle, SnapInv
<1>7. CacheInv(o)'
  BY <1>1, <1>2, <1>4, <1>6 DEF Lifecycle, CacheInv, Older, Held
<1>8. SnapInv(o)'
  BY <1>1 DEF SnapInv, ApplyPhases
<1> QED BY <1>5, <1>7, <1>8 DEF SoleOperator, Lifecycle

LEMMA LifecycleRemoveFinalizer ==
    ASSUME TypeOK, Lifecycle, NEW o \in Operators, RemoveFinalizer(o), SoleOperator
    PROVE  Lifecycle'
<1>1. UNCHANGED <<births, cache>> /\ pc'[o] = "idle"
  BY DEF RemoveFinalizer, Abort, AwaitChange, LostReply, Finish, TypeOK
<1>2. pc[o] = "remove" /\ SnapInv(o) /\ CacheInv(o) /\ GatewayInv
  BY DEF RemoveFinalizer, Lifecycle
<1>3. CASE gw' = gw
  BY <1>1, <1>2, <1>3, LifecycleQuiet DEF Quiet, RemoveFinalizer, Abort, AwaitChange,
     LostReply, Finish, TypeOK
<1>4. CASE Exists(gw) /\ gw.fin
  <2>1. gw.uid = snap[o].uid /\ gw.deleting /\ gw' = Absent
    BY <1>2, <1>4 DEF SnapInv, Older, RemoveFinalizer
  <2>2. ~(cache[o].uid > 0 /\ cache[o].fin /\ ~cache[o].deleting)
    BY <1>2, <2>1 DEF SnapInv, CacheInv, Older, Held
  <2>3. GatewayInv'
    BY <1>1, <2>1 DEF GatewayInv, Absent
  <2>4. CacheInv(o)'
    BY <1>1, <1>2, <2>1, <2>2, Numbers DEF CacheInv, Older, Held, Absent
  <2>5. SnapInv(o)'
    BY <1>1 DEF SnapInv, ApplyPhases
  <2> QED BY <2>3, <2>4, <2>5 DEF SoleOperator, Lifecycle
<1> QED BY <1>3, <1>4 DEF RemoveFinalizer

LEMMA LifecycleCrash ==
    ASSUME TypeOK, Lifecycle, NEW o \in Operators, Crash(o), SoleOperator
    PROVE  Lifecycle'
<1>1. UNCHANGED <<gw, births>> /\ pc'[o] = "idle" /\ cache'[o] = Absent
  BY DEF Crash, Finish, TypeOK, api
<1>2. GatewayInv'
  BY <1>1 DEF Lifecycle, GatewayInv
<1>3. CacheInv(o)'
  BY <1>1, Numbers DEF Lifecycle, GatewayInv, CacheInv, Older, Held, Absent
<1>4. SnapInv(o)'
  BY <1>1 DEF SnapInv, ApplyPhases
<1> QED BY <1>2, <1>3, <1>4 DEF SoleOperator, Lifecycle

LEMMA LifecycleCreateGateway ==
    ASSUME TypeOK, Lifecycle, CreateGateway PROVE Lifecycle'
<1>1. UNCHANGED <<cache, pc, snap>> /\ births' = births + 1 /\ gw = Absent
  BY Numbers DEF CreateGateway, process, Lifecycle, GatewayInv, Exists, TypeOK, Object
<1>2. gw'.uid = births + 1 /\ gw'.gen = 1 /\ ~gw'.deleting /\ ~gw'.fin
  BY DEF CreateGateway, Absent
<1>3. GatewayInv'
  BY <1>1, <1>2 DEF GatewayInv, TypeOK
<1> SUFFICES ASSUME NEW r \in Operators PROVE CacheInv(r)' /\ SnapInv(r)'
  BY <1>3 DEF Lifecycle
<1>4. births \in Nat /\ CacheInv(r) /\ SnapInv(r) /\ ~gw.fin /\ gw.uid = 0
  BY <1>1 DEF TypeOK, Lifecycle, Absent
<1>5. CacheInv(r)'
  BY <1>1, <1>2, <1>4, Numbers DEF CacheInv, Older, Held
<1>6. SnapInv(r)'
  BY <1>1, <1>2, <1>4, Numbers DEF SnapInv, Older, Held
<1> QED BY <1>5, <1>6

LEMMA LifecycleEditSpec ==
    ASSUME TypeOK, Lifecycle, EditSpec PROVE Lifecycle'
<1>1. UNCHANGED <<births, cache, pc, snap>>
  BY DEF EditSpec, process
<1>2. /\ gw'.uid = gw.uid /\ gw'.gen = gw.gen + 1 /\ gw.uid > 0
      /\ gw'.deleting = gw.deleting /\ gw'.fin = gw.fin
  BY DEF EditSpec, TypeOK, Object, Exists
<1>3. GatewayInv'
  BY <1>1, <1>2 DEF Lifecycle, GatewayInv, TypeOK, Object
<1> SUFFICES ASSUME NEW r \in Operators PROVE CacheInv(r)' /\ SnapInv(r)'
  BY <1>3 DEF Lifecycle
<1>4. CacheInv(r)'
  BY <1>1, <1>2, Numbers DEF Lifecycle, CacheInv, Older, Held
<1>5. SnapInv(r)'
  BY <1>1, <1>2, Numbers DEF Lifecycle, SnapInv, Older, Held
<1> QED BY <1>4, <1>5

LEMMA LifecycleDeleteGateway ==
    ASSUME TypeOK, Lifecycle, DeleteGateway PROVE Lifecycle'
<1>1. UNCHANGED <<births, cache, pc, snap>>
  BY DEF DeleteGateway, process
<1>2. \/ ~gw.fin /\ ~gw.deleting /\ gw' = Absent
      \/ gw.fin /\ gw' = [gw EXCEPT !.deleting = TRUE]
  BY DEF DeleteGateway
<1>3. GatewayInv'
  BY <1>1, <1>2 DEF Lifecycle, GatewayInv, Absent, TypeOK, Object, DeleteGateway, Exists
<1> SUFFICES ASSUME NEW r \in Operators PROVE CacheInv(r)' /\ SnapInv(r)'
  BY <1>3 DEF Lifecycle
<1>4. CacheInv(r) /\ SnapInv(r) /\ gw \in Object
  BY DEF Lifecycle, TypeOK
<1>5. CASE ~gw.fin /\ gw' = Absent
  BY <1>1, <1>4, <1>5, Numbers DEF CacheInv, SnapInv, Older, Held, Absent
<1>6. CASE gw.fin /\ gw' = [gw EXCEPT !.deleting = TRUE]
  BY <1>1, <1>4, <1>6, Numbers DEF CacheInv, SnapInv, Older, Held, Object
<1> QED BY <1>2, <1>5, <1>6

--------------------------------------------------------------------------------

\* The steps of a reconciliation between its finalizer steps are quiet.
LEMMA QuietSteps ==
    ASSUME TypeOK, NEW o \in Operators,
           \/ CheckClass(o) \/ Reject(o) \/ ListRoutes(o) \/ FetchNamespaces(o)
           \/ ResolveEndpoints(o) \/ ApplyConfigMap(o) \/ ApplyDeployment(o)
           \/ ApplyService(o) \/ ReadAddress(o) \/ PatchStatus(o) \/ Fail(o)
    PROVE  Quiet(o)
<1>1. ASSUME NEW q, NEW again, Finish(o, q, again), UNCHANGED <<gw, births, cache>>
      PROVE  Quiet(o)
  BY <1>1 DEF Finish, Quiet, TypeOK
<1>2. ASSUME NEW phase \in ApplyPhases, Goto(o, phase), pc[o] \in ApplyPhases,
             UNCHANGED <<gw, births, cache>>
      PROVE  Quiet(o)
  BY <1>2 DEF Goto, Quiet
<1>3. CASE CheckClass(o)
  BY <1>1, <1>2, <1>3 DEF CheckClass, AwaitChange, Abort, ApplyPhases, api
<1>4. CASE Reject(o) \/ PatchStatus(o)
  <2>1. UNCHANGED <<gw, births, cache>>
    BY <1>4 DEF Reject, PatchStatus
  <2>2. \E q, again : Finish(o, q, again)
    BY <1>4 DEF Reject, PatchStatus, ApplyStatus, LostReply, Abort
  <2> QED BY <1>1, <2>1, <2>2
<1>5. CASE ListRoutes(o) \/ FetchNamespaces(o) \/ ResolveEndpoints(o) \/ ReadAddress(o)
  BY <1>2, <1>5 DEF ListRoutes, FetchNamespaces, ResolveEndpoints, ReadAddress,
     ApplyPhases, api
<1>6. CASE ApplyConfigMap(o) \/ ApplyDeployment(o) \/ ApplyService(o)
  <2>1. UNCHANGED <<gw, births, cache>> /\ pc[o] \in ApplyPhases
    BY <1>6 DEF ApplyConfigMap, ApplyDeployment, ApplyService, api, ApplyPhases
  <2>2. PICK changed \in BOOLEAN, next \in ApplyPhases : ChildApplied(o, changed, next)
    BY <1>6 DEF ApplyConfigMap, ApplyDeployment, ApplyService, ApplyPhases
  <2> QED BY <1>1, <1>2, <2>1, <2>2 DEF ChildApplied, LostReply, Abort
<1>7. CASE Fail(o)
  BY <1>1, <1>7 DEF Fail, Abort, api
<1> QED BY <1>3, <1>4, <1>5, <1>6, <1>7

LEMMA LifecycleStep ==
    ASSUME TypeOK, Lifecycle, SoleOperator, [Next]_vars PROVE Lifecycle'
<1>1. ASSUME NEW o \in Operators, Watch(o) \/ Operator(o) \/ Fail(o) \/ Crash(o)
      PROVE  Lifecycle'
  BY <1>1, QuietSteps, LifecycleQuiet, LifecycleWatch, LifecycleStart,
     LifecycleAddFinalizer, LifecycleRemoveFinalizer, LifecycleCrash DEF Operator
<1>2. CASE EditRoutes \/ EditEndpoints \/ MoveClass \/ AssignLB \/ CollectGarbage
           \/ DeleteChild \/ UNCHANGED vars
  <2>1. UNCHANGED <<gw, births, cache, pc, snap>>
    BY <1>2 DEF EditRoutes, EditEndpoints, MoveClass, AssignLB, CollectGarbage,
       DeleteChild, Remove, vars, api, process
  <2> QED BY <2>1 DEF Lifecycle, GatewayInv, CacheInv, SnapInv, Older, Held
<1>3. CASE CreateGateway \/ EditSpec \/ DeleteGateway
  BY <1>3, LifecycleCreateGateway, LifecycleEditSpec, LifecycleDeleteGateway
<1> QED BY <1>1, <1>2, <1>3 DEF Next, Environment

\* FinalizerGuards: whatever is lost, retried or crashes, one process that
\* runs apply() does so for the incarnation its finalizer holds in place.
THEOREM GuardedByFinalizer == SoleOperator => (Spec => []FinalizerGuards)
<1> SUFFICES ASSUME SoleOperator PROVE Spec => []FinalizerGuards
  OBVIOUS
<1>1. Lifecycle => FinalizerGuards
  <2> SUFFICES ASSUME Lifecycle, NEW o \in Operators, pc[o] \in ApplyPhases
               PROVE  gw.fin /\ gw.uid = snap[o].uid
    BY DEF FinalizerGuards
  <2> QED BY DEF Lifecycle, SnapInv, Held, ApplyPhases
<1>2. Init => TypeOK /\ Lifecycle
  BY TypeInit, LifecycleInit
<1>3. (TypeOK /\ Lifecycle) /\ [Next]_vars => (TypeOK /\ Lifecycle)'
  BY TypeStep, LifecycleStep
<1> QED BY <1>1, <1>2, <1>3, PTL DEF Spec

--------------------------------------------------------------------------------
(* Writes.                                                                 *)

LEMMA WrittenNumbers ==
    ASSUME TypeOK
    PROVE  /\ configMap.uid \in Nat /\ configMap.gen \in Nat
           /\ deployment.uid \in Nat /\ deployment.gen \in Nat
           /\ service.uid \in Nat /\ service.gen \in Nat
           /\ status.uid \in Nat /\ status.gen \in Nat
  BY DEF TypeOK, Config, Service, Status

LEMMA WritesInit == Init => Writes
  BY DEF Init, Writes, ObjectsInv, CopiesInv, Bounds, ChildBound, StatusBound,
     Absent, NoConfig, NoService, NoStatus, ApplyPhases

\* Steps that write nothing.
LEMMA WritesStutter ==
    ASSUME Writes, UNCHANGED <<gw, births, status, children, cache, pc, snap>>
    PROVE  Writes'
  BY DEF Writes, ObjectsInv, CopiesInv, Bounds, ChildBound, StatusBound, children

\* Steps that end a reconciliation without a write.
LEMMA WritesEnd ==
    ASSUME TypeOK, Writes, NEW o \in Operators, pc'[o] = "idle", SoleOperator,
           UNCHANGED <<gw, births, status, children, cache>>
    PROVE  Writes'
<1>1. ObjectsInv'
  BY DEF Writes, ObjectsInv, Bounds, ChildBound, StatusBound, children
<1>2. CopiesInv(o)'
  BY DEF Writes, CopiesInv, Bounds, ChildBound, StatusBound, children, ApplyPhases
<1> QED BY <1>1, <1>2 DEF Writes, SoleOperator

\* Reads: a phase follows only where the kind allows it.
LEMMA WritesRead ==
    ASSUME TypeOK, Writes, NEW o \in Operators, SoleOperator,
           \/ CheckClass(o) \/ ListRoutes(o) \/ FetchNamespaces(o)
           \/ ResolveEndpoints(o) \/ ReadAddress(o) \/ Fail(o)
    PROVE  Writes'
<1>1. UNCHANGED <<gw, births, status, children, cache>>
  BY DEF CheckClass, ListRoutes, FetchNamespaces, ResolveEndpoints, ReadAddress,
     Fail, api
<1>2. CASE pc'[o] = "idle"
  BY <1>1, <1>2, WritesEnd
<1>3. ASSUME snap' = snap, pc[o] # "idle",
             pc'[o] = "reject" => snap[o].kind = "params",
             pc'[o] \in ApplyPhases \ {"class", "reject"} => snap[o].kind # "params",
             pc'[o] \in {"endpoints", "configMap", "deployment", "service"} =>
                 snap[o].kind = "served"
      PROVE  Writes'
  <2>1. ObjectsInv'
    BY <1>1 DEF Writes, ObjectsInv, Bounds, ChildBound, StatusBound, children
  <2>2. CopiesInv(o)'
    BY <1>1, <1>3 DEF Writes, CopiesInv, Bounds, ChildBound, StatusBound, children
  <2> QED BY <2>1, <2>2 DEF Writes, SoleOperator
<1>4. CopiesInv(o) /\ pc \in [Operators -> Phases]
  BY DEF Writes, TypeOK
<1>5. CASE CheckClass(o)
  BY <1>2, <1>3, <1>4, <1>5 DEF CheckClass, Goto, AwaitChange, Abort, Finish, ApplyPhases
<1>6. CASE ListRoutes(o)
  BY <1>3, <1>4, <1>6 DEF ListRoutes, Goto, CopiesInv, ApplyPhases
<1>7. CASE FetchNamespaces(o)
  BY <1>3, <1>4, <1>7 DEF FetchNamespaces, Goto, CopiesInv, ApplyPhases
<1>8. CASE ResolveEndpoints(o) \/ ReadAddress(o)
  BY <1>3, <1>4, <1>8 DEF ResolveEndpoints, ReadAddress, Goto, CopiesInv, ApplyPhases
<1>9. CASE Fail(o)
  BY <1>2, <1>4, <1>9 DEF Fail, Abort, Finish
<1> QED BY <1>5, <1>6, <1>7, <1>8, <1>9

\* A child is written with the incarnation and generation of the snapshot.
LEMMA WritesChild ==
    ASSUME TypeOK, Lifecycle, Writes, NEW o \in Operators, SoleOperator,
           ApplyConfigMap(o) \/ ApplyDeployment(o) \/ ApplyService(o)
    PROVE  Writes'
<1>1. UNCHANGED <<gw, births, status, cache>> /\ pc[o] \in ApplyPhases
  BY DEF ApplyConfigMap, ApplyDeployment, ApplyService, api, ApplyPhases
<1>2. /\ SnapInv(o) /\ pc[o] # "idle" /\ ObjectsInv /\ CopiesInv(o)
      /\ snap[o].kind = "served" /\ pc \in [Operators -> Phases]
  BY DEF Lifecycle, Writes, CopiesInv, ApplyConfigMap, ApplyDeployment, ApplyService,
     TypeOK
<1>3. /\ \/ configMap' = configMap
         \/ configMap'.uid = snap[o].uid /\ configMap'.gen = snap[o].gen
      /\ \/ deployment' = deployment
         \/ deployment'.uid = snap[o].uid /\ deployment'.gen = snap[o].gen
      /\ \/ service' = service
         \/ service'.uid = snap[o].uid /\ service'.gen = snap[o].gen
  BY DEF ApplyConfigMap, ApplyDeployment, ApplyService, Generated
<1>4. \/ pc'[o] = "idle"
      \/ pc'[o] \in {"deployment", "service", "address"} /\ snap' = snap
  BY <1>2 DEF ApplyConfigMap, ApplyDeployment, ApplyService, ChildApplied, LostReply,
     Abort, Finish, Goto
<1>5. ObjectsInv'
  BY <1>1, <1>2, <1>3, Numbers DEF ObjectsInv, SnapInv, Bounds, ChildBound,
     StatusBound, Older
<1>6. CopiesInv(o)'
  <2>1. Bounds(cache[o])'
    BY <1>1, <1>2, <1>3, Numbers DEF CopiesInv, SnapInv, Bounds, ChildBound,
       StatusBound, Older
  <2>2. CASE pc'[o] = "idle"
    BY <2>1, <2>2 DEF CopiesInv, ApplyPhases
  <2>3. CASE pc'[o] \in {"deployment", "service", "address"} /\ snap' = snap
    <3>1. Bounds(snap[o])'
      BY <1>1, <1>2, <1>3, <2>3, Numbers DEF CopiesInv, Bounds, ChildBound, StatusBound
    <3> QED BY <1>2, <2>1, <2>3, <3>1 DEF CopiesInv
  <2> QED BY <1>4, <2>2, <2>3
<1> QED BY <1>5, <1>6 DEF Writes, SoleOperator

\* A status speaks of the snapshot, with the verdict its kind calls for.
LEMMA WritesStatus ==
    ASSUME TypeOK, Lifecycle, Writes, NEW o \in Operators, SoleOperator,
           Reject(o) \/ PatchStatus(o)
    PROVE  Writes'
<1>1. UNCHANGED <<gw, births, children, cache>> /\ pc'[o] = "idle"
  BY DEF Reject, PatchStatus, ApplyStatus, LostReply, Abort, Finish, TypeOK
<1>2. /\ SnapInv(o) /\ pc[o] \in ApplyPhases /\ ObjectsInv /\ CopiesInv(o)
      /\ snap[o].kind \in Kinds
  BY DEF Lifecycle, Writes, Reject, PatchStatus, ApplyPhases, TypeOK, Object
<1>3. \/ status' = status
      \/ /\ status'.uid = snap[o].uid /\ status'.gen = snap[o].gen
         /\ status'.verdict = VerdictOn(snap[o].kind)
  <2>1. CASE Reject(o)
    BY <1>2, <2>1 DEF Reject, ApplyStatus, NoStatus, CopiesInv, VerdictOn
  <2>2. CASE PatchStatus(o)
    BY <1>2, <2>2 DEF PatchStatus, StatusOf, ApplyStatus, CopiesInv, VerdictOn, Kinds, ApplyPhases
  <2> QED BY <2>1, <2>2
<1>4. CASE status' = status
  BY <1>1, <1>4, WritesEnd
<1>5. CASE /\ status'.uid = snap[o].uid /\ status'.gen = snap[o].gen
           /\ status'.verdict = VerdictOn(snap[o].kind)
  <2>1. snap[o].uid > 0 /\ snap[o].uid = gw.uid
    BY <1>2 DEF SnapInv, Held, ApplyPhases
  <2>2. ObjectsInv'
    BY <1>1, <1>2, <1>5, <2>1, Numbers DEF ObjectsInv, SnapInv, Bounds, ChildBound,
       StatusBound, Older, children, ApplyPhases
  <2>3. CopiesInv(o)'
    BY <1>1, <1>2, <1>5, <2>1, Numbers DEF CopiesInv, SnapInv, Bounds, ChildBound,
       StatusBound, Older, children, ApplyPhases
  <2> QED BY <2>2, <2>3 DEF Writes, SoleOperator
<1> QED BY <1>3, <1>4, <1>5

LEMMA WritesWatch ==
    ASSUME TypeOK, Writes, NEW o \in Operators, Watch(o) PROVE Writes'
<1>1. UNCHANGED <<gw, births, status, children, pc, snap>>
  BY DEF Watch, api
<1>2. ObjectsInv'
  BY <1>1 DEF Writes, ObjectsInv, Bounds, ChildBound, StatusBound, children
<1> SUFFICES ASSUME NEW r \in Operators PROVE CopiesInv(r)'
  BY <1>2 DEF Writes
<1>3. cache'[r] = cache[r] \/ cache'[r] = gw
  BY DEF Watch, TypeOK
<1> QED BY <1>1, <1>3 DEF Writes, ObjectsInv, CopiesInv, Bounds, ChildBound,
           StatusBound, children

LEMMA WritesStart ==
    ASSUME TypeOK, Writes, NEW o \in Operators, Start(o) PROVE Writes'
<1>1. UNCHANGED <<gw, births, status, children, cache>>
  BY DEF Start, api
<1>2. ObjectsInv'
  BY <1>1 DEF Writes, ObjectsInv, Bounds, ChildBound, StatusBound, children
<1> SUFFICES ASSUME NEW r \in Operators PROVE CopiesInv(r)'
  BY <1>2 DEF Writes
<1>3. \/ pc'[r] = pc[r] /\ snap'[r] = snap[r]
      \/ pc'[r] = "idle"
      \/ pc'[r] \in {"class", "remove", "add"} /\ snap'[r] = cache[r]
  BY DEF Start, TypeOK
<1> QED BY <1>1, <1>3 DEF Writes, CopiesInv, Bounds, ChildBound, StatusBound,
           children, ApplyPhases

\* The bounds do not tell apart states with the same uid, generation and kind.
LEMMA WritesAddFinalizer ==
    ASSUME TypeOK, Writes, NEW o \in Operators, AddFinalizer(o), SoleOperator
    PROVE  Writes'
<1>1. UNCHANGED <<births, status, children, cache>> /\ pc'[o] = "idle"
  BY DEF AddFinalizer, Abort, AwaitChange, LostReply, Finish, TypeOK
<1>2. gw' = gw \/ gw' = [gw EXCEPT !.fin = TRUE]
  BY DEF AddFinalizer
<1>3. gw'.uid = gw.uid /\ gw'.gen = gw.gen /\ gw'.kind = gw.kind
  BY <1>2 DEF TypeOK, Object
<1>4. ObjectsInv'
  BY <1>1, <1>3 DEF Writes, ObjectsInv, Bounds, ChildBound, StatusBound, children
<1>5. CopiesInv(o)'
  BY <1>1 DEF Writes, CopiesInv, Bounds, ChildBound, StatusBound, children, ApplyPhases
<1> QED BY <1>4, <1>5 DEF Writes, SoleOperator

\* Without a Gateway there is no status, and nothing is written for uid 0.
LEMMA WritesVanish ==
    ASSUME TypeOK, Lifecycle, Writes, gw' = Absent, status' = NoStatus,
           UNCHANGED <<births, children, cache>>,
           \A r \in Operators : pc'[r] = "idle" \/ (pc'[r] = pc[r] /\ snap'[r] = snap[r])
    PROVE  Writes'
<1>1. ObjectsInv'
  BY WrittenNumbers DEF Writes, ObjectsInv, Bounds, ChildBound, StatusBound, children,
     Absent, NoStatus, NoConfig, NoService
<1> SUFFICES ASSUME NEW r \in Operators PROVE CopiesInv(r)'
  BY <1>1 DEF Writes
<1>2. cache[r].uid = 0 => cache[r] = Absent
  BY DEF Lifecycle, CacheInv
<1>3. Bounds(cache[r])'
  BY <1>2, Numbers DEF Writes, CopiesInv, Bounds, ChildBound, StatusBound, children,
     Absent, NoStatus
<1>4. pc'[r] # "idle" => Bounds(snap[r])'
  BY Numbers DEF Lifecycle, SnapInv, Writes, CopiesInv, Bounds, ChildBound,
     StatusBound, children, NoStatus
<1> QED BY <1>3, <1>4 DEF Writes, CopiesInv, ApplyPhases

LEMMA WritesRemoveFinalizer ==
    ASSUME TypeOK, Lifecycle, Writes, NEW o \in Operators, RemoveFinalizer(o), SoleOperator
    PROVE  Writes'
<1>1. UNCHANGED <<births, children, cache>> /\ pc'[o] = "idle"
  BY DEF RemoveFinalizer, Abort, AwaitChange, LostReply, Finish, TypeOK
<1>2. CASE gw' = gw /\ status' = status
  BY <1>1, <1>2, WritesEnd
<1>3. CASE Exists(gw) /\ gw.fin
  <2>1. gw.deleting
    BY <1>3 DEF RemoveFinalizer, Lifecycle, SnapInv, Older
  <2>2. gw' = Absent /\ status' = NoStatus
    BY <1>3, <2>1 DEF RemoveFinalizer
  <2>3. \A r \in Operators : pc'[r] = "idle" \/ (pc'[r] = pc[r] /\ snap'[r] = snap[r])
    BY <1>1 DEF SoleOperator
  <2> QED BY <1>1, <2>2, <2>3, WritesVanish
<1> QED BY <1>2, <1>3 DEF RemoveFinalizer

LEMMA WritesCrash ==
    ASSUME TypeOK, Writes, NEW o \in Operators, Crash(o), SoleOperator PROVE Writes'
<1>1. UNCHANGED <<gw, births, status, children>> /\ pc'[o] = "idle" /\ cache'[o] = Absent
  BY DEF Crash, Finish, TypeOK, api
<1>2. ObjectsInv'
  BY <1>1 DEF Writes, ObjectsInv, Bounds, ChildBound, StatusBound, children
<1>3. CopiesInv(o)'
  BY <1>1 DEF Writes, ObjectsInv, CopiesInv, Bounds, ChildBound, StatusBound, children,
     ApplyPhases, Absent, NoStatus, NoConfig, NoService
<1> QED BY <1>2, <1>3 DEF Writes, SoleOperator

LEMMA WritesCreateGateway ==
    ASSUME TypeOK, Lifecycle, Writes, CreateGateway PROVE Writes'
<1>1. UNCHANGED <<status, children, process>> /\ births' = births + 1 /\ gw.uid = 0
  BY Numbers DEF CreateGateway, Exists, TypeOK, Object
<1>2. gw'.uid = births + 1 /\ gw'.gen = 1
  BY DEF CreateGateway, Absent
<1>3. status = NoStatus
  BY <1>1 DEF Writes, ObjectsInv
<1>4. ObjectsInv'
  BY <1>1, <1>2, <1>3, WrittenNumbers DEF Writes, ObjectsInv, Bounds, ChildBound,
     StatusBound, children, TypeOK, NoStatus
<1>5. ASSUME NEW r \in Operators PROVE CopiesInv(r)'
  BY <1>1 DEF Writes, CopiesInv, Bounds, ChildBound, StatusBound, children, process
<1> QED BY <1>4, <1>5 DEF Writes

LEMMA WritesEditSpec ==
    ASSUME TypeOK, Lifecycle, Writes, EditSpec PROVE Writes'
<1>1. UNCHANGED <<births, status, children, process>>
  BY DEF EditSpec
<1>2. gw'.uid = gw.uid /\ gw'.gen = gw.gen + 1 /\ gw.uid > 0
  BY DEF EditSpec, TypeOK, Object, Exists
<1>3. gw.gen \in Nat /\ gw.uid \in Nat
  BY DEF TypeOK, Object
<1>4. ObjectsInv'
  BY <1>1, <1>2, <1>3, WrittenNumbers DEF Writes, ObjectsInv, Bounds, ChildBound,
     StatusBound, children
<1>5. ASSUME NEW r \in Operators PROVE CopiesInv(r)'
  BY <1>1 DEF Writes, CopiesInv, Bounds, ChildBound, StatusBound, children, process
<1> QED BY <1>4, <1>5 DEF Writes

LEMMA WritesDeleteGateway ==
    ASSUME TypeOK, Lifecycle, Writes, DeleteGateway PROVE Writes'
<1>1. UNCHANGED <<births, children, process>>
  BY DEF DeleteGateway
<1>2. CASE gw' = Absent /\ status' = NoStatus
  BY <1>1, <1>2, WritesVanish DEF process
<1>3. CASE gw' = [gw EXCEPT !.deleting = TRUE] /\ status' = status
  <2>1. gw'.uid = gw.uid /\ gw'.gen = gw.gen /\ gw'.kind = gw.kind
    BY <1>3 DEF TypeOK, Object
  <2>2. ObjectsInv'
    BY <1>1, <1>3, <2>1 DEF Writes, ObjectsInv, Bounds, ChildBound, StatusBound, children
  <2>3. ASSUME NEW r \in Operators PROVE CopiesInv(r)'
    BY <1>1, <1>3 DEF Writes, CopiesInv, Bounds, ChildBound, StatusBound, children, process
  <2> QED BY <2>2, <2>3 DEF Writes
<1> QED BY <1>2, <1>3 DEF DeleteGateway

\* A child that is gone, or whose address changed, is bounded as before.
LEMMA WritesChildGone ==
    ASSUME TypeOK, Lifecycle, Writes, UNCHANGED <<gw, births, status, cache, pc, snap>>,
           configMap' \in {configMap, NoConfig}, deployment' \in {deployment, NoConfig},
           \/ service' = NoService \/ service' = service
           \/ service.uid > 0 /\ service'.uid = service.uid /\ service'.gen = service.gen
    PROVE  Writes'
<1>1. ObjectsInv'
  BY WrittenNumbers DEF Writes, ObjectsInv, Bounds, ChildBound, StatusBound, TypeOK,
     Object, NoConfig, NoService
<1>2. ASSUME NEW r \in Operators PROVE CopiesInv(r)'
  BY WrittenNumbers, Numbers DEF Writes, CopiesInv, Bounds, ChildBound, StatusBound,
     NoConfig, NoService
<1> QED BY <1>1, <1>2 DEF Writes

LEMMA WritesStep ==
    ASSUME TypeOK, Lifecycle, Writes, SoleOperator, [Next]_vars PROVE Writes'
<1>1. ASSUME NEW o \in Operators, Watch(o) \/ Operator(o) \/ Fail(o) \/ Crash(o)
      PROVE  Writes'
  BY <1>1, WritesWatch, WritesStart, WritesAddFinalizer, WritesRemoveFinalizer,
     WritesRead, WritesChild, WritesStatus, WritesCrash DEF Operator
<1>2. CASE EditRoutes \/ EditEndpoints \/ MoveClass \/ UNCHANGED vars
  BY <1>2, WritesStutter DEF EditRoutes, EditEndpoints, MoveClass, vars, api, process,
     children
<1>3. CASE AssignLB
  BY <1>3, WritesChildGone DEF AssignLB, api, Exists, TypeOK, Service
<1>4. CASE CollectGarbage \/ DeleteChild
  BY <1>4, WritesChildGone DEF CollectGarbage, DeleteChild, Remove, api
<1>5. CASE CreateGateway \/ EditSpec \/ DeleteGateway
  BY <1>5, WritesCreateGateway, WritesEditSpec, WritesDeleteGateway
<1> QED BY <1>1, <1>2, <1>3, <1>4, <1>5 DEF Next, Environment
================================================================================
