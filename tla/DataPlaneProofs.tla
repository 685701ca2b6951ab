--------------------------- MODULE DataPlaneProofs --------------------------
(***************************************************************************)
(* Proofs about the data plane, for every set of Gateways, Secrets and     *)
(* ports and all bounds: it is well typed, a rollout never takes the last  *)
(* ready pod away, and the ConfigMap, the hash and the Service follow each *)
(* other in the order in which they are applied.                           *)
(***************************************************************************)
EXTENDS DataPlane, FiniteSetTheorems, TLAPS

LEMMA Sequel ==
  /\ Order[1] = "configmap"
  /\ After("configmap") = "deployment" /\ After("deployment") = "service"
  /\ After("service") = "idle"
  BY DEF Order, After

\* A reconciliation that has begun works on a Gateway there was.
Snapped == pc # "idle" => snap \in Configs

Typed == TypeOK /\ Snapped

-----------------------------------------------------------------------------
LEMMA ConfigFields ==
  ASSUME NEW c \in Configs
  PROVE  /\ c.gen \in 1..MaxGeneration /\ c.ports \in {s.ports : s \in GatewaySpecs}
         /\ DeploymentOf(c) \in Applied /\ DeploymentOf(c).gen = c.gen
         /\ DeploymentOf(c).template = PodTemplate(c) /\ PodTemplate(c) \in Templates
<1>1. c.gen \in 1..MaxGeneration /\ c.ports \in {s.ports : s \in GatewaySpecs}
  BY DEF Configs, Written
<1> QED BY <1>1 DEF DeploymentOf, Applied, Templates

LEMMA TypedInit == Init => Typed
<1> SUFFICES ASSUME Init PROVE Typed
  OBVIOUS
<1>1. gw \in Configs
  <2>1. 1 \in 1..MaxGeneration
    BY BoundsAssumption
  <2> QED BY <2>1 DEF Init, Configs
<1>2. DOMAIN pods \subseteq Templates /\ pods \in [DOMAIN pods -> Pods]
  BY DEF Init
<1>3. secretChanges \in 0..MaxSecretChanges /\ faults \in 0..MaxFaults
  BY BoundsAssumption DEF Init
<1> QED BY <1>1, <1>2, <1>3 DEF Init, Typed, TypeOK, Snapped

LEMMA LostType ==
  ASSUME Typed, Lost PROVE faults' \in 0..MaxFaults /\ pc' = "idle"
  BY BoundsAssumption DEF Typed, TypeOK, Lost

LEMMA OperatorType == ASSUME Typed, Operator PROVE Typed'
<1> USE DEF Typed, TypeOK, Snapped
<1>1. CASE Start
  BY <1>1, Sequel DEF Start, env
<1>2. CASE ApplyConfigMap
  <2>1. snap \in Configs /\ configMap' \in {configMap, snap}
    BY <1>2 DEF ApplyConfigMap
  <2>2. faults' \in 0..MaxFaults /\ pc' \in {"idle", "deployment"}
    BY <1>2, Sequel, LostType DEF ApplyConfigMap
  <2> QED BY <1>2, <2>1, <2>2 DEF ApplyConfigMap, env
<1>3. CASE ApplyDeployment
  <2>1. snap \in Configs /\ deployment' \in {deployment, DeploymentOf(snap)}
    BY <1>3 DEF ApplyDeployment
  <2>2. deployment' \in Applied \cup {None}
    BY <2>1, ConfigFields
  <2>3. faults' \in 0..MaxFaults /\ pc' \in {"idle", "service"}
    BY <1>3, Sequel, LostType DEF ApplyDeployment
  <2> QED BY <1>3, <2>1, <2>2, <2>3 DEF ApplyDeployment, env
<1>4. CASE ApplyService
  <2>1. snap \in Configs /\ service' \in {service, [gen |-> snap.gen, ports |-> snap.ports]}
    BY <1>4 DEF ApplyService
  <2>2. [gen |-> snap.gen, ports |-> snap.ports]
          \in [gen : 1..MaxGeneration, ports : {s.ports : s \in GatewaySpecs}]
    BY <2>1, ConfigFields
  <2>3. faults' \in 0..MaxFaults /\ pc' = "idle"
    BY <1>4, Sequel, LostType DEF ApplyService
  <2> QED BY <1>4, <2>1, <2>2, <2>3 DEF ApplyService, env
<1> QED BY <1>1, <1>2, <1>3, <1>4 DEF Operator

LEMMA PodsType ==
  ASSUME Typed, Cluster \/ PodRestarts
  PROVE  DOMAIN pods' \subseteq Templates /\ pods' \in [DOMAIN pods' -> Pods]
<1> USE DEF Typed, TypeOK
<1>1. \A g \in 1..MaxGeneration : NewPod(g) \in Pods
  BY DEF NewPod, Pods
<1>2. CASE ScaleUp
  <2>1. deployment.template \in Templates /\ deployment.gen \in 1..MaxGeneration
    BY <1>2 DEF ScaleUp, Applied
  <2> QED BY <1>1, <1>2, <2>1 DEF ScaleUp
<1>3. CASE ScaleDown
  BY <1>3 DEF ScaleDown
<1>4. CASE PodStarts
  <2>1. PICK t \in DOMAIN pods \ Ready :
          /\ Loadable(configMap, t)
          /\ pods' = [pods EXCEPT ![t].config = configMap, ![t].ready = TRUE]
    BY <1>4 DEF PodStarts
  <2>2. pods[t] \in Pods /\ configMap \in Configs
    BY <2>1 DEF Loadable
  <2>3. [[pods[t] EXCEPT !.config = configMap] EXCEPT !.ready = TRUE] \in Pods
    BY <2>2 DEF Pods
  <2> QED BY <2>1, <2>3
<1>5. CASE PodReloads
  BY <1>5 DEF PodReloads, Ready, Pods
<1>6. CASE PodRestarts
  <2>1. PICK t \in Ready : pods' = [pods EXCEPT ![t] = NewPod(pods[t].since)]
    BY <1>6 DEF PodRestarts
  <2>2. pods[t].since \in 1..MaxGeneration
    BY <2>1 DEF Ready, Pods
  <2> QED BY <1>1, <2>1, <2>2 DEF Ready
<1> QED BY <1>2, <1>3, <1>4, <1>5, <1>6 DEF Cluster

LEMMA TypedStep == Typed /\ [Next]_vars => Typed'
<1> SUFFICES ASSUME Typed, [Next]_vars PROVE Typed'
  OBVIOUS
<1>1. CASE Operator
  BY <1>1, OperatorType
<1>2. CASE Cluster
  <2>1. Rest
    BY <1>2 DEF Cluster, ScaleUp, ScaleDown, PodStarts, PodReloads
  <2> QED BY <1>2, <2>1, PodsType DEF Rest, env, Typed, TypeOK, Snapped
<1>3. CASE PodRestarts
  <2>1. faults' \in 0..MaxFaults
    BY <1>3, BoundsAssumption DEF PodRestarts, Typed, TypeOK
  <2> QED BY <1>3, <2>1, PodsType DEF PodRestarts, env, Typed, TypeOK, Snapped
<1>4. CASE EditGateway
  <2>1. gw.gen + 1 \in 1..MaxGeneration
    BY <1>4, BoundsAssumption, ConfigFields DEF EditGateway, Typed, TypeOK
  <2>2. gw' \in Configs
    BY <1>4, <2>1 DEF EditGateway, Configs
  <2> QED BY <1>4, <2>2 DEF EditGateway, Typed, TypeOK, Snapped
<1>5. CASE ChangeSecret
  BY <1>5, BoundsAssumption DEF ChangeSecret, Typed, TypeOK, Snapped
<1>6. CASE UNCHANGED vars
  BY <1>6 DEF vars, Typed, TypeOK, Snapped
<1> QED BY <1>1, <1>2, <1>3, <1>4, <1>5, <1>6 DEF Next

\* TypeOK of DataPlane holds in every state: the children are of Gateways
\* that were written and the pods of templates that were applied.
THEOREM TypeCorrect == Spec => []TypeOK
<1>1. Typed => TypeOK
  BY DEF Typed
<1> QED BY <1>1, TypedInit, TypedStep, PTL DEF Spec

-----------------------------------------------------------------------------
\* The pods that are ready, by what happens to the pods.
LEMMA ReadyStep ==
  ASSUME Typed, Ready # {}, faults' = faults, [Next]_vars PROVE Ready' # {}
<1>1. PICK r : r \in Ready
  OBVIOUS
<1>2. r \in DOMAIN pods /\ pods[r] \in Pods /\ pods[r].ready
  BY <1>1 DEF Ready, Typed, TypeOK
<1>3. CASE pods' = pods
  BY <1>3 DEF Ready
<1>4. CASE ScaleUp
  <2>1. r \in DOMAIN pods' /\ pods'[r] = pods[r]
    BY <1>2, <1>4 DEF ScaleUp
  <2> QED BY <1>2, <2>1 DEF Ready
<1>5. CASE ScaleDown
  <2>1. PICK t \in DOMAIN pods :
          /\ t \notin Ready \/ Cardinality(Ready) > Replicas - MaxUnavailable
          /\ pods' = [o \in DOMAIN pods \ {t} |-> pods[o]]
    BY <1>5 DEF ScaleDown
  <2>2. PICK s \in Ready : s # t
    <3>1. CASE t \notin Ready
      BY <1>1, <3>1
    <3>2. CASE Cardinality(Ready) > Replicas - MaxUnavailable
      <4>1. Cardinality({t}) = 1
        BY FS_Singleton
      <4>2. Ready # {t}
        BY <3>2, <4>1 DEF Replicas, MaxUnavailable
      <4> QED BY <1>1, <4>2
    <3> QED BY <2>1, <3>1, <3>2
  <2>3. s \in DOMAIN pods' /\ pods'[s] = pods[s]
    BY <2>1, <2>2 DEF Ready
  <2> QED BY <2>2, <2>3 DEF Ready
<1>6. CASE PodStarts
  <2>1. PICK t \in DOMAIN pods \ Ready :
          pods' = [pods EXCEPT ![t].config = configMap, ![t].ready = TRUE]
    BY <1>6 DEF PodStarts
  <2>2. r # t /\ r \in DOMAIN pods' /\ pods'[r] = pods[r]
    BY <1>1, <1>2, <2>1
  <2> QED BY <1>2, <2>2 DEF Ready
<1>7. CASE PodReloads
  <2>1. PICK t \in Ready : pods' = [pods EXCEPT ![t].config = configMap]
    BY <1>7 DEF PodReloads
  <2>2. r \in DOMAIN pods' /\ pods'[r].ready
    BY <1>2, <2>1 DEF Pods
  <2> QED BY <2>2 DEF Ready
<1>8. ~PodRestarts
  BY DEF PodRestarts, Typed, TypeOK
<1> QED
  BY <1>3, <1>4, <1>5, <1>6, <1>7, <1>8
     DEF Next, Operator, Start, ApplyConfigMap, ApplyDeployment, ApplyService, Cluster,
         EditGateway, ChangeSecret, vars

\* ServesThroughRollout of DataPlane: with a surge of one and none
\* unavailable, no rollout, however many follow each other and whichever of
\* them cannot start, takes the last ready pod away, though the one that stays
\* may be of any template.
THEOREM RolloutServes == Spec => ServesThroughRollout
<1>1. Typed /\ [Next]_vars => [Ready # {} /\ faults' = faults => Ready' # {}]_vars
  BY ReadyStep
<1> QED BY <1>1, TypedInit, TypedStep, PTL DEF Spec, ServesThroughRollout

-----------------------------------------------------------------------------
\* What the order of the applies leaves behind, with the reconciliation at
\* any of them: nothing is ahead of what was applied before it.
ChildrenInOrder ==
  /\ configMap # None => configMap.gen <= gw.gen
  /\ deployment # None => configMap # None /\ deployment.gen <= configMap.gen
  /\ service # None => deployment # None /\ service.gen <= deployment.gen

\* Where the reconciliation is, the Gateway it works on is no older than what
\* is to be applied next and what was applied before it is of that Gateway.
AtWork ==
  /\ pc # "idle" => snap.gen <= gw.gen
  /\ pc = "configmap" /\ configMap # None => configMap.gen <= snap.gen
  /\ pc \in {"deployment", "service"} => configMap = snap
  /\ pc = "service" => deployment = DeploymentOf(snap)

\* A pod was made for a generation whose configuration the ConfigMap held
\* before, and a ready one runs that or a later one.
PodsFollow ==
  \A t \in DOMAIN pods :
    /\ configMap # None /\ pods[t].since <= configMap.gen
    /\ pods[t].ready => pods[t].config # None /\ pods[t].config.gen >= pods[t].since

InOrder == ChildrenInOrder /\ AtWork /\ PodsFollow

LEMMA Generations ==
  ASSUME Typed
  PROVE  /\ gw.gen \in Nat /\ (configMap # None => configMap.gen \in Nat)
         /\ pc # "idle" => snap.gen \in Nat /\ snap # None
         /\ deployment # None => deployment.gen \in Nat
         /\ service # None => service.gen \in Nat
         /\ \A c \in Configs : DeploymentOf(c) # None /\ DeploymentOf(c).gen = c.gen
         /\ \A t \in DOMAIN pods :
              /\ pods[t].since \in Nat
              /\ pods[t].config # None => pods[t].config.gen \in Nat
<1>1. \A c \in Configs : c.gen \in Nat /\ c # None
  BY NoneAssumption, BoundsAssumption, ConfigFields
<1>2. \A c \in Configs : DeploymentOf(c) # None /\ DeploymentOf(c).gen = c.gen
  BY NoneAssumption, ConfigFields
<1>3. deployment # None => deployment.gen \in Nat
  BY BoundsAssumption DEF Typed, TypeOK, Applied
<1>4. service # None => service.gen \in Nat
  BY BoundsAssumption DEF Typed, TypeOK
<1>5. ASSUME NEW t \in DOMAIN pods
      PROVE  pods[t].since \in Nat /\ (pods[t].config # None => pods[t].config.gen \in Nat)
  <2>1. pods[t] \in Pods
    BY DEF Typed, TypeOK
  <2> QED BY <1>1, <2>1, BoundsAssumption DEF Pods
<1> QED BY <1>1, <1>2, <1>3, <1>4, <1>5 DEF Typed, TypeOK, Snapped

LEMMA InOrderInit == Init => InOrder
  BY DEF Init, InOrder, ChildrenInOrder, AtWork, PodsFollow

\* A ConfigMap that only moves on leaves the pods as they should be.
LEMMA PodsFollowOn ==
  ASSUME Typed, PodsFollow, pods' = pods, configMap' # None, configMap'.gen \in Nat,
         configMap # None => configMap.gen <= configMap'.gen
  PROVE  PodsFollow'
  BY Generations DEF PodsFollow, Typed, TypeOK

LEMMA OperatorInOrder == ASSUME Typed, InOrder, Operator PROVE InOrder'
<1> USE Generations DEF InOrder
<1>1. CASE Start
  <2>1. pods' = pods /\ configMap' = configMap
    BY <1>1 DEF Start
  <2>2. PodsFollow'
    BY <2>1 DEF PodsFollow
  <2>3. ChildrenInOrder' /\ AtWork'
    BY <1>1, Sequel DEF Start, env, ChildrenInOrder, AtWork
  <2> QED BY <2>2, <2>3
<1>2. CASE ApplyConfigMap
  <2>1. /\ pc = "configmap" /\ pc' \in {"idle", "deployment"}
        /\ UNCHANGED <<gw, snap, deployment, service, pods>>
        /\ configMap' \in {configMap, snap} /\ (pc' = "deployment" => configMap' = snap)
    BY <1>2, Sequel DEF ApplyConfigMap, Lost, env
  <2>2. PodsFollow'
    <3>1. CASE configMap' = configMap
      BY <2>1, <3>1 DEF PodsFollow
    <3>2. CASE configMap' = snap
      BY <2>1, <3>2, PodsFollowOn DEF AtWork
    <3> QED BY <2>1, <3>1, <3>2
  <2>3. ChildrenInOrder' /\ AtWork'
    BY <2>1 DEF ChildrenInOrder, AtWork
  <2> QED BY <2>2, <2>3
<1>3. CASE ApplyDeployment
  <2>1. /\ pc = "deployment" /\ pc' \in {"idle", "service"}
        /\ UNCHANGED <<gw, snap, configMap, service, pods>>
        /\ deployment' \in {deployment, DeploymentOf(snap)}
        /\ (pc' = "service" => deployment' = DeploymentOf(snap))
    BY <1>3, Sequel DEF ApplyDeployment, Lost, env
  <2>2. PodsFollow'
    BY <2>1 DEF PodsFollow
  <2>3. snap \in Configs
    BY <2>1 DEF Typed, Snapped
  <2>4. DeploymentOf(snap) # None /\ DeploymentOf(snap).gen = snap.gen
    BY <2>3
  <2>5. ChildrenInOrder'
    BY <2>1, <2>4 DEF ChildrenInOrder, AtWork
  <2>6. AtWork'
    BY <2>1 DEF AtWork
  <2> QED BY <2>2, <2>5, <2>6
<1>4. CASE ApplyService
  <2>1. /\ pc = "service" /\ pc' = "idle"
        /\ UNCHANGED <<gw, snap, configMap, deployment, pods>>
        /\ service' \in {service, [gen |-> snap.gen, ports |-> snap.ports]}
    BY <1>4, Sequel DEF ApplyService, Lost, env
  <2>2. PodsFollow'
    BY <2>1 DEF PodsFollow
  <2>3. deployment # None /\ deployment.gen = snap.gen
    BY <2>1 DEF AtWork, Typed, Snapped
  <2>4. ChildrenInOrder' /\ AtWork'
    BY <2>1, <2>3 DEF ChildrenInOrder, AtWork
  <2> QED BY <2>2, <2>4
<1> QED BY <1>1, <1>2, <1>3, <1>4 DEF Operator

LEMMA ClusterPodsFollow ==
  ASSUME Typed, InOrder, Cluster \/ PodRestarts PROVE PodsFollow'
<1> USE Generations DEF InOrder, Typed, TypeOK
<1>0. configMap' = configMap /\ deployment' = deployment
  BY DEF Cluster, ScaleUp, ScaleDown, PodStarts, PodReloads, PodRestarts, Rest
<1> SUFFICES ASSUME NEW t \in DOMAIN pods'
             PROVE  /\ configMap # None /\ pods'[t].since <= configMap.gen
                    /\ pods'[t].ready => /\ pods'[t].config # None
                                        /\ pods'[t].config.gen >= pods'[t].since
  BY <1>0 DEF PodsFollow
<1>1. CASE ScaleUp
  <2>1. CASE t = deployment.template
    BY <1>1, <2>1 DEF ScaleUp, NewPod, ChildrenInOrder
  <2>2. CASE t # deployment.template
    BY <1>1, <2>2 DEF ScaleUp, PodsFollow
  <2> QED BY <2>1, <2>2
<1>2. CASE ScaleDown
  BY <1>2 DEF ScaleDown, PodsFollow
<1>3. CASE PodStarts
  <2>1. PICK s \in DOMAIN pods \ Ready :
          /\ Loadable(configMap, s)
          /\ pods' = [pods EXCEPT ![s].config = configMap, ![s].ready = TRUE]
    BY <1>3 DEF PodStarts
  <2>2. CASE t = s
    <3>1. /\ t \in DOMAIN pods /\ configMap # None
          /\ pods'[t].config = configMap /\ pods'[t].since = pods[t].since
      BY <2>1, <2>2 DEF Pods, Loadable
    <3> QED BY <3>1 DEF PodsFollow
  <2>3. CASE t # s
    BY <2>1, <2>3 DEF PodsFollow
  <2> QED BY <2>2, <2>3
<1>4. CASE PodReloads
  <2>1. PICK s \in Ready :
          Loadable(configMap, s) /\ pods' = [pods EXCEPT ![s].config = configMap]
    BY <1>4 DEF PodReloads
  <2>2. CASE t = s
    <3>1. /\ t \in DOMAIN pods /\ configMap # None
          /\ pods'[t].config = configMap /\ pods'[t].since = pods[t].since
      BY <2>1, <2>2 DEF Pods, Ready, Loadable
    <3> QED BY <3>1 DEF PodsFollow
  <2>3. CASE t # s
    BY <2>1, <2>3 DEF PodsFollow
  <2> QED BY <2>2, <2>3
<1>5. CASE PodRestarts
  <2>1. PICK s \in Ready : pods' = [pods EXCEPT ![s] = NewPod(pods[s].since)]
    BY <1>5 DEF PodRestarts
  <2>2. t \in DOMAIN pods /\ pods'[t].since = pods[t].since
    BY <2>1 DEF NewPod
  <2> QED BY <2>1, <2>2 DEF NewPod, PodsFollow
<1> QED BY <1>1, <1>2, <1>3, <1>4, <1>5 DEF Cluster

LEMMA InOrderStep == Typed /\ InOrder /\ [Next]_vars => InOrder'
<1> SUFFICES ASSUME Typed, InOrder, [Next]_vars PROVE InOrder'
  OBVIOUS
<1>1. CASE Operator
  BY <1>1, OperatorInOrder
<1>2. CASE Cluster \/ PodRestarts
  <2>1. UNCHANGED <<env, pc, snap, configMap, deployment, service>>
    BY <1>2 DEF Cluster, ScaleUp, ScaleDown, PodStarts, PodReloads, PodRestarts, Rest
  <2>2. ChildrenInOrder' /\ AtWork'
    BY <2>1 DEF env, InOrder, ChildrenInOrder, AtWork
  <2> QED BY <1>2, <2>2, ClusterPodsFollow DEF InOrder
<1>3. CASE EditGateway
  <2>1. /\ gw'.gen = gw.gen + 1
        /\ UNCHANGED <<pc, snap, configMap, deployment, service, pods>>
    BY <1>3 DEF EditGateway, Written
  <2> QED BY <2>1, Generations DEF InOrder, ChildrenInOrder, AtWork, PodsFollow
<1>4. CASE ChangeSecret \/ UNCHANGED vars
  <2>1. UNCHANGED <<gw, pc, snap, configMap, deployment, service, pods>>
    BY <1>4 DEF ChangeSecret, vars
  <2> QED BY <2>1 DEF InOrder, ChildrenInOrder, AtWork, PodsFollow
<1> QED BY <1>1, <1>2, <1>3, <1>4 DEF Next

\* HashIsHonoured of DataPlane: because the ConfigMap is applied before the
\* Deployment that carries its hash, a ready pod runs the configuration it
\* was made for or a later one.
THEOREM HashHonoured == Spec => []HashIsHonoured
<1>1. Typed /\ InOrder => HashIsHonoured
  BY DEF InOrder, PodsFollow, HashIsHonoured, Ready
<1> QED BY <1>1, TypedInit, TypedStep, InOrderInit, InOrderStep, PTL DEF Spec

\* ServiceFollows of DataPlane: because a refused or failed Deployment ends
\* the reconciliation, the Service is never ahead of the Deployment.
THEOREM ServiceBehind == Spec => []ServiceFollows
<1>1. InOrder => ServiceFollows
  BY DEF InOrder, ChildrenInOrder, ServiceFollows
<1> QED BY <1>1, TypedInit, TypedStep, InOrderInit, InOrderStep, PTL DEF Spec
=============================================================================
