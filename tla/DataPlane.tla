----------------------------- MODULE DataPlane ------------------------------
(***************************************************************************)
(* The proxy of one Gateway: the ConfigMap, Deployment and Service the     *)
(* operator applies one after the other (apply_child_resources, the        *)
(* builders under resources/), and what the cluster makes of them.  The    *)
(* Deployment controller replaces pods within the limits the Deployment    *)
(* states, a pod starts when the Secrets it mounts are there, and all pods *)
(* read the one ConfigMap, which changes under those that run.             *)
(*                                                                         *)
(* A configuration is [gen, ports, secrets, rules]: ports a set of         *)
(* <<name, port>>, secrets the names of the certificates it reads, rules   *)
(* all the rest of its YAML, and gen the generation of the Gateway it was  *)
(* made of, which is history: nothing the code does depends on it.  A pod  *)
(* template is the hash of the YAML, the Secrets mounted and the ports, so *)
(* that an edit back to an earlier Gateway has that one's template again.  *)
(* The Gateway is read afresh by each reconciliation: stale copies are     *)
(* GatewayController's subject, as are owners, deletion and the status.    *)
(***************************************************************************)
EXTENDS Naturals, FiniteSets

CONSTANTS
  None,
  GatewaySpecs,              \* what a user may write: [ports, secrets, rules]
  SecretNames,
  TooLong,                   \* names no container port may have
  MaxGeneration, MaxSecretChanges, MaxFaults   \* bounds

ASSUME BoundsAssumption ==
  MaxGeneration \in Nat \ {0} /\ MaxSecretChanges \in Nat /\ MaxFaults \in Nat

VARIABLES
  gw,           \* the Gateway, as the configuration made of it
  secrets,      \* the Secrets there are
  secretChanges, faults,
  pc, snap,     \* what the reconciliation applies next, and from which Gateway
  configMap,    \* as last applied, None before, as are
  deployment,   \* [template, gen]
  service,      \* [gen, ports]
  pods          \* for each template that has a pod: [config, ready, since], the
                \* last the generation of the Deployment it was made for

env  == <<gw, secrets, secretChanges>>
vars == <<gw, secrets, secretChanges, faults, pc, snap, configMap, deployment, service, pods>>

Written(spec, gen) ==
  [gen |-> gen, ports |-> spec.ports, secrets |-> spec.secrets, rules |-> spec.rules]

Init ==
  /\ \E spec \in GatewaySpecs : gw = Written(spec, 1)
  /\ secrets \in SUBSET SecretNames /\ secretChanges = 0
  /\ faults = 0
  /\ pc = "idle" /\ snap = None
  /\ configMap = None /\ deployment = None /\ service = None
  /\ pods = <<>>

-----------------------------------------------------------------------------
(* What the operator builds.                                               *)

AdminPort == 9901

\* The admin port is added unless a listener has its number.
ContainerPorts(config) ==
  config.ports \cup {p \in {<<"admin", AdminPort>>} : \A q \in config.ports : q[2] # AdminPort}

\* The YAML, which is hashed and which the proxy reads.
Content(config) == [ports |-> config.ports, secrets |-> config.secrets, rules |-> config.rules]

\* A mistake the runs must notice: certificates are not mounted.
PodTemplateBare(config) ==
  [hash |-> Content(config), secrets |-> {}, ports |-> ContainerPorts(config)]

\* The template changes with every configuration, by its hash.
PodTemplate(config) ==
  [hash |-> Content(config), secrets |-> config.secrets, ports |-> ContainerPorts(config)]

\* A mistake the runs must notice: the pod may go before its successor is up.
MaxUnavailableOne == 1

Replicas == 1
MaxSurge == 1
MaxUnavailable == 0

\* The API server wants the names of ports distinct and short.
Admissible(template) ==
  /\ \A p \in template.ports : p[1] \notin TooLong
  /\ \A p, q \in template.ports : p[1] = q[1] => p = q

-----------------------------------------------------------------------------
(* The operator.  A call that fails, or whose reply is lost, ends the      *)
(* reconciliation; another one follows in any case.                        *)

\* A mistake the runs must notice: the Deployment is applied first.
OrderDeploymentFirst == <<"deployment", "configmap", "service">>

Order == <<"configmap", "deployment", "service">>

After(child) ==
  IF child = Order[3] THEN "idle" ELSE IF child = Order[1] THEN Order[2] ELSE Order[3]

Start ==
  /\ pc = "idle"
  /\ pc' = Order[1] /\ snap' = gw
  /\ UNCHANGED <<env, faults, configMap, deployment, service, pods>>

Lost == faults < MaxFaults /\ faults' = faults + 1 /\ pc' = "idle"

ApplyConfigMap ==
  /\ pc = "configmap"
  /\ \/ configMap' = snap /\ pc' = After("configmap") /\ UNCHANGED faults
     \/ Lost /\ configMap' \in {configMap, snap}
  /\ UNCHANGED <<env, snap, deployment, service, pods>>

DeploymentOf(config) == [template |-> PodTemplate(config), gen |-> config.gen]

\* Mistakes the runs must notice: the hash is left out, and a refused
\* Deployment is passed over.
ApplyDeploymentUnhashed ==
  /\ pc = "deployment" /\ Admissible(PodTemplate(snap))
  /\ deployment' = [template |-> [PodTemplate(snap) EXCEPT !.hash = None], gen |-> snap.gen]
  /\ pc' = After("deployment")
  /\ UNCHANGED <<env, faults, snap, configMap, service, pods>>

ApplyDeploymentRegardless ==
  /\ pc = "deployment"
  /\ pc' = After("deployment") /\ UNCHANGED faults
  /\ deployment' = IF Admissible(PodTemplate(snap)) THEN DeploymentOf(snap) ELSE deployment
  /\ UNCHANGED <<env, snap, configMap, service, pods>>

ApplyDeployment ==
  /\ pc = "deployment"
  /\ \/ /\ Admissible(PodTemplate(snap))
        /\ deployment' = DeploymentOf(snap) /\ pc' = After("deployment") /\ UNCHANGED faults
     \/ ~Admissible(PodTemplate(snap)) /\ pc' = "idle" /\ UNCHANGED <<deployment, faults>>
     \/ /\ Admissible(PodTemplate(snap))
        /\ Lost /\ deployment' \in {deployment, DeploymentOf(snap)}
  /\ UNCHANGED <<env, snap, configMap, service, pods>>

ApplyService ==
  /\ pc = "service"
  /\ \/ service' = [gen |-> snap.gen, ports |-> snap.ports]
        /\ pc' = After("service") /\ UNCHANGED faults
     \/ Lost /\ service' \in {service, [gen |-> snap.gen, ports |-> snap.ports]}
  /\ UNCHANGED <<env, snap, configMap, deployment, pods>>

Operator == Start \/ ApplyConfigMap \/ ApplyDeployment \/ ApplyService

-----------------------------------------------------------------------------
(* The Deployment controller and the pods.                                 *)

NewPod(gen) == [config |-> None, ready |-> FALSE, since |-> gen]
Ready       == {t \in DOMAIN pods : pods[t].ready}
Rest        == UNCHANGED <<env, faults, pc, snap, configMap, deployment, service>>

\* A pod that already has the template will do.
ScaleUp ==
  /\ deployment # None
  /\ LET t == deployment.template
     IN  /\ t \notin DOMAIN pods
         /\ Cardinality(DOMAIN pods) < Replicas + MaxSurge
         /\ pods' = [o \in DOMAIN pods \cup {t} |->
                       IF o = t THEN NewPod(deployment.gen) ELSE pods[o]]
  /\ Rest

\* A pod of another template goes if it is not ready or can be spared.
ScaleDown ==
  /\ \E t \in DOMAIN pods :
       /\ t # deployment.template
       /\ \/ t \notin Ready
          \/ Cardinality(Ready) > Replicas - MaxUnavailable
       /\ pods' = [o \in DOMAIN pods \ {t} |-> pods[o]]
  /\ Rest

\* The proxy serves its admin port in any case.
Bindable(config) == \A p \in config.ports : p[2] # AdminPort

\* Neither certificate files that are not mounted nor two listeners on one
\* port make a configuration the proxy can load.
Loadable(config, template) ==
  config # None /\ config.secrets \subseteq template.secrets /\ Bindable(config)

PodStarts ==
  /\ \E t \in DOMAIN pods \ Ready :
       /\ t.secrets \subseteq secrets
       /\ Loadable(configMap, t)
       /\ pods' = [pods EXCEPT ![t].config = configMap, ![t].ready = TRUE]
  /\ Rest

\* The proxy watches its file and keeps what it has if the new one is bad.
\* Of a ConfigMap with the same YAML it sees nothing.
PodReloads ==
  /\ \E t \in Ready :
       /\ Content(pods[t].config) # Content(configMap)
       /\ Loadable(configMap, t)
       /\ pods' = [pods EXCEPT ![t].config = configMap]
  /\ Rest

\* A container is restarted by a failed liveness probe or a lost node.
PodRestarts ==
  /\ faults < MaxFaults /\ faults' = faults + 1
  /\ \E t \in Ready : pods' = [pods EXCEPT ![t] = NewPod(pods[t].since)]
  /\ UNCHANGED <<env, pc, snap, configMap, deployment, service>>

Cluster == ScaleUp \/ ScaleDown \/ PodStarts \/ PodReloads

-----------------------------------------------------------------------------
(* Users.                                                                  *)

EditGateway ==
  /\ gw.gen < MaxGeneration
  /\ \E spec \in GatewaySpecs : gw' = Written(spec, gw.gen + 1)
  /\ UNCHANGED <<secrets, secretChanges, faults, pc, snap, configMap, deployment, service, pods>>

ChangeSecret ==
  /\ secretChanges < MaxSecretChanges /\ secretChanges' = secretChanges + 1
  /\ \E s \in SecretNames : secrets' = (secrets \ {s}) \cup ({s} \ secrets)
  /\ UNCHANGED <<gw, faults, pc, snap, configMap, deployment, service, pods>>

Next == Operator \/ Cluster \/ PodRestarts \/ EditGateway \/ ChangeSecret

\* The operator is requeued for ever, and the cluster does each of its jobs;
\* users and faults promise nothing.
Fairness ==
  /\ WF_vars(Operator)
  /\ WF_vars(ScaleUp) /\ WF_vars(ScaleDown) /\ WF_vars(PodStarts) /\ WF_vars(PodReloads)

Spec == Init /\ [][Next]_vars /\ Fairness

-----------------------------------------------------------------------------
(* Properties.                                                             *)

Configs   == {Written(spec, gen) : spec \in GatewaySpecs, gen \in 1..MaxGeneration}
Templates == {PodTemplate(c) : c \in Configs}
Pods      == [config : Configs \cup {None}, ready : BOOLEAN, since : 1..MaxGeneration]
Applied   == [template : Templates, gen : 1..MaxGeneration]

ASSUME NoneAssumption == None \notin Configs /\ None \notin Applied

TypeOK ==
  /\ gw \in Configs /\ snap \in Configs \cup {None} /\ configMap \in Configs \cup {None}
  /\ deployment \in Applied \cup {None}
  /\ service \in {None} \cup [gen : 1..MaxGeneration, ports : {s.ports : s \in GatewaySpecs}]
  /\ secrets \subseteq SecretNames
  /\ secretChanges \in 0..MaxSecretChanges /\ faults \in 0..MaxFaults
  /\ pc \in {"idle", "configmap", "deployment", "service"}
  /\ DOMAIN pods \subseteq Templates /\ pods \in [DOMAIN pods -> Pods]

\* Some pod stays ready: nothing but the restart of a container takes the
\* last ready pod away, not a new configuration, nor one that cannot start
\* because a certificate is missing, nor a third that arrives while the
\* second is being rolled out (build_deployment_object).  Which template the
\* pod that stays is of is not said.
ServesThroughRollout == [][Ready # {} /\ faults' = faults => Ready' # {}]_vars

\* A ready pod never runs a configuration from before the one whose hash it
\* was made for: the hash is no promise the ConfigMap does not keep yet
\* (apply_child_resources).
HashIsHonoured == \A t \in Ready : pods[t].config.gen >= pods[t].since

\* The Service offers the ports of no Gateway whose Deployment was refused or
\* is still to come: what it offers some template binds.
ServiceFollows == service # None => deployment # None /\ service.gen <= deployment.gen

\* If the newest Gateway can be served at all, in the end exactly one pod is
\* left, ready, of the newest template and with the newest configuration,
\* and the Service offers its ports, whatever was half applied or half rolled
\* out before and whichever containers restarted.
Servable == gw.secrets \subseteq secrets /\ Admissible(PodTemplate(gw)) /\ Bindable(gw)

EventuallyCurrent ==
  <>[](Servable => /\ DOMAIN pods = {PodTemplate(gw)}
                   /\ PodTemplate(gw) \in Ready
                   /\ Content(pods[PodTemplate(gw)].config) = Content(gw)
                   /\ service # None /\ service.ports = gw.ports)
=============================================================================
