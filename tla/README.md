# A verification project for praxis-operator

TLA+ specifications of the praxis-operator, TLC configurations that check them
on small instances, and proofs that TLAPS checks for every instance. Paths below
are relative to the repository.

## The system

praxis-operator turns Kubernetes Gateway API objects into a running Praxis proxy.
One process runs three controllers of the kube runtime (`src/main.rs`), each a
set of watches that schedule keys into a work queue and a reconciler called with
one key at a time.

| Part | State it keeps | Operations | Interacts through |
|---|---|---|---|
| Gateway controller (`src/controller/gateway.rs`, `gateway_helpers.rs`) | reflector store, work queue; in the API server: finalizer, ConfigMap, Deployment, Service, Gateway status | reconcile (finalizer, apply, cleanup), error policy, route mapping | watches of Gateways, owned children, HTTPRoutes; reads of GatewayClass, HTTPRoutes, Namespaces, Services, EndpointSlices, Secrets, ReferenceGrants; server-side applies by name |
| HTTPRoute controller (`httproute.rs`) | store, queue; HTTPRoute status | reconcile: accepted and resolved conditions per parent | watches HTTPRoutes only; reads Gateways, classes, grants, Namespaces, Services |
| GatewayClass controller (`gateway_class.rs`) | store, queue; class status | accept classes of our controller name | watches GatewayClasses |
| Configuration generation (`src/config/`), with filter conversion (`filter_conversion.rs`) | none (pure) | merge listeners by port, convert routes, filters and clusters, assemble | called by the Gateway controller; its YAML becomes the ConfigMap |
| Endpoint resolution (`src/endpoints.rs`) | none | EndpointSlices, or the Service as fallback | reads of the API server during generation |
| Gateway API rules (`src/gateway_api/`) | none (pure) | attachment, hostname matching, ReferenceGrants, conditions | used by both controllers |
| Child resources (`src/resources/`) | the ConfigMap, Deployment and Service in the API server; behind them the Deployment controller's pods | build the three children, owner reference and labels | applied by the Gateway controller; the pods mount the ConfigMap and the certificates' Secrets |

What is hard in it: a reconciliation works on a snapshot across a dozen awaits
while users edit, delete and recreate the objects; every write is by name; every
call may fail, or take effect and lose its reply; the process may die between
any two; several things it depends on are not watched and only a timer picks
them up; and two controllers judge the same routes with separate code. What
makes the parts correct:

- Gateway controller: what it writes belongs to the Gateway that is there and
  never goes back; a status never says more than what runs; the deployed hash is
  never ahead of the configuration; no wake-up is lost; it converges; deletion
  completes.
- HTTPRoute controller: every condition reflects one consistent reading of the
  parent, and agrees with what the Gateway controller serves.
- Configuration generation: every listener serves exactly the routes attached to
  it, under its hostname, the most specific first, each to a cluster that exists.
- Filter conversion: what of a rule's filters the conversion supports is done to
  the traffic that matches the rule, and nothing is done twice or in its stead.
- Listener status: nothing is said of a certificate that was not so while the
  reconciliation read it, and the status becomes true although Secrets and
  grants are not watched.
- Child resources: a rollout never takes the last serving pod away, no pod runs
  less than its hash promises, and everything ends on the newest configuration.
- GatewayClass controller: every class of ours is accepted, another's is not.
- Endpoint resolution: an endpoint is used once, with the right port, or not at all.
- Gateway API rules: they agree with their reference definitions.

## Modules

| Module | What it holds |
|---|---|
| `GatewayController` | the Gateway controller and its environment for one key |
| `GatewayContract` | the abstract specification: what a user of one Gateway is promised |
| `GatewayInvariant` | the inductive invariant of the controller with one process |
| `EndpointResolution` | the addresses of a backend Service |
| `ConfigGeneration` | what the Gateway controller computes from one snapshot; extends `EndpointResolution` |
| `FilterConversion` | the filters of the rules in that configuration; extends `ConfigGeneration` |
| `RouteAcceptance` | what the HTTPRoute controller says of a route on that snapshot; extends `ConfigGeneration` |
| `RouteStatus` | the HTTPRoute controller and its environment for one key |
| `ReferenceGrants` | when grants permit a reference |
| `ListenerStatus` | what the Gateway controller says of the listeners of one Gateway; extends `ReferenceGrants` |
| `DataPlane` | the three children of one Gateway, its rollouts and its pods |
| `GatewayClassStatus` | the GatewayClass controller for one name |
| `GatewayControllerMC`, `ConfigGenerationMC`, `RouteStatusMC`, `ListenerStatusMC`, `DataPlaneMC` | constants for TLC |
| `Selection` | the part of a sequence that lies in a set, as a recursive function, used by every filter of the models |
| `GatewayInvariantProofs`, `GatewayProofs` | proofs about the Gateway controller: typing and its first invariants; wake-ups, writes and the refinement |
| `SequenceProofs` | what `Kept`, `Only`, `FlattenSeq`, `ToSet` and first matches give, for the two below |
| `ConfigProofs`, `RouteProofs` | proofs about `ConfigGeneration` (with filters and acceptance) and `RouteStatus` |
| `ListenerProofs`, `DataPlaneProofs`, `GatewayClassProofs` | proofs about `ListenerStatus`, `DataPlane` and `GatewayClassStatus` |

### GatewayController

One Gateway name, one or more operator processes. The API server's side is `gw`
(the object, uid 0 when there is none), `gc` (whose the GatewayClass it names
is), `routes` and `eps` (versions of HTTPRoutes and of Services with their
EndpointSlices), the three children and `status`. A process's side is `cache`
(the reflector's store), `queue` (when the key is due), `pc` (the await a
reconciliation is at), `snap` (the Gateway it was given) and `seen` (what it has
read). Listener specs are a generation and a kind; generated YAML is the tuple
of versions it was generated from, so that equality of hashes is equality of
tuples.

Every await of the code is an action, and what happens between two awaits is in
the action before it, so that anything may happen in the API server meanwhile.
`ResolveEndpoints` is one read of `resolve_clusters`, which reads the endpoints of
Service after Service: `EndpointReads` of them, in every configuration, each of the
version there is at that moment. (Within one read, the fall-back from EndpointSlices
to the Endpoints object is `EndpointResolution`'s subject.)

| Action | Code |
|---|---|
| `Watch`, `Start` | the reflector and the runner; the four cases of the finalizer helper (`gateway.rs:43`) |
| `AddFinalizer`, `RemoveFinalizer` | the helper's two JSON patches, `cleanup()` before the second |
| `CheckClass` | `validate_gateway_class`, then `has_parameters_ref` |
| `Reject` | `reject_gateway` |
| `ListRoutes`, `FetchNamespaces`, `ResolveEndpoints` | `list_all_routes`, `collect_routes`, each read of `resolve_clusters` |
| `ApplyConfigMap`, `ApplyDeployment`, `ApplyService` | `apply_child_resources` |
| `ReadAddress`, `PatchStatus` | `build_and_apply_gateway_status` |
| `Fail`, `LostReply`, `Crash` | an API error at any await that propagates it; a call that took effect without a reply; the death of the process |
| `CreateGateway`, `EditSpec`, `DeleteGateway`, `EditRoutes`, `EditEndpoints`, `MoveClass`, `AssignLB`, `CollectGarbage`, `DeleteChild` | users, other controllers, the garbage collector |

Events on children, routes and status reach the queue at once; their delay is
the delay until `Start`. Events on the Gateway also refresh the store and are an
action of their own, so the store lags behind arbitrarily. A timer may fire at
any time. External behaviour (kube runtime, API server, garbage collector) is
modelled from the way the code uses it and marked external in `PROJECT.json`.

Definitions whose comment starts "A mistake the runs must notice" are never part
of the specification: each is what a definition would be with a plausible bug,
and the run named in `PROJECT.json` finds its property violated with it.

### GatewayContract

A user sees which incarnation lives, the generation wanted, owner and generation
of each child, and what the status acknowledges. Children are applied for the
living incarnation only, from a spec it has or had and never from an older one
than before; a status speaks of the living incarnation, never goes back, never
changes its verdict on a generation, and says programmed only when no child is
from an older spec or another owner. `GatewayController!ContractSpec`
instantiates it.

### ConfigGeneration, EndpointResolution, RouteAcceptance, FilterConversion

The code here is pure, so the state is only the snapshot it is given: listeners,
HTTPRoutes and labelled namespaces, which users write in any order. Every
operator is one function of the code, under its name in TLA+ capitals:
`CollectRoutes` (attachment and namespace policy), `MergeListeners`,
`ListenerPorts`, `TlsSecretNames` (listeners, and what the Deployment and the
Service are built from), `ProcessRule`, `ExtractPathMatch`, `BackendRefs`,
`ResolveClusters` (routes and clusters), `FilterChain` (partitioning, injected
hostnames, stable sort). `Fits` and `RoutedTo` are the proxy's router, first
match wins, as the sort assumes.

The reference they are checked against is in a section of its own, "What a user
means by a snapshot": it speaks of rules, matches and hosts as they were written,
of prefixes by path element, and knows nothing of entries, keys or chains.
`MustServe` says which rules a port must serve a request with, `MayServe` which
it may; they differ where the code is known to serve less than a user means (the
two disagreements on shared ports and hostnames below).

A Service's namespace and name are one value, a cluster's name is the sequence
of Services it is made from (so that equal names are equal sequences), paths are
sequences of characters and hostnames of labels. TLS modes, which the code does
not read, are left out. A failed namespace list, and every other failing read
but that of EndpointSlices, belongs to `GatewayController`.

`FilterConversion` adds what every chain holds between its router and its load
balancer: `ConvertRuleFilters` of every collected rule, in the code's order (the
error of a rule without backends, redirects, then one merged list of header
operations, emitted as soon as some list is there, be it empty), each with the
`Condition` made from the rule's first match. A header's name and value are one
opaque operation. `Applied` is the proxy's walk along the chain: a condition is a
prefix of the path, and the first error or redirect whose condition holds answers
the request and ends the walk. What a rule may expect is said in two steps: `Asked`
is what its modifiers ask for in the words of the Gateway API, removals included,
and `Promised` what the conversion documents it makes of that (a request's set
becomes an add, its remove is skipped). URL rewrites, mirrors and extensions are
ignored by the code with a warning, and a redirect's path is not converted; the
properties promise none of them.

### RouteStatus

One HTTPRoute name. `route` and `status` are the object, `world` everything else
the reconciliation reads: what each Gateway's listeners say of the route
(`Listening`: the selectors to ask before the first listener that is open anyway,
whether there is one, whether hostnames meet), whose the class is, which backends
in another namespace ReferenceGrants permit, which Services exist, which selectors
match the namespace. `cache`, `queue`, `pc`, `snap`, `at`, `nth`, `entries`,
`gateway`, `granted` and `resolved` are the process's. `during` and `flawed` are history: the worlds
there have been and whether a read failed since the reconciliation started.

| Action | Code |
|---|---|
| `Watch`, `Start` | the runner; `reconcile` up to its first read |
| `ReadGateway`, `ReadClass`, `ReadGrants` | the first reads of `build_parent_status`, once per parentRef |
| `ReadBackends` | `check_backend_refs`: one step per backend, up to the first that is not a Service (`InvalidKind`), lacks a grant (`RefNotPermitted`) or is not there (`BackendNotFound`) |
| `ReadNamespaces` | `route_allowed_by_listeners`: one read of the namespace per listener with a selector, up to the first that allows the route |
| `PatchStatus` | `apply_route_status`, and `error_policy` when it fails |
| `Crash` | the death of the process |
| `CreateRoute`, `EditRoute`, `DeleteRoute`, `ChangeWorld` | users; only the first three wake the controller |

A failed read is no error in this code but an answer, so `Fails` is a disjunct
of each read. parentRefs to anything but a Gateway, which the code passes over
without a read, are left out; rules are flattened to the one list of backends that
the two nested loops of `check_backend_refs` walk.

### ListenerStatus, ReferenceGrants

One Gateway of our class that is not being deleted (`GatewayController` models
both cases). `gw` and `status` are the object, `world` the Secrets and
ReferenceGrants there are, `volumes` the Secrets the Deployment mounts. `cache`,
`queue`, `pc`, `snap` are the process's; `entries` are the listener statuses
built so far and `at` the certificate it is at, so that the two nested loops of
`build_listener_statuses` and `validate_tls_cert_refs` are steps of one read
each. `during` and `flawed` are history as in `RouteStatus`.

| Action | Code |
|---|---|
| `Watch`, `Start` | the runner; `apply` up to its first await, a `parametersRef` going to the rejection |
| `ApplyChildren` | `apply_child_resources`, skipped without a supported listener |
| `Judge` | what needs no read: protocol, route kinds, kind of a certificate reference |
| `ReadGrants`, `ReadSecret` | the two reads per certificate; a failed one is an answer, not an error |
| `PatchStatus` | `build_and_apply_gateway_status` or `reject_gateway`, with the requeue or the error policy |
| `Crash` | the death of the process |
| `EditGateway`, `ChangeWorld` | users; only the first wakes the controller |

`StatusIn` is the reference: the status a reconciliation alone in a world would
write, stated without a loop.

### DataPlane

The children in the order they are applied, and what the cluster makes of them.
A configuration is its ports, the names of its certificates and `rules`, all the
rest of the YAML; `Content` is that YAML, which is what the code hashes. A pod
template is the hash, the Secrets mounted and the ports, so that an edit back to an
earlier Gateway has that one's template again, and the Deployment controller may
keep the pod that has it. `gen` and `since`, the generations a configuration, a child or a pod was
made for, are history that no step depends on. There is at most one pod of a
template, as one replica and a surge of one give.

| Action | Code |
|---|---|
| `Start`, `ApplyConfigMap`, `ApplyDeployment`, `ApplyService` | `apply_child_resources`; each call may fail or lose its reply, and a Deployment whose port names the API server refuses ends the reconciliation |
| `ScaleUp`, `ScaleDown` | the Deployment controller within `build_deployment_object`'s strategy |
| `PodStarts`, `PodReloads`, `PodRestarts` | a pod on the mounted ConfigMap and Secrets, its readiness, its file watch, a restarted container |
| `EditGateway`, `ChangeSecret` | users |

The pods and the Deployment controller are external: they follow what the
builders ask of them (`maxUnavailable` 0, `maxSurge` 1, volumes, probes, the
annotation with the hash).

### GatewayClassStatus

One class name: `class` is the object, `accepted` its status, and the process
has `cache`, `queue`, `pc`, `snap`. `Start` is `reconcile` up to its patch,
`AcceptGatewayClass` the patch with `error_policy`; `CreateClass`, `EditClass`
and `DeleteClass` are users, `Crash` the death of the process.

## Runs

| Run | Bounds | Question |
|---|---|---|
| `gateway_safety` | one process, 2 incarnations, 2 generations, 1 route version, 1 fault | `TypeOK`; `Inductive`; `FinalizerGuards`: apply() runs only while the finalizer holds its incarnation; `StatusIsBacked`: a Gateway reporting Programmed runs nothing older than it reports; `NeverForgotten`: no lost wake-up; `ContractSpec`: refinement |
| `gateway_convergence` | one process, 2 incarnations of 1 generation, 1 route and 1 endpoint version, 2 reads of endpoints, 1 fault | `HashNeverAhead`: the Deployment's hash is of the ConfigMap's configuration or of one that read every source, each Service's endpoints among them, earlier; `Converges`: everything written ends up agreeing with the incarnation, routes and endpoints that are there; `DeletionCompletes` |
| `gateway_rollout` | 2 processes, 1 incarnation of 2 generations | `KeepsToSpec`: nothing is from a generation the Gateway never had, and the verdict on the newest is right; `Converges` and `DeletionCompletes` when two processes interleave their writes |
| `generation` | up to 3 of 5 listeners, up to 2 of 6 routes, 20 requests | `RoutedOnlyToAttached`, `RoutedWhenMatched`, `MostSpecificServes`: where requests go; `ChildrenAgree`: ports, names and secrets of the three children; `ClusterHoldsItsBackends`, `AddressesHeldOnce`: endpoints, all of them and none counted twice; `FiltersReachTheirTraffic`: a request its first match covers, and no earlier rule has answered, gets exactly the error, the first redirect, or the header operations promised; `ControllersAgree`: configured routes are those with a parentRef that is accepted or fails by its hostname only, and the counts fit the acceptance |
| `route_status` | 2 incarnations, 2 generations, 2 Gateways of 4 kinds with up to 2 selectors, 3 backends, 1 change of what is read, 1 fault | `TypeOK`; `SettledStatusIsTrue`: when all is quiet every entry is true; `GoodNewsIsEarned`: nothing accepted or resolved that was never so; `NewestAnswered`: the newest generation is answered in the end |
| `listener_status` | 2 generations, 4 Gateways, one Secret name in 2 namespaces with 4 contents, 3 sets of grants, 2 changes of them, 1 fault | `TypeOK`; `NewsIsEarned`: what is said of a certificate was so at some moment of the reconciliation; `EventuallyTrue`: the status becomes, and stays, that of the newest Gateway in the world as it is |
| `data_plane` | 3 generations, 7 Gateways of which 2 differ in rules only and 3 cannot be served, 2 Secrets, 1 change of them, 1 fault | `TypeOK`; `ServesThroughRollout`: only a restarted container takes the last ready pod away; `HashIsHonoured`: a ready pod runs the configuration it was made for or a later one; `ServiceFollows`: the Service is never ahead of the Deployment; `EventuallyCurrent`: one pod, of the newest template, with the newest configuration |
| `gateway_class` | 3 incarnations, 2 generations, 2 faults | `TypeOK`; `ForeignAcceptedOnlyByName`: another controller's class is accepted only by a patch made from a copy, stale when the reconciliation began or since, of an earlier class of ours under that name; `EveryClassAccepted` |
| `generation_shared_port`, `filters_scoped`, `route_selector`, `listener_secret` | as `generation` with 2 listeners; as `listener_status` without changes | one violated property each, see below |

The bounds: two generations and two incarnations are what it takes for anything
to be stale or of a predecessor; one fault puts one failure, lost reply, crash
or class change at every place of every behaviour; a second route or endpoint
version separates what was read before an edit from what was read after. The
safety run was also made with two faults (2.2 million states). `gateway_rollout`
has no faults and no second incarnation: two processes with the edit between them
are what its question needs, and already the largest graph whose liveness TLC
checks here. In `generation`,
three listeners give a port of two with another beside it, two routes give every
pair that ties, shares a cluster or competes for a path, in both orders; the
listeners differ in port, protocol, hostname and namespace policy, the routes in
sections, hosts, kinds of match, headers, backends and weights, and each Service
resolves in its own way. A route without sections does not occur:
attachment keeps only routes with a section or a reference to the whole Gateway.
All but one of the routes have filters: header modifiers of both kinds, several in one
rule, one with an empty list, one of nothing but a removal; redirects with and
without backends, two in one rule, one that asks for a path; a mirror. So what one
rule asks for meets requests of another, and a redirect may come before an error as
well as after it.
In `route_status` the routes have up to two parents and two backends of three (one at
home, one away, one that is no Service), and the Gateways are open, ask two selectors,
or are open with a hostname that does not meet; one change falls between any two of
the reads.

In `listener_status` the Gateways have a listener of every verdict, and a
certificate at home and one away under the same name; two changes let a grant and
a Secret both change between the two reads of one certificate, or one of them
change and change back. In `data_plane` the third generation arrives while the
second is being rolled out, and may be the first one again; among the Gateways are one whose port the admin port
takes, one with a name the API server refuses and one with a listener named
`admin`. In `gateway_class` the third incarnation lets a patch begun for the first
meet a class that was replaced twice.
Deadlock is not
checked: once the users have used up their bounds a system that needs nothing is
at rest.

Fairness (`FairSpec`): each process's `Watch` and its reconciliation and timers,
and the garbage collector; in `RouteStatus`, `ListenerStatus` and
`GatewayClassStatus`, the watch and the reconciliation with its timer; in
`DataPlane`, the operator (it is requeued for ever) and each job of the cluster:
making a pod, removing one, starting one, and the proxy's file watch. The tokio runtime polls every future that is ready,
every call returns or fails, and timers fire; the code awaits nothing else. No
fairness on users, on faults or on the load balancer. Faults are bounded, so
`Converges`, `NewestAnswered`, `EventuallyTrue`, `EventuallyCurrent` and
`EveryClassAccepted` say: once they stop. `ConfigGeneration` needs no fairness.

### Disagreements between code and documentation

Four are shown by runs:

- `src/config/generate.rs:67-69` says a port's one chain has the routes of all the
  Gateway listeners that share the port. `build_filter_chain` keeps those that
  name the first of them, or none: `generation_shared_port`.
- `src/config/filter_conversion.rs:84-87` says conditions ensure that filters apply
  only to traffic matching their rule. The condition is the path of the first
  match as a prefix, without host, header or listener, and every chain has the
  filters of all routes: `filters_scoped`.
- `src/controller/httproute.rs:323` says a namespace's labels are matched against
  the selector. Only `matchLabels` is looked at there, and `matchExpressions` too
  in the Gateway controller (`gateway_helpers.rs:947`), so a route may be reported
  accepted that is not configured: `route_selector`. `ControllersAgree` is checked
  for selectors without expressions.
- `docs/architecture.md:101-102` says the Deployment mounts each referenced TLS
  Secret. It mounts the Secret of that name in the Gateway's own namespace, also
  for a reference that a grant permits into another: `listener_secret`.

Others were met while modelling; the models follow the code:

- `docs/architecture.md:14-16` says the operator uses the kube runtime for leader
  election. `src/main.rs:60-65` starts the controllers with none. `gateway_rollout`
  shows that convergence and deletion survive two processes; the safety properties
  but `KeepsToSpec` are stated, and proved, for one.
- The comment at `src/controller/gateway.rs:60-61` promises differentiated
  backoff. `reconcile` wraps every error as `Error::Finalizer` (line 55), so the
  longer delay is unreachable.
- `src/config/generate.rs:145-149` says a route without hostnames inherits the
  hostname of the listener it targets. `resolve_route_hostname` takes the first
  section that has one, whichever chain is being built.
- `src/config/routing.rs:90` says a backend's weight is its traffic weight. Weights
  are in neither the cluster's name nor the key of deduplication, so a second
  rule with the same backends gets the first one's weights.
- The annotation with the hash of the configuration restarts the pods on every
  change, where `src/resources/deployment.rs:65-66` says none is needed. `DataPlane` has both, the
  rollout and the reload of the running pod.
- `docs/architecture.md:42-47` lists a ReferenceGrant check among the steps of
  route filtering; only the HTTPRoute controller makes it, for the status.
  `docs/architecture.md:132` names filters `request_headers` and
  `response_headers`; the code emits one filter, `headers`.
- `docs/architecture.md:133` maps a request redirect to a `redirect` filter. A rule
  that redirects needs no backends, but without them `convert_filters` puts its
  error in front (`filter_conversion.rs:92-97`), so that the request is answered with
  a 500 and the redirect is never reached. `FiltersReachTheirTraffic` states it so.

## Proofs

TLAPS checks, for any constants that satisfy the assumptions of the module (the
bounds are numbers; in `ListenerStatus` and `RouteStatus`, what users write is well
formed; in `DataPlane`, `None` is no configuration or template; in
`ConfigGeneration`, see below):

- `TypeCorrect` (`GatewayInvariantProofs`): `Spec => []TypeOK`, for any set of processes.
- `GuardedByFinalizer` (`GatewayInvariantProofs`), `BackedStatus`, `HashFollows`,
  `InductiveHolds` (`GatewayProofs`): `FinalizerGuards`, `StatusIsBacked`,
  `HashNeverAhead` and all of `Inductive`, for `SoleOperator`.
- `NoWakeupLost` (`GatewayProofs`): `NeverForgotten`, for `SoleOperator` and
  `ClassesStayAway` (no class comes back from another controller).
- `Implements` (`GatewayProofs`): `Spec => ContractSpec`, for `SoleOperator`.
- `SpecKept` (`GatewayProofs`): `KeepsToSpec`, for any set of processes.
- `RouteTypeCorrect`, `SettledTruth`, `GoodNewsEarned` (`RouteProofs`): `TypeOK`,
  `SettledStatusIsTrue` and `GoodNewsIsEarned`, for any Gateways, listeners,
  selectors, parentRefs, backends, incarnations, generations, changes and faults.
- `ConfigProofs`, for any listeners, routes, backends and requests of the Gateway
  API's shape: `RoutedAlwaysToAttached`, `MatchedAlwaysRouted`,
  `MostSpecificAlwaysServes` (`RoutedOnlyToAttached`, `RoutedWhenMatched`,
  `MostSpecificServes`); `ChildrenAlwaysAgree` (`ChildrenAgree`);
  `ClustersAlwaysHold` (`ClusterHoldsItsBackends`); `AddressesAlwaysOnce`
  (`AddressesHeldOnce`), for `AddressesListedOnce`; `FiltersAlwaysReach`
  (`FiltersReachTheirTraffic`); `ControllersAlwaysAgree` (`ControllersAgree`, its
  three parts), if no namespace is excluded by `matchExpressions`.
- `TypeCorrect` and `NewsEarned` (`ListenerProofs`): `TypeOK` and `NewsIsEarned`,
  for any Gateways, Secrets and grants.
- `TypeCorrect`, `RolloutServes`, `HashHonoured`, `ServiceBehind`
  (`DataPlaneProofs`): `TypeOK`, `ServesThroughRollout`, `HashIsHonoured` and
  `ServiceFollows`, for any Gateways, Secrets and refused names.
- `TypeCorrect` and `ForeignLeftAlone` (`GatewayClassProofs`): `TypeOK` and
  `ForeignAcceptedOnlyByName`.

`SoleOperator` says that there is at most one process; with two, a slow one may
write an old generation after the other wrote the new, or answer for a predecessor,
and TLC refutes each of these, `NeverForgotten` only once there is a second incarnation.
What is left with any number is `KeepsToSpec`. Its invariant, `Shared`, has no
finalizers in it, as a late patch of one process may take off the finalizer of a
successor: only that every copy is of the past (`Past`), whichever way the Gateway
moves on (`Grown`), and that everything written is from a copy.

None of these safety properties is inductive. The invariant of the Gateway
controller (`GatewayInvariant`) has four layers. `Lifecycle` relates the Gateway,
the store's copy and the copy being reconciled: copies are of earlier states of an
incarnation, and a copy with our finalizer that is not being deleted pins the live
object, because only this process removes the finalizer and only from a copy that
is being deleted. `Writes` bounds every child and the status by those copies.
`Reads` adds that reads only move forward, and that while a reconciliation is past
a child, that child is exactly as it applied it (or gone): this is what makes
`StatusIsBacked` and `HashNeverAhead` survive a reconciliation that stops half
way; for endpoints it says so of every read by itself, of those already made while
others are to come (`ReadInv`). `Wakes` says that unless an event is still due, the copy being reconciled is
the present Gateway: without it `NeverForgotten` does not survive the end of a
reconciliation. One step lemma per action and layer; `Numbers` and the like
collect the typing facts the arithmetic needs.

In `ListenerProofs`, `Typed` strengthens `TypeOK` by what the reads rest on: the
Gateway worked on was written by a user, and a step that reads a certificate has
one. `Earning` is what the loop keeps: the present world is one of the moments,
every entry built is earned, the certificates of the current listener before the
one it is at have passed, and the Secret about to be read was permitted. It
survives `ChangeWorld` because `Earned` only grows with the moments (`EarnedLater`)
and a failed read because it only weakens what is claimed.

In `DataPlaneProofs`, `InOrder` says that none of the three children is of a newer
generation than the one applied before it, that a reconciliation under way has
just applied those it is past, and that the generation a pod was made for is one the
ConfigMap held before, a ready pod's configuration being of that or a later one.
`ServesThroughRollout` says that some pod stays ready, of whatever template; it needs
only typing and that `ScaleDown` takes no ready pod the strategy cannot spare, by
cardinalities of finite sets.

In `GatewayClassProofs`, `Lineage` says that the copies are of this incarnation or
of an earlier one, whether the store was already behind when the reconciliation took
its copy or the class was replaced since, and that a patch under way is from a copy
of a class that was ours.

In `RouteProofs`, `Settled` carries `SettledStatusIsTrue` through a reconciliation:
as long as the world is the one it started in and no read has failed, the entries
built so far are those that a reconciliation alone would have built (`Truthful`),
and what has been read for the next is so. That needs `UpToDate`: without an event
the store is current, and what is not queued has been reconciled. `Earning` is the
weaker statement that survives changes and failed reads: every entry built, and
everything read for the next one (the Gateway, the grants, each backend up to the one
it is at), was so in one of the worlds since the start. A read adds to it
because the present world is always among those (`Witnessed`). That the loop over the
backends ends with the reason the reference chooses is `OneReason`: at most one reason
is that of the first backend that does not resolve.

In `ConfigProofs` the invariant, `Snapshot`, is only that listeners and routes are
of the constants and listener names differ: the code is pure, so that every
property is a statement about one snapshot and the work is in lemmas about its
operators. Each gives the elements of what one function of the code returns, in terms
of the rules, matches and hosts that went in, without places or order. Order matters thrice, and
has lemmas of its own. `Insert` keeps a chain sorted and adds one entry, hence
`ChainElements`: a chain is sorted and holds exactly the entries of its listener.
The first entry that fits is then one that no fitting entry precedes (`FirstFit`),
and comparing keys compares claims: `MostSpecificAlwaysServes` follows from the
converse too, that every rule that must serve a request has an entry that fits
(`FittingIsClaimed`, `ClaimFits`), the pair of entries made from a prefix standing
for one match by path elements. `ChildrenAlwaysAgree` rests on the first listener
of a port being the one whose name both lists carry. `AddressesAlwaysOnce` counts:
every place of a cluster maps to a backend and an address (`ClusterPlaces`), and
that map is injective because deduplication left no two alike.

The assumptions are what the schemas of the API objects say (the Gateway API's CRDs
and core/v1), never what the operator does. `ListenersAssumption`: a listener has a
name, one of three namespace policies, and certificates only if it is not HTTP.
`RoutesAssumption`, `FiltersAssumption`: lists are lists, paths are absolute, match
types are those of the enumeration. `RequestsAssumption`: so are the paths of
requests. `BackingAssumption`: slices and subsets are lists of endpoints.
`NamesAssumption`, `NoneAssumption`: `None` is no cluster and no type. Two
hypotheses are not assumptions of the module, because clusters need not satisfy
them. With `matchExpressions` the controllers do disagree, which is the run
`route_selector`. And `AddressesListedOnce`: Kubernetes allows an endpoint to be in
two slices of a Service for a while, the code does not look for that, and the
address then has two places in the cluster and twice its weight.

The provers know nothing of `SelectSeq` and `SortSeq` of the library, so the models
filter with `Only` of `Selection` and sort with `Insert`, which are defined by
recursive functions.

Model-checked only: liveness, which the provers do not reach (`Converges`,
`DeletionCompletes`, `NewestAnswered`, `EventuallyTrue`, `EventuallyCurrent`,
`EveryClassAccepted`), with one process or two.

## Plan

Done: the Gateway controller, its contract and their proofs; configuration
generation with endpoint resolution and filters, the HTTPRoute controller, listener
statuses, the data plane and GatewayClasses, with the proofs of every safety
property that a passing run checks.

1. An abstract specification of a status controller (the newest generation is
   answered, nothing is claimed that was not so) that `RouteStatus` and
   `ListenerStatus` both implement.
2. `Triggers`: two Gateways and routes that name both: which events wake which.

## Not modelled

Start-up, shutdown and logging; the serialisation of YAML and JSON beyond what
the models read from them; labels, security context, resource limits and probe
timings of the Deployment; the messages and times of conditions (an unchanged
status may or may not be an event, which covers both resolutions of the time);
the matching of grants inside `RouteStatus`, where the verdict is the set of backends
permitted, since `ReferenceGrants` is checked with `ListenerStatus`; the Praxis proxy beyond the
matching, conditions and reloads the configuration relies on; deployment
manifests, scripts and the integration tests, which were read for what they
promise.
