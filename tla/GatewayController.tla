--------------------------- MODULE GatewayController ---------------------------
(***************************************************************************)
(* The life of one Gateway key (namespace/name) under the Gateway          *)
(* reconciler: the object and its children in the API server, the watch    *)
(* cache and work queue of every operator process, and a reconciliation    *)
(* broken at each of its awaits.                                           *)
(*                                                                         *)
(* Abstractions.  An object with uid 0 does not exist.  A listener spec is *)
(* its generation and a kind: served (some HTTP or HTTPS listener),        *)
(* unserved (none) or params (it carries a parametersRef).  Routes and     *)
(* endpoints are version numbers, and the generated YAML is the tuple of   *)
(* the versions it was generated from, so its hash is the tuple as well.   *)
(* Every configuration takes the same number of reads of endpoints, and    *)
(* two of its reads may see different versions.                            *)
(* Watch events about children, routes and status reach the work queue at  *)
(* once: their delay is the delay between queueing and Start.  Events      *)
(* about the Gateway itself also refresh the cache and are an action,      *)
(* Watch.  Time is abstract: a timer may fire at any moment.               *)
(***************************************************************************)
EXTENDS Naturals

CONSTANTS
    Operators,   \* operator processes running at the same time
    EndpointReads,  \* reads of endpoints one configuration takes
    ClassMoves,  \* allowed changes <<from, to>> of the GatewayClass
    MaxUid,      \* bound: incarnations of the Gateway
    MaxGen,      \* bound: generation of an incarnation
    MaxRoutes,   \* bound: versions of the routes
    MaxEps,      \* bound: versions of the endpoints
    MaxFaults    \* bound: API errors, lost replies, crashes, deleted children

Classes == {"ours", "foreign", "missing"}
Kinds == {"served", "unserved", "params"}

ASSUME BoundsAssumption ==
    /\ MaxUid \in Nat /\ MaxGen \in Nat /\ MaxFaults \in Nat
    /\ MaxRoutes \in Nat /\ MaxEps \in Nat /\ EndpointReads \in Nat \ {0}
    /\ ClassMoves \subseteq Classes \X Classes

VARIABLES
    gw,          \* the Gateway object
    births,      \* incarnations created so far
    gc,          \* controller of the GatewayClass the Gateway names
    routes,      \* version of the HTTPRoutes
    eps,         \* version of the Services and EndpointSlices
    configMap, deployment, service,   \* the children
    status,      \* the Gateway's status
    faults,      \* faults so far
    cache,       \* [Operators -> the Gateway in the reflector's store]
    queue,       \* [Operators -> when the key is scheduled next]
    pc,          \* [Operators -> the await a reconciliation is at]
    snap,        \* [Operators -> the Gateway being reconciled]
    seen         \* [Operators -> what it has read so far]

api == <<gw, births, gc, routes, eps, status>>
children == <<configMap, deployment, service>>
process == <<cache, queue, pc, snap, seen>>
vars == <<api, children, faults, process>>

--------------------------------------------------------------------------------

Object == [uid: Nat, gen: Nat, kind: Kinds, deleting: BOOLEAN, fin: BOOLEAN]
Absent == [uid |-> 0, gen |-> 0, kind |-> "served",
           deleting |-> FALSE, fin |-> FALSE]

\* The reads of endpoints of a configuration, each the version it saw.
Reading == 1..EndpointReads
AllOf(version) == [i \in Reading |-> version]

\* A generated configuration, by the versions it was generated from; ns is
\* FALSE when the namespaces could not be listed and selectors match nothing.
Config == [uid: Nat, gen: Nat, rt: Nat, ns: BOOLEAN, ep: [Reading -> Nat]]
NoConfig == [uid |-> 0, gen |-> 0, rt |-> 0, ns |-> FALSE, ep |-> AllOf(0)]

Service == [uid: Nat, gen: Nat, lb: BOOLEAN]
NoService == [uid |-> 0, gen |-> 0, lb |-> FALSE]

Verdicts == {"none", "programmed", "invalid", "rejected"}
Status == [uid: Nat, gen: Nat, verdict: Verdicts,
           rt: Nat, ns: BOOLEAN, addr: BOOLEAN]
NoStatus == [uid |-> 0, gen |-> 0, verdict |-> "none",
             rt |-> 0, ns |-> FALSE, addr |-> FALSE]

\* What a reconciliation has read; of its reads of endpoints the first done.
Seen == [rt: Nat, ns: BOOLEAN, ep: [Reading -> Nat], done: Nat, addr: BOOLEAN]
Blank == [rt |-> 0, ns |-> FALSE, ep |-> AllOf(0), done |-> 0, addr |-> FALSE]

\* Awaits of apply(), in the order of the code.
ApplyPhases == {"class", "reject", "routes", "namespaces", "endpoints",
                "configMap", "deployment", "service", "address", "status"}
Phases == {"idle", "add", "remove"} \cup ApplyPhases

Schedules == {"idle", "in30", "in15", "now"}

Exists(obj) == obj.uid > 0

TypeOK ==
    /\ gw \in Object /\ births \in Nat /\ gc \in Classes
    /\ routes \in Nat /\ eps \in Nat /\ faults \in Nat
    /\ configMap \in Config /\ deployment \in Config /\ service \in Service
    /\ status \in Status
    /\ cache \in [Operators -> Object] /\ snap \in [Operators -> Object]
    /\ queue \in [Operators -> Schedules] /\ pc \in [Operators -> Phases]
    /\ seen \in [Operators -> Seen]

Init ==
    /\ gw = Absent /\ births = 0 /\ gc \in {"ours", "missing"}
    /\ routes = 0 /\ eps = 0 /\ faults = 0
    /\ configMap = NoConfig /\ deployment = NoConfig /\ service = NoService
    /\ status = NoStatus
    /\ cache = [o \in Operators |-> Absent]
    /\ queue = [o \in Operators |-> "idle"]
    /\ pc = [o \in Operators |-> "idle"]
    /\ snap = [o \in Operators |-> Absent]
    /\ seen = [o \in Operators |-> Blank]

--------------------------------------------------------------------------------
(***************************************************************************)
(* The work queue and the ends of a reconciliation.                        *)
(***************************************************************************)

Everyone == [o \in Operators |-> "now"]

\* The scheduler keeps the earlier of the old and the new time of a key; while
\* the key is being reconciled only "now" can be the old one.
Sooner(q, delay) == IF q = "now" \/ delay = "idle" THEN q ELSE delay

\* A mistake the runs must notice: a delay no timer knows.
ErrorPolicyMistaken(err) == IF err \in {"Kube", "Finalizer"} THEN "in60" ELSE "in30"

\* error_policy: the delay by the kind of error it is handed.
ErrorPolicy(err) == IF err \in {"Kube", "Finalizer"} THEN "in15" ELSE "in30"

\* reconcile() wraps every error of the finalizer helper, and with it every
\* error of apply() and of the finalizer patches, before the policy sees it.
Wrapped(err) == "Finalizer"

Goto(o, phase) == pc' = [pc EXCEPT ![o] = phase] /\ snap' = snap

\* A reconciliation ends; q is the work queue its events have left, and again
\* when the key is wanted next.
Finish(o, q, again) ==
    /\ queue' = [q EXCEPT ![o] = Sooner(@, again)]
    /\ pc' = [pc EXCEPT ![o] = "idle"]
    /\ snap' = [snap EXCEPT ![o] = Absent]
    /\ seen' = [seen EXCEPT ![o] = Blank]

AwaitChange(o, q) == Finish(o, q, "idle")

\* A mistake the runs must notice: an error is not retried.
AbortForGood(o, q, err) == AwaitChange(o, q)

Abort(o, q, err) == Finish(o, q, ErrorPolicy(Wrapped(err)))

\* A call that took effect but whose reply never came back.
LostReply(o, q) == faults < MaxFaults /\ faults' = faults + 1 /\ Abort(o, q, "Kube")

--------------------------------------------------------------------------------
(***************************************************************************)
(* Scheduling, and the four cases of the finalizer helper.                 *)
(***************************************************************************)

\* A watch event of the Gateway reaches the reflector.  A deletion only
\* removes it from the store; any other event also schedules the key.
Watch(o) ==
    /\ cache[o] # gw
    /\ cache' = [cache EXCEPT ![o] = gw]
    /\ queue' = IF Exists(gw) THEN [queue EXCEPT ![o] = "now"] ELSE queue
    /\ UNCHANGED <<api, children, faults, pc, snap, seen>>

\* Mistakes the runs must notice: the finalizer helper is bypassed, and a
\* deletion is taken for an update.
StartUnguarded(o) ==
    /\ pc[o] = "idle" /\ queue[o] # "idle" /\ Exists(cache[o])
    /\ queue' = [queue EXCEPT ![o] = "idle"]
    /\ pc' = [pc EXCEPT ![o] = IF cache[o].deleting THEN "remove" ELSE "class"]
    /\ snap' = [snap EXCEPT ![o] = cache[o]]
    /\ UNCHANGED <<api, children, faults, cache, seen>>

StartNoCleanup(o) ==
    /\ pc[o] = "idle" /\ queue[o] # "idle" /\ Exists(cache[o])
    /\ queue' = [queue EXCEPT ![o] = "idle"]
    /\ pc' = [pc EXCEPT ![o] = IF cache[o].fin THEN "class" ELSE "add"]
    /\ snap' = [snap EXCEPT ![o] = cache[o]]
    /\ UNCHANGED <<api, children, faults, cache, seen>>

\* The runner takes the key, at most once at a time, and reconciles the
\* object it finds in the store.
Start(o) ==
    /\ pc[o] = "idle" /\ queue[o] # "idle"
    /\ queue' = [queue EXCEPT ![o] = "idle"]
    /\ LET obj == cache[o]
           phase == CASE ~Exists(obj) -> "idle"
                      [] Exists(obj) /\ obj.fin /\ ~obj.deleting -> "class"
                      [] Exists(obj) /\ obj.fin /\ obj.deleting -> "remove"
                      [] Exists(obj) /\ ~obj.fin /\ ~obj.deleting -> "add"
                      [] OTHER -> "idle"
       IN  /\ pc' = [pc EXCEPT ![o] = phase]
           /\ snap' = [snap EXCEPT ![o] = IF phase = "idle" THEN Absent ELSE obj]
    /\ UNCHANGED <<api, children, faults, cache, seen>>

\* JSON patch that tests for an empty finalizer list and adds ours.
AddFinalizer(o) ==
    /\ pc[o] = "add"
    /\ IF Exists(gw) /\ ~gw.fin /\ ~gw.deleting
       THEN /\ gw' = [gw EXCEPT !.fin = TRUE]
            /\ \/ AwaitChange(o, queue) /\ faults' = faults
               \/ LostReply(o, queue)
       ELSE Abort(o, queue, "Kube") /\ UNCHANGED <<gw, faults>>
    /\ UNCHANGED <<births, gc, routes, eps, status, children, cache>>

\* cleanup() only logs; then a JSON patch that tests for our finalizer and
\* removes it.  The API server removes a deleting object with none left.
RemoveFinalizer(o) ==
    /\ pc[o] = "remove"
    /\ IF Exists(gw) /\ gw.fin
       THEN /\ gw' = IF gw.deleting THEN Absent ELSE [gw EXCEPT !.fin = FALSE]
            /\ status' = IF gw.deleting THEN NoStatus ELSE status
            /\ \/ AwaitChange(o, queue) /\ faults' = faults
               \/ LostReply(o, queue)
       ELSE Abort(o, queue, "Kube") /\ UNCHANGED <<gw, status, faults>>
    /\ UNCHANGED <<births, gc, routes, eps, children, cache>>

--------------------------------------------------------------------------------
(***************************************************************************)
(* apply(): one action per await.                                          *)
(***************************************************************************)

\* A mistake the runs must notice: parametersRef is overlooked.
CheckClassOnly(o) ==
    /\ pc[o] = "class"
    /\ \/ gc = "ours" /\ UNCHANGED <<seen, queue>> /\ Goto(o, "routes")
       \/ gc = "foreign" /\ AwaitChange(o, queue)
       \/ gc = "missing" /\ Abort(o, queue, "GatewayClassNotFound")
    /\ UNCHANGED <<api, children, faults, cache>>

\* validate_gateway_class, and has_parameters_ref on its result.
CheckClass(o) ==
    /\ pc[o] = "class"
    /\ \/ gc = "ours" /\ UNCHANGED <<seen, queue>>
          /\ Goto(o, IF snap[o].kind = "params" THEN "reject" ELSE "routes")
       \/ gc = "foreign" /\ AwaitChange(o, queue)
       \/ gc = "missing" /\ Abort(o, queue, "GatewayClassNotFound")
    /\ UNCHANGED <<api, children, faults, cache>>

\* A server-side apply of the Gateway's status, by name: a 404 when there is
\* no Gateway.  Condition times are always now(), so that writing the content
\* that is there already may or may not be a watch event.
ApplyStatus(o, new, again) ==
    IF ~Exists(gw)
    THEN Abort(o, queue, "Kube") /\ UNCHANGED <<status, faults>>
    ELSE /\ status' = new
         /\ \E q \in IF new = status THEN {queue, Everyone} ELSE {Everyone} :
              \/ Finish(o, q, again) /\ faults' = faults
              \/ LostReply(o, q)

\* reject_gateway: only conditions are applied, so the addresses and the
\* listeners this field manager applied before are removed.
Reject(o) ==
    /\ pc[o] = "reject"
    /\ LET new == [NoStatus EXCEPT !.uid = snap[o].uid, !.gen = snap[o].gen,
                                   !.verdict = "rejected"]
       IN  ApplyStatus(o, new, "idle")
    /\ UNCHANGED <<gw, births, gc, routes, eps, children, cache>>

ListRoutes(o) ==
    /\ pc[o] = "routes"
    /\ seen' = [seen EXCEPT ![o] = [Blank EXCEPT !.rt = routes]]
    /\ Goto(o, "namespaces")
    /\ UNCHANGED <<api, children, faults, cache, queue>>

\* fetch_all_namespaces: an error is only logged, and the reconciliation
\* goes on as if no namespace matched any selector.
FetchNamespaces(o) ==
    /\ pc[o] = "namespaces"
    /\ \E listed \in BOOLEAN :
          /\ listed \/ faults < MaxFaults
          /\ seen' = [seen EXCEPT ![o].ns = listed]
          /\ faults' = IF listed THEN faults ELSE faults + 1
    /\ Goto(o, IF snap[o].kind = "served" THEN "endpoints" ELSE "address")
    /\ UNCHANGED <<api, children, cache, queue>>

\* build_praxis_config, whose only awaits are in resolve_clusters: Service
\* after Service, their endpoints are read as they are at that moment.
ResolveEndpoints(o) ==
    /\ pc[o] = "endpoints"
    /\ LET next == seen[o].done + 1
       IN  /\ seen' = [seen EXCEPT ![o].ep = [@ EXCEPT ![next] = eps],
                                    ![o].done = next]
           /\ Goto(o, IF next = EndpointReads THEN "configMap" ELSE "endpoints")
    /\ UNCHANGED <<api, children, faults, cache, queue>>

Generated(o) == [uid |-> snap[o].uid, gen |-> snap[o].gen, rt |-> seen[o].rt,
                 ns |-> seen[o].ns, ep |-> seen[o].ep]

\* A server-side apply of a child, by name, owned by the reconciled Gateway:
\* it creates or takes over, and is a watch event only if something changed.
ChildApplied(o, changed, next) ==
    LET q == IF changed THEN Everyone ELSE queue
    IN  \/ Goto(o, next) /\ queue' = q /\ UNCHANGED <<seen, faults>>
        \/ LostReply(o, q)

ApplyConfigMap(o) ==
    /\ pc[o] = "configMap"
    /\ configMap' = Generated(o)
    /\ ChildApplied(o, configMap' # configMap, "deployment")
    /\ UNCHANGED <<api, deployment, service, cache>>

\* A mistake the runs must notice: the hash is of endpoints read again.
ApplyDeploymentReread(o) ==
    /\ pc[o] = "deployment"
    /\ deployment' = [Generated(o) EXCEPT !.ep = AllOf(eps)]
    /\ ChildApplied(o, deployment' # deployment, "service")
    /\ UNCHANGED <<api, configMap, service, cache>>

\* The pod template carries the hash of the configuration.
ApplyDeployment(o) ==
    /\ pc[o] = "deployment"
    /\ deployment' = Generated(o)
    /\ ChildApplied(o, deployment' # deployment, "service")
    /\ UNCHANGED <<api, configMap, service, cache>>

\* The status of an existing Service, and its addresses with it, is kept.
ApplyService(o) ==
    /\ pc[o] = "service"
    /\ service' = [uid |-> snap[o].uid, gen |-> snap[o].gen, lb |-> service.lb]
    /\ ChildApplied(o, service' # service, "address")
    /\ UNCHANGED <<api, configMap, deployment, cache>>

\* resolve_lb_addresses: an error reads as no address.
ReadAddress(o) ==
    /\ pc[o] = "address"
    /\ \/ seen' = [seen EXCEPT ![o].addr = service.lb] /\ faults' = faults
       \/ faults < MaxFaults /\ faults' = faults + 1 /\ seen' = seen
    /\ Goto(o, "status")
    /\ UNCHANGED <<api, children, cache, queue>>

\* build_gateway_conditions: what is said of a generation and the routes
\* listed.  A listener of an unsupported protocol reports no attached route.
StatusOf(o, gen, rt) ==
    LET served == snap[o].kind = "served"
    IN  [uid |-> snap[o].uid, gen |-> gen,
         verdict |-> IF served THEN "programmed" ELSE "invalid",
         rt |-> IF served THEN rt ELSE 0, ns |-> served /\ seen[o].ns,
         addr |-> seen[o].addr]

\* Mistakes the runs must notice: attached routes counted from a new listing,
\* the generation taken from the API server, no requeue, and a Gateway that
\* has its status already is passed over.
PatchStatusRecount(o) ==
    /\ pc[o] = "status" /\ ApplyStatus(o, StatusOf(o, snap[o].gen, routes), "in30")
    /\ UNCHANGED <<gw, births, gc, routes, eps, children, cache>>

PatchStatusNewest(o) ==
    /\ pc[o] = "status" /\ ApplyStatus(o, StatusOf(o, gw.gen, seen[o].rt), "in30")
    /\ UNCHANGED <<gw, births, gc, routes, eps, children, cache>>

PatchStatusOnce(o) ==
    /\ pc[o] = "status" /\ ApplyStatus(o, StatusOf(o, snap[o].gen, seen[o].rt), "idle")
    /\ UNCHANGED <<gw, births, gc, routes, eps, children, cache>>

PatchStatusUnset(o) ==
    /\ pc[o] = "status"
    /\ IF status.uid = snap[o].uid /\ status.verdict # "rejected"
       THEN Finish(o, queue, "in30") /\ UNCHANGED <<status, faults>>
       ELSE ApplyStatus(o, StatusOf(o, snap[o].gen, seen[o].rt), "in30")
    /\ UNCHANGED <<gw, births, gc, routes, eps, children, cache>>

\* build_and_apply_gateway_status, from the snapshot and what was read.
PatchStatus(o) ==
    /\ pc[o] = "status"
    /\ ApplyStatus(o, StatusOf(o, snap[o].gen, seen[o].rt), "in30")
    /\ UNCHANGED <<gw, births, gc, routes, eps, children, cache>>

\* The awaits whose API error ends the reconciliation.
Failing == {"add", "remove"} \cup (ApplyPhases \ {"namespaces", "address"})

Fail(o) ==
    /\ pc[o] \in Failing
    /\ faults < MaxFaults /\ faults' = faults + 1
    /\ Abort(o, queue, "Kube")
    /\ UNCHANGED <<api, children, cache>>

\* The process dies and starts again with an empty store and work queue.
Crash(o) ==
    /\ faults < MaxFaults /\ faults' = faults + 1
    /\ cache' = [cache EXCEPT ![o] = Absent]
    /\ Finish(o, [queue EXCEPT ![o] = "idle"], "idle")
    /\ UNCHANGED <<api, children>>

--------------------------------------------------------------------------------
(***************************************************************************)
(* Users, the other controllers of the cluster, and chance.                *)
(***************************************************************************)

CreateGateway ==
    /\ ~Exists(gw) /\ births < MaxUid
    /\ births' = births + 1
    /\ \E kind \in Kinds :
          gw' = [Absent EXCEPT !.uid = births + 1, !.gen = 1, !.kind = kind]
    /\ UNCHANGED <<gc, routes, eps, status, children, faults, process>>

EditSpec ==
    /\ Exists(gw) /\ gw.gen < MaxGen
    /\ \E kind \in Kinds : gw' = [gw EXCEPT !.gen = @ + 1, !.kind = kind]
    /\ UNCHANGED <<births, gc, routes, eps, status, children, faults, process>>

\* With a finalizer a deletion only marks the object.
DeleteGateway ==
    /\ Exists(gw) /\ ~gw.deleting
    /\ IF gw.fin THEN gw' = [gw EXCEPT !.deleting = TRUE] /\ status' = status
                 ELSE gw' = Absent /\ status' = NoStatus
    /\ UNCHANGED <<births, gc, routes, eps, children, faults, process>>

\* map_route_to_gateway maps a route event to the first Gateway among the
\* parentRefs of the route as it is now: a route that names this Gateway
\* later in its list, or names it no longer, is not mapped to it.
EditRoutes ==
    /\ routes < MaxRoutes
    /\ routes' = routes + 1
    /\ \E mapped \in BOOLEAN : queue' = IF mapped THEN Everyone ELSE queue
    /\ UNCHANGED <<gw, births, gc, eps, status, children, faults,
                   cache, pc, snap, seen>>

\* Neither Services of others nor EndpointSlices are watched.
EditEndpoints ==
    /\ eps < MaxEps
    /\ eps' = eps + 1
    /\ UNCHANGED <<gw, births, gc, routes, status, children, faults, process>>

\* Nor are GatewayClasses, by this controller.
MoveClass ==
    /\ faults < MaxFaults /\ faults' = faults + 1
    /\ \E class \in Classes : <<gc, class>> \in ClassMoves /\ gc' = class
    /\ UNCHANGED <<gw, births, routes, eps, status, children, process>>

AssignLB ==
    /\ Exists(service) /\ ~service.lb
    /\ service' = [service EXCEPT !.lb = TRUE]
    /\ queue' = Everyone
    /\ UNCHANGED <<api, configMap, deployment, faults, cache, pc, snap, seen>>

\* A child not owned by keep is deleted; children are watched.
Remove(keep) ==
    /\ \/ /\ configMap.uid \notin {0, keep} /\ configMap' = NoConfig
          /\ UNCHANGED <<deployment, service>>
       \/ /\ deployment.uid \notin {0, keep} /\ deployment' = NoConfig
          /\ UNCHANGED <<configMap, service>>
       \/ /\ service.uid \notin {0, keep} /\ service' = NoService
          /\ UNCHANGED <<configMap, deployment>>
    /\ queue' = Everyone
    /\ UNCHANGED <<api, cache, pc, snap, seen>>

\* cleanup() leaves the children to the garbage collector, which deletes an
\* object whose owner, by uid, is gone.
CollectGarbage == Remove(gw.uid) /\ UNCHANGED faults

DeleteChild ==
    /\ faults < MaxFaults /\ faults' = faults + 1
    /\ Remove(0)

--------------------------------------------------------------------------------

Operator(o) ==
    \/ Start(o) \/ AddFinalizer(o) \/ RemoveFinalizer(o)
    \/ CheckClass(o) \/ Reject(o) \/ ListRoutes(o) \/ FetchNamespaces(o)
    \/ ResolveEndpoints(o) \/ ApplyConfigMap(o) \/ ApplyDeployment(o)
    \/ ApplyService(o) \/ ReadAddress(o) \/ PatchStatus(o)

Environment ==
    \/ CreateGateway \/ EditSpec \/ DeleteGateway \/ EditRoutes
    \/ EditEndpoints \/ MoveClass \/ AssignLB \/ CollectGarbage \/ DeleteChild

Next ==
    \/ \E o \in Operators : Watch(o) \/ Operator(o) \/ Fail(o) \/ Crash(o)
    \/ Environment

Spec == Init /\ [][Next]_vars

\* The runtime polls every watch and every reconciliation, timers fire, and
\* the garbage collector runs.  Users, faults and the load balancer owe nothing.
Fairness ==
    /\ \A o \in Operators : WF_vars(Watch(o)) /\ WF_vars(Operator(o))
    /\ WF_vars(CollectGarbage)

FairSpec == Spec /\ Fairness

--------------------------------------------------------------------------------
(***************************************************************************)
(* Properties.  Those about a sole operator hold when one process runs.    *)
(***************************************************************************)

ChildNames == {"configMap", "deployment", "service"}

Child(name) == [configMap |-> configMap, deployment |-> deployment,
                service |-> service][name]

\* What the contract sees of this system.
Applied == [name \in ChildNames |->
               [uid |-> Child(name).uid, gen |-> Child(name).gen]]
Acknowledged == [uid |-> status.uid, gen |-> status.gen, verdict |-> status.verdict]

Contract == INSTANCE GatewayContract WITH
    Parts <- ChildNames, last <- births, live <- gw.uid, want <- gw.gen,
    applied <- Applied, ack <- Acknowledged

\* The operator, with its stale caches, retries and crashes, implements the
\* contract: every step of it is a step of the contract or invisible there.
ContractSpec == Contract!Spec

\* While apply() runs on a snapshot with our finalizer, the finalizer keeps
\* that very incarnation in the API server, so that the children and the
\* status, all written by name, cannot reach a successor.
FinalizerGuards ==
    \A o \in Operators :
        pc[o] \in ApplyPhases => gw.fin /\ gw.uid = snap[o].uid

\* A Gateway that reports Programmed with its attached routes never runs
\* less than it reports: a child that exists was applied for this Gateway
\* from the reported generation and route listing or from later ones.
StatusIsBacked ==
    status.verdict = "programmed" =>
        \A name \in ChildNames :
            Exists(Child(name)) =>
                /\ Child(name).uid = status.uid /\ Child(name).gen >= status.gen
                /\ name # "service" => Child(name).rt >= status.rt

\* The pods are never restarted for a configuration the ConfigMap does not
\* hold yet: the hash on the Deployment is of the mounted configuration or
\* of one that read every source earlier, also when an apply stopped between
\* the two.
HashNeverAhead ==
    Exists(configMap) /\ Exists(deployment) /\ configMap.uid = deployment.uid =>
        /\ deployment.gen <= configMap.gen
        /\ deployment.rt <= configMap.rt
        /\ \A i \in Reading : deployment.ep[i] <= configMap.ep[i]

\* No wake-up is lost: a live Gateway nothing is running for and nothing is
\* scheduled for, with every event delivered, is one whose newest spec was
\* rejected or whose class is another controller's.  (It is not, once a class
\* comes back from another controller: nothing watches it.)
NeverForgotten ==
    \A o \in Operators :
        pc[o] = "idle" /\ queue[o] = "idle" /\ cache[o] = gw /\ Exists(gw) =>
            \/ gc = "foreign"
            \/ status.verdict = "rejected" /\ status.gen = gw.gen

\* Once users and faults have come to rest, with the class ours, everything
\* the operator wrote agrees with the newest spec, routes and endpoints.
Settled ==
    gc = "ours" =>
        LET now == [uid |-> gw.uid, gen |-> gw.gen, rt |-> routes,
                    ns |-> TRUE, ep |-> AllOf(eps)]
            reported == <<status.gen, status.verdict>>
        IN  CASE ~Exists(gw) -> \A name \in ChildNames : ~Exists(Child(name))
              [] gw.kind = "served" ->
                    /\ configMap = now /\ deployment = now
                    /\ service.uid = gw.uid /\ service.gen = gw.gen
                    /\ reported = <<gw.gen, "programmed">>
                    /\ status.rt = routes /\ status.ns
                    /\ status.addr = service.lb
              [] gw.kind = "unserved" -> reported = <<gw.gen, "invalid">>
              [] gw.kind = "params" -> reported = <<gw.gen, "rejected">>

Converges == <>[]Settled

\* A deleted Gateway does go: the finalizer never holds it for ever.
DeletionCompletes == gw.deleting ~> ~Exists(gw)
================================================================================
