---------------------------- MODULE RouteStatus -----------------------------
(***************************************************************************)
(* The HTTPRoute controller (httproute.rs) on one HTTPRoute, one step per  *)
(* await: for each parentRef it reads the Gateway, its class, the grants,  *)
(* the Service of each backend up to the first that fails, and the         *)
(* namespace for each listener with a selector up to the first that        *)
(* allows it, and at the end it patches the status with all entries at     *)
(* once.  Between any two steps users change what it has read or is about  *)
(* to read.  A step that has nothing to read is the code between awaits.   *)
(*                                                                         *)
(* A read that fails counts as an answer (nothing found, not permitted,    *)
(* not allowed) and is not retried; only a failed patch is.  The runner of *)
(* kube (one reconciliation per key, a store, one pending wake-up) is      *)
(* modelled as the code uses it.  Of a Gateway there is what the code      *)
(* makes of the listeners a parentRef targets; RouteAcceptance computes    *)
(* it.  A parentRef to anything else is passed over without a read and     *)
(* left out.                                                               *)
(***************************************************************************)
EXTENDS Selection, FiniteSets

CONSTANTS
  None,                      \* no parentRefs at all; no Gateway
  Gateways,
  Selectors,                 \* label selectors of listeners
  Backends,                  \* what backendRefs name: of these
  Core,                      \* are Services
  Away,                      \* are in another namespace than the route
  Specs,                     \* what a user may write in the route
  Listenings,                \* what may become of a Gateway
  InitWorld,                 \* what there is at the start
  MaxLives, MaxGeneration, MaxChanges, MaxFaults   \* bounds

ASSUME BoundsAssumption ==
  /\ MaxLives \in Nat /\ MaxGeneration \in Nat \ {0}
  /\ MaxChanges \in Nat /\ MaxFaults \in Nat

VARIABLES
  route,    \* the object: [life, gen, parents, backends], life 0 when there is none
  lives,    \* incarnations so far
  status,   \* its status: [gen, entries], gen 0 before the first
  world,    \* Gateways, class, grants, Services and namespace as they are
  changes, faults,
  event,    \* the object changed and the watch has not delivered it yet
  cache,    \* the store's copy of the object
  queue,    \* "idle", "now", or "in30" after a failed reconciliation
  pc, snap, \* where the reconciliation is, and the object it works on
  at,       \* the parentRef it is at
  gateway, granted, resolved,   \* what it has read for this parentRef
  nth,      \* the backend or the listener with a selector it is at
  entries,  \* the status entries built so far
  during,   \* history: the worlds there have been since it started
  flawed    \* history: a read of it failed

env  == <<route, lives, status, world, changes>>
read == <<gateway, granted, resolved>>
vars == <<route, lives, status, world, changes, faults, event, cache, queue, pc,
          snap, at, read, nth, entries, during, flawed>>

NoRoute  == [life |-> 0, gen |-> 0, parents |-> None, backends |-> <<>>]
NoStatus == [gen |-> 0, entries |-> <<>>]

Spelling == [parents : {None} \cup Seq(Gateways), backends : Seq(Backends)]

\* What the targeted listeners of a Gateway say of the route: the selectors
\* to ask, in order, up to the first listener that allows it unasked, whether
\* there is one, and whether hostnames meet.
Listening == [selectors : Seq(Selectors), open : BOOLEAN, meets : BOOLEAN]

\* granted and services are of backends, labelled are the selectors that the
\* labels of the route's namespace satisfy.
World == [gw : [Gateways -> {None} \cup Listening], ours : BOOLEAN,
          granted : SUBSET Away, services : SUBSET Core,
          labelled : SUBSET Selectors]

ASSUME InputsAssumption ==
  /\ InitWorld \in World
  /\ Specs \subseteq Spelling /\ Listenings \subseteq {None} \cup Listening
  /\ None \notin Seq(Gateways) /\ None \notin Listening

Reasons == {"ResolvedRefs", "InvalidKind", "RefNotPermitted", "BackendNotFound"}
Entry == [parent : Gateways, accepted : BOOLEAN, resolved : Reasons]

\* What it has read for a parentRef ends with it.
Forget == gateway' = None /\ granted' = {} /\ resolved' = "ResolvedRefs" /\ nth' = 1

Phases == {"idle", "gateway", "class", "grants", "backends", "namespaces", "patch"}

Init ==
  /\ route = NoRoute /\ lives = 0 /\ status = NoStatus
  /\ world = InitWorld /\ changes = 0 /\ faults = 0
  /\ event = FALSE /\ cache = NoRoute /\ queue = "idle"
  /\ pc = "idle" /\ snap = NoRoute /\ at = 1 /\ entries = <<>>
  /\ gateway = None /\ granted = {} /\ resolved = "ResolvedRefs" /\ nth = 1
  /\ during = {} /\ flawed = FALSE

-----------------------------------------------------------------------------
(* The runner and the reconciliation.                                      *)

Watch ==
  /\ event
  /\ event' = FALSE
  /\ cache' = route
  /\ queue' = IF route.life = 0 THEN queue ELSE "now"
  /\ UNCHANGED <<env, faults, pc, snap, at, read, nth, entries, during, flawed>>

Begin(next) ==
  /\ queue' = "idle"
  /\ pc' = next
  /\ snap' = cache /\ at' = 1 /\ entries' = <<>>
  /\ during' = {world} /\ flawed' = FALSE

\* A mistake the runs must notice: nothing to do for a generation that has
\* been answered.
StartIfNewGeneration ==
  /\ pc = "idle" /\ queue # "idle"
  /\ Begin(IF cache.life = 0 \/ cache.parents = None \/ cache.gen = status.gen THEN "idle"
           ELSE IF cache.parents = <<>> THEN "patch" ELSE "gateway")
  /\ UNCHANGED <<env, faults, event, cache, read, nth>>

\* Without parentRefs the status is left as it is; a key whose object is gone
\* from the store is dropped.
Start ==
  /\ pc = "idle" /\ queue # "idle"
  /\ Begin(IF cache.life = 0 \/ cache.parents = None THEN "idle"
           ELSE IF cache.parents = <<>> THEN "patch" ELSE "gateway")
  /\ UNCHANGED <<env, faults, event, cache, read, nth>>

\* On to the next parentRef, to the patch after the last.
Proceed(es) ==
  /\ entries' = es
  /\ at' = at + 1 /\ Forget
  /\ pc' = IF at = Len(snap.parents) THEN "patch" ELSE "gateway"

Goto(phase) == pc' = phase /\ nth' = 1 /\ UNCHANGED <<at, entries>>

Again == nth' = nth + 1 /\ UNCHANGED <<pc, at, entries>>

\* A read either answers or, at the cost of a fault, fails.
Answers == UNCHANGED <<faults, flawed>>
Fails   == faults < MaxFaults /\ faults' = faults + 1 /\ flawed' = TRUE

ReadOnly == UNCHANGED <<env, event, cache, queue, snap, during>>

ReadGateway ==
  /\ pc = "gateway"
  /\ LET g == world.gw[snap.parents[at]]
     IN  \/ Answers /\ g # None /\ gateway' = g /\ Goto("class") /\ UNCHANGED <<granted, resolved>>
         \/ Answers /\ g = None /\ Proceed(entries)
         \/ Fails /\ Proceed(entries)
  /\ ReadOnly

ReadClass ==
  /\ pc = "class"
  /\ \/ Answers /\ world.ours /\ Goto("grants") /\ UNCHANGED read
     \/ Answers /\ ~world.ours /\ Proceed(entries)
     \/ Fails /\ Proceed(entries)
  /\ ReadOnly

ReadGrants ==
  /\ pc = "grants"
  /\ \/ Answers /\ granted' = world.granted
     \/ Fails /\ granted' = {}
  /\ Goto("backends")
  /\ ReadOnly /\ UNCHANGED <<gateway, resolved>>

\* The backends come to this, and the listeners are next.
Resolve(reason) == resolved' = reason /\ Goto("namespaces")

LookUp(b) ==
  \/ Answers /\ b \in world.services /\ Again /\ UNCHANGED resolved
  \/ Answers /\ b \notin world.services /\ Resolve("BackendNotFound")
  \/ Fails /\ Resolve("BackendNotFound")

\* A mistake the runs must notice: a grant is not asked for.
ReadBackendsUngranted ==
  /\ pc = "backends"
  /\ \/ nth > Len(snap.backends) /\ Answers /\ Resolve("ResolvedRefs")
     \/ /\ nth <= Len(snap.backends)
        /\ LET b == snap.backends[nth]
           IN  \/ b \notin Core /\ Answers /\ Resolve("InvalidKind")
               \/ b \in Core /\ LookUp(b)
  /\ ReadOnly /\ UNCHANGED <<gateway, granted>>

\* check_backend_refs: backend after backend, up to the first that is not a
\* Service, is in another namespace without a grant, or is not there.
ReadBackends ==
  /\ pc = "backends"
  /\ \/ nth > Len(snap.backends) /\ Answers /\ Resolve("ResolvedRefs")
     \/ /\ nth <= Len(snap.backends)
        /\ LET b == snap.backends[nth]
           IN  \/ b \notin Core /\ Answers /\ Resolve("InvalidKind")
               \/ b \in Core \cap (Away \ granted) /\ Answers /\ Resolve("RefNotPermitted")
               \/ b \in Core /\ (b \in Away => b \in granted) /\ LookUp(b)
  /\ ReadOnly /\ UNCHANGED <<gateway, granted>>

Judged(accepted) ==
  Append(entries, [parent |-> snap.parents[at], accepted |-> accepted, resolved |-> resolved])

\* route_allowed_by_listeners reads the namespace anew for every selector it
\* comes to, and hostnames_intersect comes after it.
ReadNamespaces ==
  /\ pc = "namespaces"
  /\ \/ /\ nth > Len(gateway.selectors) /\ Answers
        /\ Proceed(Judged(gateway.open /\ gateway.meets))
     \/ /\ nth <= Len(gateway.selectors)
        /\ \/ /\ gateway.selectors[nth] \in world.labelled /\ Answers
              /\ Proceed(Judged(gateway.meets))
           \/ gateway.selectors[nth] \notin world.labelled /\ Answers /\ Again /\ UNCHANGED read
           \/ Fails /\ Again /\ UNCHANGED read
  /\ ReadOnly

\* A mistake the runs must notice: a failed patch is not tried again.
AbortForGood == pc' = "idle" /\ UNCHANGED queue

\* A mistake the runs must notice: a delay no timer knows.
AbortMistaken == pc' = "idle" /\ queue' = IF queue = "now" THEN "now" ELSE "in60"

\* error_policy: again in 30 seconds, unless something is due sooner.
Abort == pc' = "idle" /\ queue' = IF queue = "now" THEN "now" ELSE "in30"

\* The patch names the object only.  Its conditions carry the time of their
\* making, so even an unchanged status may change the object.
Applied ==
  /\ route.life # 0
  /\ status' = [gen |-> snap.gen, entries |-> entries]
  /\ \/ event' = TRUE
     \/ status' = status /\ UNCHANGED event

PatchStatus ==
  /\ pc = "patch"
  /\ \/ Applied /\ pc' = "idle" /\ UNCHANGED <<queue, faults>>
     \/ route.life = 0 /\ Abort /\ UNCHANGED <<status, event, faults>>
     \/ /\ faults < MaxFaults /\ faults' = faults + 1
        /\ (Applied \/ UNCHANGED <<status, event>>)
        /\ Abort
  /\ at' = 1 /\ entries' = <<>>
  /\ UNCHANGED <<route, lives, world, changes, cache, snap, read, nth, during, flawed>>

\* The process dies and starts again with an empty store.
Crash ==
  /\ faults < MaxFaults /\ faults' = faults + 1
  /\ pc' = "idle" /\ queue' = "idle" /\ cache' = NoRoute
  /\ event' = (route.life # 0)
  /\ flawed' = TRUE
  /\ at' = 1 /\ Forget /\ entries' = <<>>
  /\ UNCHANGED <<env, snap, during>>

Operator ==
  \/ Watch \/ Start \/ ReadGateway \/ ReadClass \/ ReadGrants \/ ReadBackends
  \/ ReadNamespaces \/ PatchStatus

-----------------------------------------------------------------------------
(* Users.                                                                  *)

Own == <<faults, cache, queue, pc, snap, at, read, nth, entries, flawed>>

CreateRoute ==
  /\ route.life = 0 /\ lives < MaxLives
  /\ \E spec \in Specs : route' = [life |-> lives + 1, gen |-> 1, parents |-> spec.parents,
                                  backends |-> spec.backends]
  /\ lives' = lives + 1
  /\ status' = NoStatus /\ event' = TRUE
  /\ UNCHANGED <<world, changes, during, Own>>

EditRoute ==
  /\ route.life # 0 /\ route.gen < MaxGeneration
  /\ \E spec \in Specs \ {[parents |-> route.parents, backends |-> route.backends]} :
       route' = [route EXCEPT !.gen = @ + 1, !.parents = spec.parents,
                              !.backends = spec.backends]
  /\ event' = TRUE
  /\ UNCHANGED <<lives, status, world, changes, during, Own>>

DeleteRoute ==
  /\ route.life # 0
  /\ route' = NoRoute /\ status' = NoStatus /\ event' = TRUE
  /\ UNCHANGED <<lives, world, changes, during, Own>>

Toggled(x, S) == IF x \in S THEN S \ {x} ELSE S \cup {x}

\* Nothing tells the controller of any of these.
ChangeWorld ==
  /\ changes < MaxChanges /\ changes' = changes + 1
  /\ \/ \E g \in Gateways : \E l \in Listenings \ {world.gw[g]} : world' = [world EXCEPT !.gw[g] = l]
     \/ world' = [world EXCEPT !.ours = ~@]
     \/ \E b \in Away : world' = [world EXCEPT !.granted = Toggled(b, @)]
     \/ \E b \in Core : world' = [world EXCEPT !.services = Toggled(b, @)]
     \/ \E s \in Selectors : world' = [world EXCEPT !.labelled = Toggled(s, @)]
  /\ during' = during \cup {world'}
  /\ UNCHANGED <<route, lives, status, event, Own>>

Next == Operator \/ Crash \/ CreateRoute \/ EditRoute \/ DeleteRoute \/ ChangeWorld

\* The watch delivers, and the one worker of the key goes on; users and
\* faults promise nothing.
Fairness == WF_vars(Operator) /\ WF_vars(Watch)

Spec == Init /\ [][Next]_vars /\ Fairness

-----------------------------------------------------------------------------
(* Properties.                                                             *)

Status == [gen : 0..MaxGeneration, entries : Seq(Entry)]
Routes == {NoRoute} \cup [life : 1..MaxLives, gen : 1..MaxGeneration,
                          parents : {None} \cup Seq(Gateways), backends : Seq(Backends)]

TypeOK ==
  /\ route \in Routes /\ cache \in Routes /\ snap \in Routes
  /\ lives \in 0..MaxLives
  /\ status \in Status /\ entries \in Seq(Entry)
  /\ world \in World /\ during \subseteq World
  /\ changes \in 0..MaxChanges /\ faults \in 0..MaxFaults
  /\ event \in BOOLEAN /\ flawed \in BOOLEAN
  /\ queue \in {"idle", "now", "in30"} /\ pc \in Phases
  /\ at \in Nat \ {0} /\ nth \in Nat \ {0}
  /\ gateway \in {None} \cup Listening /\ granted \subseteq Away
  /\ resolved \in Reasons

\* An entry is true of a world if it is what a reconciliation alone in that
\* world would write.
AcceptedIn(w, g) ==
  LET l == w.gw[g]
  IN  l.meets /\ (l.open \/ \E i \in DOMAIN l.selectors : l.selectors[i] \in w.labelled)
ReasonIn(w, b) ==
  IF b \notin Core THEN "InvalidKind"
  ELSE IF b \in Away \ w.granted THEN "RefNotPermitted"
  ELSE IF b \in w.services THEN "ResolvedRefs" ELSE "BackendNotFound"
\* That of the first backend that does not resolve.
IsReasonIn(w, bs, reason) ==
  \/ reason = "ResolvedRefs" /\ \A i \in DOMAIN bs : ReasonIn(w, bs[i]) = "ResolvedRefs"
  \/ \E i \in DOMAIN bs :
        /\ reason = ReasonIn(w, bs[i]) /\ reason # "ResolvedRefs"
        /\ \A j \in 1..(i - 1) : ReasonIn(w, bs[j]) = "ResolvedRefs"
ResolvedIn(w, bs) == CHOOSE reason \in Reasons : IsReasonIn(w, bs, reason)
ManagedIn(w, g) == w.gw[g] # None /\ w.ours

EntryIn(w, g, bs) == [parent |-> g, accepted |-> AcceptedIn(w, g), resolved |-> ResolvedIn(w, bs)]

StatusIn(w, ps, bs) ==
  LET managed == Only(ps, {g \in Gateways : ManagedIn(w, g)})
  IN  [i \in DOMAIN managed |-> EntryIn(w, managed[i], bs)]

\* Good news is never invented: when a status says that a Gateway accepted
\* the route or that its backends resolve, the Gateway was there, of this
\* controller's class and with a listener that allows it, the grants of all
\* backends stood together, and every Service was there, each at some moment
\* of the reconciliation that wrote it, whatever changed and whichever reads
\* failed meanwhile (build_parent_status).
GoodNewsIsEarned ==
  [][\A i \in DOMAIN status'.entries :
       LET e  == status'.entries[i]
           bs == {snap.backends[j] : j \in DOMAIN snap.backends}
       IN  status' # status =>
             /\ e.parent \in {snap.parents[j] : j \in DOMAIN snap.parents}
             /\ \E w \in during : w.ours
             /\ e.accepted => \E w \in during :
                  /\ w.gw[e.parent] # None /\ w.gw[e.parent].meets
                  /\ \/ w.gw[e.parent].open
                     \/ \E j \in DOMAIN w.gw[e.parent].selectors :
                          \E v \in during : w.gw[e.parent].selectors[j] \in v.labelled
             /\ e.resolved = "ResolvedRefs" =>
                  /\ \E w \in during : bs \cap Away \subseteq w.granted
                  /\ \A b \in bs : b \in Core /\ \E w \in during : b \in w.services]_vars

\* When the controller is done, nothing is pending, no read of the last
\* reconciliation failed and nothing has changed since it started, the status
\* is of the newest generation and every entry of it is true: no result of an
\* earlier reconciliation, parentRef or incarnation is left in it.
SettledStatusIsTrue ==
  /\ pc = "idle" /\ queue = "idle" /\ ~event /\ ~flawed
  /\ route.life # 0 /\ route.parents # None
  /\ during = {world}
  => status = [gen |-> route.gen, entries |-> StatusIn(world, route.parents, route.backends)]

\* Every route with parentRefs is in the end answered: its status is written
\* for its newest generation and stays so, although patches fail, take effect
\* without a reply, or hit an incarnation they were not made for, and the
\* process may die at any step.
NewestAnswered ==
  <>[](route.life # 0 /\ route.parents # None => status.gen = route.gen)
=============================================================================
