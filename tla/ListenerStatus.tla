--------------------------- MODULE ListenerStatus ---------------------------
(***************************************************************************)
(* What the Gateway controller says of the listeners of one Gateway        *)
(* (gateway_helpers.rs), one step per await: it applies the children, then *)
(* for each certificate of each listener lists the grants of the Secret's  *)
(* namespace and reads the Secret, and at the end patches all of the       *)
(* status.  Between any two steps users change Secrets, grants and the     *)
(* Gateway.  Nothing wakes the controller up for a Secret or a grant: what *)
(* it read is corrected by the next reconciliation, 30 seconds later.      *)
(*                                                                         *)
(*   listener     [name, protocol, kinds, certs], kinds and certs possibly *)
(*                None, certificate [kind, ns, name]                       *)
(*   Secret       None, or what its two entries are: [crt, key]            *)
(*                                                                         *)
(* The class is the controller's own and the Gateway is not deleted:       *)
(* GatewayController models both, RouteAcceptance the attached routes.     *)
(***************************************************************************)
EXTENDS ReferenceGrants, Naturals, Sequences, FiniteSets

CONSTANTS
  Home,                      \* the Gateway's namespace
  GatewaySpecs,              \* what a user may write: [params, listeners]
  SecretRefs,                \* namespace and name of the Secrets there may be
  SecretContents,            \* what a Secret may hold
  GrantSets,                 \* the grants there may be
  InitWorld,
  MaxGeneration, MaxChanges, MaxFaults   \* bounds

Reasons  == {"ResolvedRefs", "InvalidRouteKinds", "InvalidCertificateRef", "RefNotPermitted"}
World    == [secrets : [SecretRefs -> SecretContents], grants : GrantSets]
CertRef  == {c \in [kind : STRING, ns : STRING, name : STRING] : <<c.ns, c.name>> \in SecretRefs}
Listener == [name : STRING, protocol : STRING,
             kinds : {None} \cup SUBSET STRING, certs : {None} \cup Seq(CertRef)]

ASSUME BoundsAssumption ==
  MaxGeneration \in Nat \ {0} /\ MaxChanges \in Nat /\ MaxFaults \in Nat

ASSUME InputsAssumption ==
  /\ None \notin Reasons /\ InitWorld \in World
  /\ GatewaySpecs \subseteq [params : BOOLEAN, listeners : Seq(Listener)]

VARIABLES
  gw,       \* the Gateway: [gen, spec]
  world,    \* [secrets, grants] as they are
  changes, faults,
  status,   \* [gen, accepted, reason, programmed, listeners], gen 0 at first
  volumes,  \* names of the Secrets the Deployment mounts
  event,    \* the Gateway changed and the watch has not delivered it yet
  cache,    \* the store's copy of the Gateway
  queue,    \* "idle", "now", or "later"
  pc, snap, \* where the reconciliation is, and the Gateway it works on
  at,       \* the certificate it is at, of the listener after the last entry
  entries,  \* the listener statuses built so far
  during,   \* history: the worlds there have been since it started
  flawed    \* history: a read of it failed

env  == <<gw, world, changes>>
vars == <<gw, world, changes, faults, status, volumes, event, cache, queue, pc,
          snap, at, entries, during, flawed>>

NoGateway == [gen |-> 0, spec |-> None]
NoStatus  == [gen |-> 0, accepted |-> FALSE, reason |-> None, programmed |-> FALSE,
              listeners |-> <<>>]

Init ==
  /\ \E spec \in GatewaySpecs : gw = [gen |-> 1, spec |-> spec]
  /\ world = InitWorld /\ changes = 0 /\ faults = 0
  /\ status = NoStatus /\ volumes = {}
  /\ event = TRUE /\ cache = NoGateway /\ queue = "idle"
  /\ pc = "idle" /\ snap = NoGateway /\ at = 1 /\ entries = <<>>
  /\ during = {} /\ flawed = FALSE

-----------------------------------------------------------------------------
(* What is said of one listener.                                           *)

Supported(l) == l.protocol \in {"HTTP", "HTTPS"}

\* kinds None stands for the default, HTTPRoute.
SupportedKinds(l) == IF l.kinds = None THEN {"HTTPRoute"} ELSE l.kinds \cap {"HTTPRoute"}
KindsInvalid(l)   == l.kinds # None /\ l.kinds \ {"HTTPRoute"} # {}

UnsupportedListener(l) ==
  [name |-> l.name, accepted |-> FALSE, programmed |-> FALSE, refs |-> None, kinds |-> {}]

AcceptedListener(l, refs) ==
  [name |-> l.name, accepted |-> TRUE, programmed |-> refs = "ResolvedRefs",
   refs |-> refs, kinds |-> SupportedKinds(l)]

Certs(l) == IF l.certs = None THEN <<>> ELSE l.certs

GrantedIn(w, c) == IsReferenceAllowed(Home, "Gateway", c.ns, "Secret", c.name, w.grants)

\* Both entries are there and begin as PEM does.
ValidSecret(contents) ==
  contents # None /\ contents.crt = "pem" /\ contents.key = "pem"

SecretIn(w, c) == w.secrets[<<c.ns, c.name>>]

TlsSecretNames(spec) ==
  {c.name : c \in UNION {{Certs(l)[i] : i \in DOMAIN Certs(l)} :
     l \in {k \in {spec.listeners[i] : i \in DOMAIN spec.listeners} : k.protocol = "HTTPS"}}}

\* The conditions of the Gateway follow from the protocols alone.
GatewayStatus(gen, es) ==
  LET accepted(b) == \E i \in DOMAIN es : es[i].accepted = b
  IN  [gen |-> gen, accepted |-> accepted(TRUE),
       reason |-> IF accepted(TRUE) /\ ~accepted(FALSE) THEN "Accepted" ELSE "ListenersNotValid",
       programmed |-> accepted(TRUE), listeners |-> es]

\* The patch of a rejection names no listeners, which removes those there are.
Rejection(gen) ==
  [gen |-> gen, accepted |-> FALSE, reason |-> "InvalidParameters", programmed |-> FALSE,
   listeners |-> <<>>]

-----------------------------------------------------------------------------
(* The runner and the reconciliation.                                      *)

Watch ==
  /\ event
  /\ event' = FALSE /\ cache' = gw /\ queue' = "now"
  /\ UNCHANGED <<env, faults, status, volumes, pc, snap, at, entries, during, flawed>>

Start ==
  /\ pc = "idle" /\ queue # "idle"
  /\ queue' = "idle"
  /\ snap' = cache /\ at' = 1 /\ entries' = <<>>
  /\ during' = {world} /\ flawed' = FALSE
  /\ pc' = IF cache.spec.params THEN "patch"
           ELSE IF \E i \in DOMAIN cache.spec.listeners : Supported(cache.spec.listeners[i])
           THEN "children" ELSE "listener"
  /\ UNCHANGED <<env, faults, status, volumes, event, cache>>

\* A read either answers or, at the cost of a fault, fails.
Answers == UNCHANGED <<faults, flawed>>
Fails   == faults < MaxFaults /\ faults' = faults + 1 /\ flawed' = TRUE

\* A mistake the runs must notice: only a change wakes the controller up.
DueAfterSuccessNever == queue

Due == IF queue = "now" THEN "now" ELSE "later"

\* Again in 30 seconds, unless something is due sooner.
DueAfterSuccess == Due

\* A mistake the runs must notice: a delay no timer knows.
AbortMistaken == pc' = "idle" /\ queue' = "in60"

Abort == pc' = "idle" /\ queue' = Due

\* Routes and endpoints are read and the three children applied.
ApplyChildren ==
  /\ pc = "children"
  /\ \/ /\ Answers
        /\ volumes' = TlsSecretNames(snap.spec) /\ pc' = "listener" /\ UNCHANGED queue
     \/ /\ Fails
        /\ volumes' \in {volumes, TlsSecretNames(snap.spec)} /\ Abort
  /\ UNCHANGED <<env, status, event, cache, snap, at, entries, during>>

Done      == Len(entries) = Len(snap.spec.listeners)
Current   == snap.spec.listeners[Len(entries) + 1]
Cert      == Certs(Current)[at]
Say(e)    == entries' = Append(entries, e) /\ at' = 1 /\ pc' = "listener"
Refs(why) == Say(AcceptedListener(Current, why))
Goto(p)   == pc' = p /\ UNCHANGED <<entries, at>>

ReadOnly == UNCHANGED <<env, status, volumes, event, cache, queue, snap, during>>

\* What needs no read: the first objection decides, and with the last
\* certificate passed there is none.
Judge ==
  /\ pc = "listener"
  /\ IF Done THEN Goto("patch")
     ELSE IF ~Supported(Current) THEN Say(UnsupportedListener(Current))
     ELSE IF KindsInvalid(Current) THEN Refs("InvalidRouteKinds")
     ELSE IF at > Len(Certs(Current)) THEN Refs("ResolvedRefs")
     ELSE IF Cert.kind # "Secret" THEN Refs("InvalidCertificateRef")
     ELSE IF Cert.ns # Home THEN Goto("grants")
     ELSE Goto("secret")
  /\ Answers /\ ReadOnly

\* A mistake the runs must notice: grants that cannot be listed are taken to
\* permit the reference.
ReadGrantsOpen ==
  /\ pc = "grants"
  /\ \/ Answers /\ GrantedIn(world, Cert) /\ Goto("secret")
     \/ Answers /\ ~GrantedIn(world, Cert) /\ Refs("RefNotPermitted")
     \/ Fails /\ Goto("secret")
  /\ ReadOnly

ReadGrants ==
  /\ pc = "grants"
  /\ \/ Answers /\ GrantedIn(world, Cert) /\ Goto("secret")
     \/ Answers /\ ~GrantedIn(world, Cert) /\ Refs("RefNotPermitted")
     \/ Fails /\ Refs("RefNotPermitted")
  /\ ReadOnly

ReadSecret ==
  /\ pc = "secret"
  /\ \/ /\ Answers /\ ValidSecret(SecretIn(world, Cert))
        /\ at' = at + 1 /\ pc' = "listener" /\ UNCHANGED entries
     \/ Answers /\ ~ValidSecret(SecretIn(world, Cert)) /\ Refs("InvalidCertificateRef")
     \/ Fails /\ Refs("InvalidCertificateRef")
  /\ ReadOnly

\* Its conditions carry the time, so even an unchanged status may be an event.
Applied ==
  /\ status' = IF snap.spec.params THEN Rejection(snap.gen) ELSE GatewayStatus(snap.gen, entries)
  /\ \/ event' = TRUE
     \/ status' = status /\ UNCHANGED event

\* A rejected Gateway waits for a change, any other is due again.
PatchStatus ==
  /\ pc = "patch"
  /\ \/ /\ Applied /\ UNCHANGED faults
        /\ pc' = "idle"
        /\ queue' = IF snap.spec.params THEN queue ELSE DueAfterSuccess
     \/ /\ faults < MaxFaults /\ faults' = faults + 1
        /\ (Applied \/ UNCHANGED <<status, event>>)
        /\ Abort
  /\ UNCHANGED <<env, volumes, cache, snap, at, entries, during, flawed>>

\* The process dies and starts again with an empty store.
Crash ==
  /\ faults < MaxFaults /\ faults' = faults + 1
  /\ pc' = "idle" /\ queue' = "idle" /\ cache' = NoGateway
  /\ event' = TRUE /\ flawed' = TRUE
  /\ UNCHANGED <<env, status, volumes, snap, at, entries, during>>

Operator ==
  \/ Watch \/ Start \/ ApplyChildren \/ Judge \/ ReadGrants \/ ReadSecret \/ PatchStatus

-----------------------------------------------------------------------------
(* Users.                                                                  *)

Own == <<faults, status, volumes, cache, queue, pc, snap, at, entries, flawed>>

EditGateway ==
  /\ gw.gen < MaxGeneration
  /\ \E spec \in GatewaySpecs \ {gw.spec} : gw' = [gen |-> gw.gen + 1, spec |-> spec]
  /\ event' = TRUE
  /\ UNCHANGED <<world, changes, during, Own>>

ChangeWorld ==
  /\ changes < MaxChanges /\ changes' = changes + 1
  /\ \/ \E s \in SecretRefs : \E c \in SecretContents \ {world.secrets[s]} :
          world' = [world EXCEPT !.secrets[s] = c]
     \/ \E gs \in GrantSets \ {world.grants} : world' = [world EXCEPT !.grants = gs]
  /\ during' = during \cup {world'}
  /\ UNCHANGED <<gw, event, Own>>

Next == Operator \/ Crash \/ EditGateway \/ ChangeWorld

\* The watch delivers, a timer fires and the worker of the key goes on; users
\* and faults promise nothing.
Fairness == WF_vars(Operator) /\ WF_vars(Watch)

Spec == Init /\ [][Next]_vars /\ Fairness

-----------------------------------------------------------------------------
(* Properties.                                                             *)

Entry == [name : STRING, accepted : BOOLEAN, programmed : BOOLEAN,
          refs : Reasons \cup {None}, kinds : SUBSET {"HTTPRoute"}]
Gateways == {NoGateway} \cup [gen : 1..MaxGeneration, spec : GatewaySpecs]

TypeOK ==
  /\ gw \in Gateways /\ cache \in Gateways /\ snap \in Gateways
  /\ world \in World /\ during \subseteq World
  /\ changes \in 0..MaxChanges /\ faults \in 0..MaxFaults
  /\ status.gen \in 0..MaxGeneration /\ status.listeners \in Seq(Entry)
  /\ volumes \subseteq {s[2] : s \in SecretRefs}
  /\ event \in BOOLEAN /\ flawed \in BOOLEAN
  /\ queue \in {"idle", "now", "later"}
  /\ pc \in {"idle", "children", "listener", "grants", "secret", "patch"}
  /\ at \in Nat \ {0} /\ entries \in Seq(Entry)

\* What a reconciliation alone in a world would say.
ObjectionIn(w, c) ==
  IF c.kind # "Secret" THEN "InvalidCertificateRef"
  ELSE IF ~GrantedIn(w, c) THEN "RefNotPermitted"
  ELSE IF ~ValidSecret(SecretIn(w, c)) THEN "InvalidCertificateRef"
  ELSE "ResolvedRefs"

RefsIn(w, l) ==
  LET bad == {i \in DOMAIN Certs(l) : ObjectionIn(w, Certs(l)[i]) # "ResolvedRefs"}
  IN  IF KindsInvalid(l) THEN "InvalidRouteKinds"
      ELSE IF bad = {} THEN "ResolvedRefs"
      ELSE ObjectionIn(w, Certs(l)[CHOOSE i \in bad : \A j \in bad : i <= j])

EntryIn(w, l) ==
  IF Supported(l) THEN AcceptedListener(l, RefsIn(w, l)) ELSE UnsupportedListener(l)

StatusIn(w, g) ==
  IF g.spec.params THEN Rejection(g.gen)
  ELSE GatewayStatus(g.gen, [i \in DOMAIN g.spec.listeners |-> EntryIn(w, g.spec.listeners[i])])

\* A certificate was, at some of the moments, permitted and a good Secret.
Passed(moments, c) ==
  (\E w \in moments : GrantedIn(w, c)) /\ (\E w \in moments : ValidSecret(SecretIn(w, c)))

\* What an entry says of a listener was so at some of the moments.
Earned(moments, failed, l, e) ==
  LET certs == Certs(l)
  IN  /\ e.programmed => \A j \in DOMAIN certs : Passed(moments, certs[j])
      /\ e.refs = "RefNotPermitted" /\ ~failed =>
           \E j \in DOMAIN certs : \E w \in moments : ~GrantedIn(w, certs[j])
      /\ e.refs = "InvalidCertificateRef" /\ ~failed =>
           \E j \in DOMAIN certs : \E w \in moments :
             certs[j].kind # "Secret" \/ ~ValidSecret(SecretIn(w, certs[j]))

\* A listener is said to be programmed only if each of its certificates was,
\* at some moment of the reconciliation that says so, permitted, and at some
\* moment a Secret with both entries; and if no read failed, the reason given
\* for an unresolved reference was true of one of them at some moment.  A
\* read that failed makes no good news, and a mix of moments neither makes
\* news that was never true (validate_tls_cert_refs).
NewsIsEarned ==
  [][status' # status =>
       \A i \in DOMAIN status'.listeners :
         Earned(during, flawed, snap.spec.listeners[i], status'.listeners[i])]_vars

\* However Secrets, grants and the Gateway change, reads and patches fail or
\* the process dies, the status is in the end, and for good, that of the
\* newest Gateway in the world as it is: the requeue makes up for what is not
\* watched.
EventuallyTrue == <>[](status = StatusIn(world, gw))

\* What the architecture says of the volumes: each Secret the listeners
\* reference is mounted.  A Deployment mounts Secrets of its own namespace.
Mounted(name) == IF name \in volumes THEN <<Home, name>> ELSE None

ReferencedSecretMounted ==
  \A i \in DOMAIN status.listeners :
    status.gen = gw.gen /\ status.listeners[i].programmed =>
      \A j \in DOMAIN Certs(gw.spec.listeners[i]) :
        LET c == Certs(gw.spec.listeners[i])[j]
        IN  gw.spec.listeners[i].protocol = "HTTPS" => Mounted(c.name) = <<c.ns, c.name>>
=============================================================================
