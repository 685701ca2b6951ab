----------------------------- MODULE RouteProofs -----------------------------
(***************************************************************************)
(* Proofs about the HTTPRoute controller, for any number of Gateways,      *)
(* parentRefs, incarnations, generations, changes and faults.              *)
(***************************************************************************)
EXTENDS RouteStatus, SequenceProofs

Reading == {"gateway", "class", "grants", "backends", "namespaces"}

\* Where a reconciliation can be: at a parentRef it has, or after the last.
Located ==
  /\ pc \in Reading => snap.parents \in Seq(Gateways) /\ at \in 1..Len(snap.parents)
  /\ pc = "patch"   => snap.parents \in Seq(Gateways) /\ at = Len(snap.parents) + 1
  /\ pc \in Reading \ {"gateway"} => gateway \in Listening

\* The present world is among those of the reconciliation.
Witnessed ==
  /\ during # {} => world \in during
  /\ during = {} => pc = "idle" /\ snap.life = 0

\* Without an event the store is current, and what is not to be reconciled
\* again has been.
UpToDate ==
  /\ ~event => cache = route
  /\ queue = "idle" /\ cache.life # 0 => snap = cache

\* The entries a reconciliation alone in w has built after n parentRefs.
Told(w, ps, bs, n) ==
  LET managed == Kept(ps, {g \in Gateways : ManagedIn(w, g)})[n]
  IN  [i \in DOMAIN managed |-> EntryIn(w, managed[i], bs)]

\* If nothing has changed and no read has failed, all it holds is true.
Truthful ==
  pc # "idle" /\ ~flawed /\ during = {world} =>
    /\ entries = Told(world, snap.parents, snap.backends, at - 1)
    /\ pc \in Reading \ {"gateway"} => gateway = world.gw[snap.parents[at]] /\ gateway # None
    /\ pc \in Reading \ {"gateway", "class"} => world.ours
    /\ pc = "backends" =>
         /\ granted = world.granted
         /\ \A j \in 1..(nth - 1) : ReasonIn(world, snap.backends[j]) = "ResolvedRefs"
    /\ pc = "namespaces" =>
         /\ resolved = ResolvedIn(world, snap.backends)
         /\ \A j \in 1..(nth - 1) : gateway.selectors[j] \notin world.labelled

Settled == TypeOK /\ Located /\ Witnessed /\ UpToDate /\ Truthful /\ SettledStatusIsTrue

\* What there must have been among the worlds D for good news of a Gateway.
Present(D, g, l)  == \E w \in D : w.gw[g] = l
Ours(D)           == \E w \in D : w.ours
Granted(D, S)     == \E w \in D : S \subseteq w.granted
Served(D, b)      == \E w \in D : b \in w.services
Labelled(D, l)    == \E i \in DOMAIN l.selectors : \E w \in D : l.selectors[i] \in w.labelled
Allowed(D, l)     == l # None /\ l.meets /\ (l.open \/ Labelled(D, l))

\* The first n backends have been found to resolve, with these grants.
Found(D, bs, grants, n) ==
  \A j \in 1..n : bs[j] \in Core /\ (bs[j] \in Away => bs[j] \in grants) /\ Served(D, bs[j])

Resolves(D, bs) == \E grants : Granted(D, grants) /\ Found(D, bs, grants, Len(bs))

Earned(D, snapshot, e) ==
  /\ e.parent \in {snapshot.parents[j] : j \in DOMAIN snapshot.parents}
  /\ Ours(D)
  /\ e.accepted => \E l : Present(D, e.parent, l) /\ Allowed(D, l)
  /\ e.resolved = "ResolvedRefs" => Resolves(D, snapshot.backends)

\* So it is for the entries, and for what has been read for the next one.
Earning ==
  pc # "idle" =>
    /\ \A i \in DOMAIN entries : Earned(during, snap, entries[i])
    /\ pc \in Reading \ {"gateway"} => Present(during, snap.parents[at], gateway) /\ gateway # None
    /\ pc \in Reading \ {"gateway", "class"} => Ours(during)
    /\ pc = "backends" => Granted(during, granted) /\ Found(during, snap.backends, granted, nth - 1)
    /\ pc = "namespaces" => (resolved = "ResolvedRefs" => Resolves(during, snap.backends))

-----------------------------------------------------------------------------
(* Types.                                                                  *)

LEMMA RouteTypes ==
  /\ NoRoute \in Routes
  /\ \A r \in Routes : /\ r.life \in Nat /\ r.gen \in 0..MaxGeneration
                       /\ r.parents = None \/ r.parents \in Seq(Gateways)
                       /\ r.backends \in Seq(Backends)
<1>1. NoRoute \in Routes
  BY DEF Routes
<1>2. ASSUME NEW r \in Routes
      PROVE  /\ r.life \in Nat /\ r.gen \in 0..MaxGeneration
             /\ r.parents = None \/ r.parents \in Seq(Gateways)
             /\ r.backends \in Seq(Backends)
  <2>1. CASE r = NoRoute
    <3>1. <<>> \in Seq(Backends)
      OBVIOUS
    <3> QED BY <2>1, <3>1, BoundsAssumption DEF NoRoute
  <2>2. CASE r # NoRoute
    BY <1>2, <2>2, BoundsAssumption DEF Routes
  <2> QED BY <2>1, <2>2
<1> QED BY <1>1, <1>2

LEMMA StatusTypes ==
  /\ NoStatus \in Status
  /\ \A g \in 0..MaxGeneration, es \in Seq(Entry) : [gen |-> g, entries |-> es] \in Status
BY BoundsAssumption DEF Status, NoStatus

LEMMA WorldTypes ==
  ASSUME NEW w \in World
  PROVE  /\ \A g \in Gateways : w.gw[g] \in {None} \cup Listening
         /\ w.ours \in BOOLEAN /\ w.granted \subseteq Away
         /\ w.services \subseteq Core /\ w.labelled \subseteq Selectors
BY DEF World

LEMMA ListeningTypes ==
  ASSUME NEW l \in Listening
  PROVE  /\ l.selectors \in Seq(Selectors) /\ l.open \in BOOLEAN /\ l.meets \in BOOLEAN
         /\ Len(l.selectors) \in Nat /\ l # None
BY InputsAssumption DEF Listening

LEMMA TypeInit == Init => TypeOK
<1> SUFFICES ASSUME Init PROVE TypeOK
  OBVIOUS
<1>1. route \in Routes /\ cache \in Routes /\ snap \in Routes
  BY RouteTypes DEF Init
<1>2. status \in Status /\ entries \in Seq(Entry)
  BY StatusTypes DEF Init
<1>3. world \in World /\ during \subseteq World
  BY InputsAssumption DEF Init
<1>4. lives \in 0..MaxLives /\ changes \in 0..MaxChanges /\ faults \in 0..MaxFaults
  BY BoundsAssumption DEF Init
<1>5. event \in BOOLEAN /\ flawed \in BOOLEAN
  BY Zenon DEF Init
<1> QED BY <1>1, <1>2, <1>3, <1>4, <1>5 DEF Init, TypeOK, Phases, Reasons

\* The parentRef a reconciliation is at is a Gateway.
LEMMA AtGateway ==
  TypeOK /\ Located /\ pc \in Reading => snap.parents[at] \in Gateways /\ at + 1 \in Nat \ {0}
BY DEF Located, TypeOK

LEMMA ProceedTypes ==
  ASSUME TypeOK, at + 1 \in Nat \ {0}, NEW es \in Seq(Entry), Proceed(es)
  PROVE  /\ entries' \in Seq(Entry) /\ at' \in Nat \ {0} /\ pc' \in Phases
         /\ gateway' \in {None} \cup Listening /\ granted' \subseteq Away
         /\ resolved' \in Reasons /\ nth' \in Nat \ {0}
BY DEF Proceed, Forget, Phases, Reasons

LEMMA FaultTypes ==
  TypeOK /\ (Answers \/ Fails) => faults' \in 0..MaxFaults /\ flawed' \in BOOLEAN
<1>1. TypeOK /\ Answers => faults' \in 0..MaxFaults /\ flawed' \in BOOLEAN
  BY DEF TypeOK, Answers
<1>2. TypeOK /\ Fails => faults' \in 0..MaxFaults
  BY BoundsAssumption DEF TypeOK, Fails
<1>3. Fails => flawed' \in BOOLEAN
  BY DEF Fails
<1> QED BY <1>1, <1>2, <1>3

LEMMA JudgedTypes ==
  ASSUME TypeOK, snap.parents[at] \in Gateways, NEW accepted \in BOOLEAN
  PROVE  Judged(accepted) \in Seq(Entry)
<1>1. [parent |-> snap.parents[at], accepted |-> accepted, resolved |-> resolved] \in Entry
  BY DEF TypeOK, Entry
<1> QED BY <1>1 DEF Judged, TypeOK

LEMMA ReadTypes ==
  TypeOK /\ Located /\ (ReadGateway \/ ReadClass \/ ReadGrants \/ ReadBackends \/ ReadNamespaces)
    => TypeOK'
<1> SUFFICES ASSUME TypeOK, Located,
                    ReadGateway \/ ReadClass \/ ReadGrants \/ ReadBackends \/ ReadNamespaces
             PROVE  TypeOK'
  OBVIOUS
<1>0. pc \in Reading
  BY DEF ReadGateway, ReadClass, ReadGrants, ReadBackends, ReadNamespaces, Reading
<1>1. snap.parents[at] \in Gateways /\ at + 1 \in Nat \ {0}
  BY <1>0, AtGateway
<1>2. /\ route' \in Routes /\ cache' \in Routes /\ snap' \in Routes
      /\ lives' \in 0..MaxLives /\ status' \in Status
      /\ world' \in World /\ during' \subseteq World
      /\ changes' \in 0..MaxChanges /\ event' \in BOOLEAN
      /\ queue' \in {"idle", "now", "in30"}
  BY DEF ReadGateway, ReadClass, ReadGrants, ReadBackends, ReadNamespaces, ReadOnly, env, TypeOK
<1>3. faults' \in 0..MaxFaults /\ flawed' \in BOOLEAN
  BY FaultTypes DEF ReadGateway, ReadClass, ReadGrants, ReadBackends, LookUp, ReadNamespaces
<1>4. world \in World /\ entries \in Seq(Entry) /\ at \in Nat \ {0}
  BY DEF TypeOK
<1>5. /\ world.gw[snap.parents[at]] \in {None} \cup Listening
      /\ world.granted \subseteq Away
  BY <1>1, <1>4, WorldTypes
<1> DEFINE Locals == /\ entries' \in Seq(Entry) /\ at' \in Nat \ {0} /\ pc' \in Phases
                     /\ gateway' \in {None} \cup Listening /\ granted' \subseteq Away
                     /\ resolved' \in Reasons /\ nth' \in Nat \ {0}
<1>6. ASSUME NEW es \in Seq(Entry), Proceed(es) PROVE Locals
  BY <1>1, <1>6, ProceedTypes
<1>7. ASSUME NEW phase \in Phases, Goto(phase) \/ (phase = pc /\ Again),
             gateway' \in {None} \cup Listening, granted' \subseteq Away, resolved' \in Reasons
      PROVE  Locals
  BY <1>4, <1>7 DEF Goto, Again, TypeOK
<1>8. Locals
  <2>1. CASE ReadGateway
    <3>1. CASE UNCHANGED <<granted, resolved>> /\ Goto("class") /\ gateway' = world.gw[snap.parents[at]]
      BY <1>5, <1>7, <3>1 DEF TypeOK, Phases
    <3> QED BY <1>4, <1>6, <2>1, <3>1 DEF ReadGateway
  <2>2. CASE ReadClass
    <3>1. CASE Goto("grants") /\ UNCHANGED read
      BY <1>7, <3>1 DEF TypeOK, Phases, read
    <3> QED BY <1>4, <1>6, <2>2, <3>1 DEF ReadClass
  <2>3. CASE ReadGrants
    BY <1>5, <1>7, <2>3 DEF ReadGrants, TypeOK, Phases
  <2>4. CASE ReadBackends
    <3>1. CASE \E reason \in Reasons : Resolve(reason)
      BY <1>7, <2>4, <3>1 DEF ReadBackends, Resolve, TypeOK, Phases
    <3>2. CASE Again /\ UNCHANGED resolved
      BY <1>7, <2>4, <3>2 DEF ReadBackends, TypeOK
    <3> QED BY <2>4, <3>1, <3>2 DEF ReadBackends, LookUp, Reasons
  <2>5. CASE ReadNamespaces
    <3>1. gateway \in Listening
      BY <2>5 DEF ReadNamespaces, Located, Reading
    <3>2. gateway.meets \in BOOLEAN /\ (gateway.open /\ gateway.meets) \in BOOLEAN
      BY <3>1, ListeningTypes
    <3>3. \A accepted \in BOOLEAN : Judged(accepted) \in Seq(Entry)
      BY <1>1, JudgedTypes
    <3>4. CASE Again /\ UNCHANGED read
      BY <1>7, <3>4 DEF TypeOK, read
    <3>5. CASE Proceed(Judged(gateway.meets)) \/ Proceed(Judged(gateway.open /\ gateway.meets))
      BY <1>6, <3>2, <3>3, <3>5
    <3> QED BY <2>5, <3>4, <3>5 DEF ReadNamespaces
  <2> QED BY <2>1, <2>2, <2>3, <2>4, <2>5
<1> QED BY <1>2, <1>3, <1>8 DEF TypeOK

LEMMA RunnerTypes ==
  TypeOK /\ (Watch \/ Start \/ PatchStatus \/ Crash) => TypeOK'
<1> SUFFICES ASSUME TypeOK, Watch \/ Start \/ PatchStatus \/ Crash PROVE TypeOK'
  OBVIOUS
<1>1. CASE Watch
  BY <1>1 DEF Watch, env, read, TypeOK
<1>2. CASE Start
  <2>1. /\ pc' \in Phases /\ queue' \in {"idle", "now", "in30"} /\ snap' \in Routes
        /\ at' \in Nat \ {0} /\ entries' \in Seq(Entry) /\ during' \subseteq World
    BY <1>2 DEF Start, Begin, TypeOK, Phases
  <2>2. flawed' \in BOOLEAN
    BY <1>2, Zenon DEF Start, Begin
  <2> QED BY <1>2, <2>1, <2>2 DEF Start, env, read, TypeOK
<1>3. CASE PatchStatus
  <2>1. Applied => status' \in Status /\ event' \in BOOLEAN
    BY RouteTypes, StatusTypes DEF Applied, TypeOK
  <2>2. Abort => pc' \in Phases /\ queue' \in {"idle", "now", "in30"}
    BY DEF Abort, Phases
  <2>3. status' \in Status /\ event' \in BOOLEAN /\ pc' \in Phases
        /\ queue' \in {"idle", "now", "in30"} /\ faults' \in 0..MaxFaults
    BY <1>3, <2>1, <2>2, BoundsAssumption DEF PatchStatus, TypeOK, Phases
  <2> QED BY <1>3, <2>3 DEF PatchStatus, read, TypeOK
<1>4. CASE Crash
  BY <1>4, RouteTypes, BoundsAssumption DEF Crash, Forget, env, TypeOK, Phases, Reasons
<1> QED BY <1>1, <1>2, <1>3, <1>4

LEMMA WorldChanges ==
  TypeOK /\ ChangeWorld => world' \in World /\ world' # world
<1> SUFFICES ASSUME TypeOK, ChangeWorld PROVE world' \in World /\ world' # world
  OBVIOUS
<1>1. world \in World
  BY DEF TypeOK
<1>2. CASE \E g \in Gateways : \E l \in Listenings \ {world.gw[g]} : world' = [world EXCEPT !.gw[g] = l]
  <2>0. PICK g \in Gateways :
          \E l \in Listenings \ {world.gw[g]} : world' = [world EXCEPT !.gw[g] = l]
    BY <1>2
  <2>1. PICK l \in Listenings \ {world.gw[g]} : world' = [world EXCEPT !.gw[g] = l]
    BY <2>0
  <2>2. world'.gw[g] = l /\ l \in {None} \cup Listening
    BY <1>1, <2>1, InputsAssumption DEF World
  <2>3. world' \in World
    BY <1>1, <2>1, <2>2 DEF World
  <2> QED BY <2>1, <2>2, <2>3
<1>3. CASE world' = [world EXCEPT !.ours = ~@]
  BY <1>1, <1>3 DEF World
<1>4. CASE \E b \in Away : world' = [world EXCEPT !.granted = Toggled(b, @)]
  <2>1. PICK b \in Away : world' = [world EXCEPT !.granted = Toggled(b, @)]
    BY <1>4
  <2>2. Toggled(b, world.granted) \subseteq Away /\ Toggled(b, world.granted) # world.granted
    BY <1>1, <2>1, WorldTypes DEF Toggled
  <2> QED BY <1>1, <2>1, <2>2 DEF World
<1>5. CASE \E b \in Core : world' = [world EXCEPT !.services = Toggled(b, @)]
  <2>1. PICK b \in Core : world' = [world EXCEPT !.services = Toggled(b, @)]
    BY <1>5
  <2>2. Toggled(b, world.services) \subseteq Core /\ Toggled(b, world.services) # world.services
    BY <1>1, <2>1, WorldTypes DEF Toggled
  <2> QED BY <1>1, <2>1, <2>2 DEF World
<1>6. CASE \E x \in Selectors : world' = [world EXCEPT !.labelled = Toggled(x, @)]
  <2>1. PICK x \in Selectors : world' = [world EXCEPT !.labelled = Toggled(x, @)]
    BY <1>6
  <2>2. Toggled(x, world.labelled) \subseteq Selectors /\ Toggled(x, world.labelled) # world.labelled
    BY <1>1, <2>1, WorldTypes DEF Toggled
  <2> QED BY <1>1, <2>1, <2>2 DEF World
<1> QED BY <1>2, <1>3, <1>4, <1>5, <1>6 DEF ChangeWorld

LEMMA UserTypes ==
  TypeOK /\ (CreateRoute \/ EditRoute \/ DeleteRoute \/ ChangeWorld) => TypeOK'
<1> SUFFICES ASSUME TypeOK, CreateRoute \/ EditRoute \/ DeleteRoute \/ ChangeWorld PROVE TypeOK'
  OBVIOUS
<1>1. CASE CreateRoute
  <2>1. PICK spec \in Specs : route' = [life |-> lives + 1, gen |-> 1, parents |-> spec.parents,
                                      backends |-> spec.backends]
    BY <1>1 DEF CreateRoute
  <2>2. spec.parents \in {None} \cup Seq(Gateways) /\ spec.backends \in Seq(Backends)
    BY InputsAssumption DEF Spelling
  <2>3. lives + 1 \in 1..MaxLives /\ 1 \in 1..MaxGeneration
    BY <1>1, BoundsAssumption DEF CreateRoute, TypeOK
  <2>4. route' \in Routes /\ lives' \in 0..MaxLives
    BY <1>1, <2>1, <2>2, <2>3 DEF CreateRoute, Routes
  <2> QED BY <1>1, <2>4, StatusTypes DEF CreateRoute, Own, read, TypeOK
<1>2. CASE EditRoute
  <2>1. route' \in Routes
    <3>1. PICK spec \in Specs : route' = [route EXCEPT !.gen = @ + 1, !.parents = spec.parents,
                                                      !.backends = spec.backends]
      BY <1>2 DEF EditRoute
    <3>2. route.life # 0 /\ route.gen < MaxGeneration
      BY <1>2 DEF EditRoute
    <3>3. /\ route \in [life : 1..MaxLives, gen : 1..MaxGeneration,
                       parents : {None} \cup Seq(Gateways), backends : Seq(Backends)]
          /\ spec.parents \in {None} \cup Seq(Gateways) /\ spec.backends \in Seq(Backends)
      BY <3>2, InputsAssumption DEF TypeOK, Routes, NoRoute, Spelling
    <3>4. route.gen + 1 \in 1..MaxGeneration
      BY <3>2, <3>3, BoundsAssumption
    <3> QED BY <3>1, <3>3, <3>4 DEF Routes
  <2> QED BY <1>2, <2>1 DEF EditRoute, Own, read, TypeOK
<1>3. CASE DeleteRoute
  BY <1>3, RouteTypes, StatusTypes DEF DeleteRoute, Own, read, TypeOK
<1>4. CASE ChangeWorld
  <2>1. changes' \in 0..MaxChanges
    BY <1>4, BoundsAssumption DEF ChangeWorld, TypeOK
  <2> QED BY <1>4, <2>1, WorldChanges DEF ChangeWorld, Own, read, TypeOK
<1> QED BY <1>1, <1>2, <1>3, <1>4

LEMMA TypeStep == TypeOK /\ Located /\ [Next]_vars => TypeOK'
<1> SUFFICES ASSUME TypeOK, Located, [Next]_vars PROVE TypeOK'
  OBVIOUS
<1>1. CASE Operator
  BY <1>1, ReadTypes, RunnerTypes DEF Operator
<1>2. CASE UNCHANGED vars
  <2>1. UNCHANGED <<route, lives, status, world, changes, faults, event, cache, queue>>
        /\ UNCHANGED <<pc, snap, at, gateway, granted, resolved, nth, entries, during, flawed>>
    BY <1>2 DEF vars, read
  <2> QED BY <2>1 DEF TypeOK
<1> QED BY <1>1, <1>2, RunnerTypes, UserTypes DEF Next

-----------------------------------------------------------------------------
(* What the steps have in common.                                          *)

Reads == ReadGateway \/ ReadClass \/ ReadGrants \/ ReadBackends \/ ReadNamespaces

LEMMA NextCases ==
  [Next]_vars =>
    Watch \/ Start \/ Reads \/ PatchStatus \/ Crash \/ CreateRoute \/ EditRoute
      \/ DeleteRoute \/ ChangeWorld \/ UNCHANGED vars
BY DEF Next, Operator, Reads

LEMMA ReadsEffect ==
  Reads => /\ pc \in Reading /\ pc' # "idle"
           /\ UNCHANGED <<route, lives, status, world, changes, event, cache, queue, snap, during>>
           /\ (Answers \/ Fails) /\ (~flawed' => ~flawed)
<1> SUFFICES ASSUME Reads
             PROVE  /\ pc \in Reading /\ pc' # "idle"
                    /\ UNCHANGED <<route, lives, status, world, changes, event, cache, queue, snap, during>>
                    /\ (Answers \/ Fails) /\ (~flawed' => ~flawed)
  OBVIOUS
<1>1. pc \in Reading
  BY DEF Reads, ReadGateway, ReadClass, ReadGrants, ReadBackends, ReadNamespaces, Reading
<1>2. ReadOnly
  BY DEF Reads, ReadGateway, ReadClass, ReadGrants, ReadBackends, ReadNamespaces
<1>3. Answers \/ Fails
  BY DEF Reads, ReadGateway, ReadClass, ReadGrants, ReadBackends, LookUp, ReadNamespaces
<1>4. pc' # "idle"
  <2>1. \/ \E es : Proceed(es)
        \/ \E phase \in Reading : Goto(phase)
        \/ Again
    BY DEF Reads, ReadGateway, ReadClass, ReadGrants, ReadBackends, ReadNamespaces, LookUp,
           Resolve, Reading
  <2> QED BY <1>1, <2>1 DEF Proceed, Goto, Again, Reading
<1>5. ~flawed' => ~flawed
  BY <1>3, Zenon DEF Answers, Fails
<1> QED BY <1>1, <1>2, <1>3, <1>4, <1>5 DEF ReadOnly, env

LEMMA StartEffect ==
  Start => /\ pc = "idle" /\ queue # "idle" /\ queue' = "idle"
           /\ snap' = cache /\ at' = 1 /\ entries' = <<>> /\ during' = {world}
           /\ UNCHANGED <<route, status, world, event, cache>>
           /\ \/ pc' = "idle" /\ (cache.life = 0 \/ cache.parents = None)
              \/ pc' = "patch" /\ cache.life # 0 /\ cache.parents = <<>>
              \/ pc' = "gateway" /\ cache.life # 0 /\ cache.parents # None /\ cache.parents # <<>>
BY DEF Start, Begin, env

LEMMA PatchEffect ==
  PatchStatus => /\ pc = "patch" /\ pc' = "idle"
                 /\ UNCHANGED <<route, world, cache, snap, during, flawed>>
                 /\ queue' = "idle" => queue = "idle" /\ Applied
                 /\ Applied \/ UNCHANGED <<status, event>>
BY DEF PatchStatus, Abort

LEMMA UsersEffect ==
  CreateRoute \/ EditRoute \/ DeleteRoute =>
    UNCHANGED <<world, during, cache, queue, pc, snap, at, gateway, granted, resolved, nth, entries, flawed>>
      /\ event'
BY DEF CreateRoute, EditRoute, DeleteRoute, Own, read

LEMMA LocatedStep == TypeOK /\ Located /\ [Next]_vars => Located'
<1> SUFFICES ASSUME TypeOK, Located, [Next]_vars PROVE Located'
  OBVIOUS
<1>1. CASE Reads
  <2>1. /\ pc \in Reading /\ snap' = snap /\ snap.parents \in Seq(Gateways)
        /\ at \in 1..Len(snap.parents) /\ Len(snap.parents) \in Nat
    BY <1>1, ReadsEffect DEF Located
  <2>2. ASSUME NEW es, Proceed(es) PROVE Located'
    <3>1. CASE at = Len(snap.parents)
      BY <2>1, <2>2, <3>1 DEF Located, Proceed, Reading
    <3>2. CASE at # Len(snap.parents)
      <4>1. pc' = "gateway" /\ at' = at + 1
        BY <2>2, <3>2 DEF Proceed
      <4>2. at + 1 \in 1..Len(snap.parents)
        BY <2>1, <3>2
      <4>3. snap'.parents \in Seq(Gateways) /\ at' \in 1..Len(snap'.parents)
        BY <2>1, <4>1, <4>2
      <4> QED BY <4>1, <4>3 DEF Located, Reading
    <3> QED BY <3>1, <3>2
  <2>3. ASSUME pc' \in Reading, at' = at,
               pc' # "gateway" => gateway' \in Listening
        PROVE  Located'
    BY <2>1, <2>3 DEF Located, Reading
  <2>4. CASE ReadGateway \/ ReadClass
    <3>1. CASE \E es : Proceed(es)
      BY <2>2, <3>1
    <3>2. CASE pc' \in {"class", "grants"} /\ at' = at /\ gateway' \in Listening
      BY <2>3, <3>2 DEF Reading
    <3>3. \/ \E es : Proceed(es)
          \/ pc' = "class" /\ at' = at /\ gateway' = world.gw[snap.parents[at]] /\ gateway' # None
          \/ pc = "class" /\ pc' = "grants" /\ at' = at /\ gateway' = gateway
      BY <2>4 DEF ReadGateway, ReadClass, Goto, read
    <3>4. world.gw[snap.parents[at]] \in {None} \cup Listening
      <4>1. world \in World /\ snap.parents[at] \in Gateways
        BY <2>1, AtGateway DEF TypeOK
      <4> QED BY <4>1, WorldTypes
    <3>5. pc = "class" => gateway \in Listening
      BY DEF Located, Reading
    <3> QED BY <3>1, <3>2, <3>3, <3>4, <3>5
  <2>5. CASE ReadGrants
    <3>1. pc' = "backends" /\ at' = at /\ gateway' = gateway
      BY <2>5 DEF ReadGrants, Goto
    <3>2. gateway \in Listening
      BY <2>5 DEF Located, ReadGrants, Reading
    <3> QED BY <2>3, <3>1, <3>2 DEF Reading
  <2>6. CASE ReadBackends
    <3>1. pc = "backends" /\ gateway' = gateway /\ pc' \in {"backends", "namespaces"} /\ at' = at
      BY <2>6 DEF ReadBackends, LookUp, Resolve, Again, Goto
    <3> QED BY <2>3, <3>1 DEF Located, Reading
  <2>7. CASE ReadNamespaces
    <3>1. (\E es : Proceed(es)) \/ (pc = "namespaces" /\ pc' = pc /\ at' = at /\ gateway' = gateway)
      BY <2>7 DEF ReadNamespaces, Again, read
    <3> QED BY <2>2, <2>3, <3>1 DEF Located, Reading
  <2> QED BY <1>1, <2>4, <2>5, <2>6, <2>7 DEF Reads
<1>2. CASE Start
  <2>1. cache \in Routes
    BY DEF TypeOK
  <2>2. cache.parents # None => cache.parents \in Seq(Gateways)
    BY <2>1, RouteTypes
  <2>3. CASE pc' = "gateway"
    BY <1>2, <2>2, <2>3, StartEffect DEF Located, Reading
  <2>4. CASE pc' = "patch"
    <3>1. snap'.parents = <<>> /\ at' = 1
      BY <1>2, <2>4, StartEffect
    <3>2. snap'.parents \in Seq(Gateways) /\ at' = Len(snap'.parents) + 1
      BY <3>1
    <3> QED BY <2>4, <3>2 DEF Located, Reading
  <2>5. CASE pc' = "idle"
    BY <2>5 DEF Located, Reading
  <2> QED BY <1>2, <2>3, <2>4, <2>5, StartEffect
<1>3. CASE PatchStatus \/ Crash
  <2>1. pc' = "idle"
    BY <1>3, PatchEffect DEF Crash
  <2> QED BY <2>1 DEF Located, Reading
<1>4. CASE UNCHANGED <<pc, snap, at, gateway>>
  BY <1>4 DEF Located
<1> QED BY <1>1, <1>2, <1>3, <1>4, NextCases, UsersEffect
        DEF Watch, ChangeWorld, Own, read, vars

LEMMA WitnessedStep == TypeOK /\ Witnessed /\ [Next]_vars => Witnessed'
<1> SUFFICES ASSUME TypeOK, Witnessed, [Next]_vars PROVE Witnessed'
  OBVIOUS
<1>1. CASE Reads
  BY <1>1, ReadsEffect DEF Witnessed, Reading
<1>2. CASE Start
  BY <1>2, StartEffect DEF Witnessed
<1>3. CASE PatchStatus \/ Crash
  BY <1>3, PatchEffect DEF Crash, env, Witnessed
<1>4. CASE ChangeWorld
  BY <1>4 DEF ChangeWorld, Witnessed
<1>5. CASE UNCHANGED <<pc, snap, during, world>>
  BY <1>5 DEF Witnessed
<1> QED BY <1>1, <1>2, <1>3, <1>4, <1>5, NextCases, UsersEffect
        DEF Watch, env, vars

LEMMA UpToDateStep == TypeOK /\ UpToDate /\ [Next]_vars => UpToDate'
<1> SUFFICES ASSUME TypeOK, UpToDate, [Next]_vars PROVE UpToDate'
  OBVIOUS
<1>1. CASE Reads
  BY <1>1, ReadsEffect DEF UpToDate
<1>2. CASE Start
  BY <1>2, StartEffect DEF UpToDate
<1>3. CASE Watch
  BY <1>3 DEF Watch, env, UpToDate
<1>4. CASE PatchStatus
  <2>1. ~event' => ~event
    BY <1>4, PatchEffect DEF Applied
  <2> QED BY <1>4, <2>1, PatchEffect DEF UpToDate
<1>5. CASE Crash
  <2>1. ~event' => route.life = 0
    BY <1>5 DEF Crash
  <2>2. route.life = 0 => route = NoRoute
    BY BoundsAssumption DEF TypeOK, Routes
  <2>3. NoRoute.life = 0
    BY DEF NoRoute
  <2> QED BY <1>5, <2>1, <2>2, <2>3 DEF Crash, env, UpToDate
<1>6. CASE CreateRoute \/ EditRoute \/ DeleteRoute
  BY <1>6, UsersEffect DEF UpToDate
<1>7. CASE UNCHANGED <<route, event, cache, queue, snap>>
  BY <1>7 DEF UpToDate
<1> QED BY <1>1, <1>2, <1>3, <1>4, <1>5, <1>6, <1>7, NextCases DEF ChangeWorld, Own, vars

-----------------------------------------------------------------------------
(* The status is true.                                                     *)

LEMMA ToldNext ==
  ASSUME NEW w, NEW ps \in Seq(Gateways), NEW bs
  PROVE  /\ Told(w, ps, bs, 0) = <<>>
         /\ \A n \in 1..Len(ps) :
              Told(w, ps, bs, n) = IF ManagedIn(w, ps[n])
                                 THEN Append(Told(w, ps, bs, n - 1), EntryIn(w, ps[n], bs))
                                 ELSE Told(w, ps, bs, n - 1)
         /\ StatusIn(w, ps, bs) = Told(w, ps, bs, Len(ps))
<1> DEFINE M == {g \in Gateways : ManagedIn(w, g)}
           K == Kept(ps, M)
<1>0. Len(ps) \in Nat
  OBVIOUS
<1>1. /\ K[0] = <<>>
      /\ \A n \in 1..Len(ps) : K[n] = IF ps[n] \in M THEN Append(K[n - 1], ps[n]) ELSE K[n - 1]
  BY <1>0, KeptNext
<1>2. Told(w, ps, bs, 0) = <<>>
  <2> HIDE DEF K
  <2>1. [i \in DOMAIN K[0] |-> EntryIn(w, K[0][i], bs)] = <<>>
    BY <1>1
  <2> QED BY <2>1 DEF Told, K
<1>3. ASSUME NEW n \in 1..Len(ps)
      PROVE  Told(w, ps, bs, n) = IF ManagedIn(w, ps[n])
                                THEN Append(Told(w, ps, bs, n - 1), EntryIn(w, ps[n], bs))
                                ELSE Told(w, ps, bs, n - 1)
  <2>1. ps[n] \in Gateways /\ n - 1 \in 0..Len(ps)
    OBVIOUS
  <2>2. K[n - 1] \in Seq(Gateways)
    BY <2>1, KeptType
  <2>3. K[n] = IF ManagedIn(w, ps[n]) THEN Append(K[n - 1], ps[n]) ELSE K[n - 1]
    BY <1>1, <2>1
  <2> HIDE DEF K
  <2>4. CASE ManagedIn(w, ps[n])
    <3>1. K[n] = Append(K[n - 1], ps[n])
      BY <2>3, <2>4
    <3> DEFINE old == [i \in DOMAIN K[n - 1] |-> EntryIn(w, K[n - 1][i], bs)]
               new == [i \in DOMAIN K[n] |-> EntryIn(w, K[n][i], bs)]
    <3>2. new = Append(old, EntryIn(w, ps[n], bs))
      BY <2>1, <2>2, <3>1
    <3> QED BY <2>4, <3>2 DEF Told, K
  <2>5. CASE ~ManagedIn(w, ps[n])
    BY <2>3, <2>5 DEF Told, K
  <2> QED BY <2>4, <2>5
<1>4. StatusIn(w, ps, bs) = Told(w, ps, bs, Len(ps))
  BY DEF StatusIn, Told, Only
<1> QED BY <1>2, <1>3, <1>4

\* One more parentRef is read, truthfully.
LEMMA Proceeding ==
  ASSUME TypeOK, Located, pc \in Reading, snap' = snap,
         NEW w \in World, entries = Told(w, snap.parents, snap.backends, at - 1),
         NEW es, Proceed(es),
         es = IF ManagedIn(w, snap.parents[at])
                THEN Append(entries, EntryIn(w, snap.parents[at], snap.backends)) ELSE entries
  PROVE  entries' = Told(w, snap'.parents, snap'.backends, at' - 1)
<1>1. snap.parents \in Seq(Gateways) /\ at \in 1..Len(snap.parents)
  BY DEF Located
<1>2. Told(w, snap.parents, snap.backends, at) = es
  BY <1>1, ToldNext
<1>3. (at + 1) - 1 = at
  BY <1>1
<1> QED BY <1>2, <1>3 DEF Proceed

\* At most one reason is that of the first backend that does not resolve.
LEMMA OneReason ==
  ASSUME NEW w, NEW bs \in Seq(Backends), NEW reason \in Reasons, IsReasonIn(w, bs, reason)
  PROVE  ResolvedIn(w, bs) = reason
<1>1. ASSUME NEW other \in Reasons, IsReasonIn(w, bs, other) PROVE other = reason
  <2>0. DOMAIN bs = 1..Len(bs) /\ Len(bs) \in Nat
    OBVIOUS
  <2> DEFINE First(r, i) == /\ r = ReasonIn(w, bs[i]) /\ r # "ResolvedRefs"
                            /\ \A j \in 1..(i - 1) : ReasonIn(w, bs[j]) = "ResolvedRefs"
             AllWell(r) == r = "ResolvedRefs" /\ \A i \in DOMAIN bs : ReasonIn(w, bs[i]) = "ResolvedRefs"
  <2>1. AllWell(reason) \/ \E i \in DOMAIN bs : First(reason, i)
    BY DEF IsReasonIn
  <2>2. AllWell(other) \/ \E i \in DOMAIN bs : First(other, i)
    BY <1>1 DEF IsReasonIn
  <2>3. ASSUME NEW i \in DOMAIN bs, NEW k \in DOMAIN bs, First(reason, i), First(other, k)
        PROVE  other = reason
    <3>1. ~(i < k) /\ ~(k < i)
      BY <2>0, <2>3
    <3>2. i = k
      BY <2>0, <3>1
    <3> QED BY <2>3, <3>2
  <2> QED BY <2>1, <2>2, <2>3
<1> QED BY <1>1 DEF ResolvedIn

LEMMA AllResolve ==
  ASSUME NEW w, NEW bs \in Seq(Backends), NEW n \in Nat, n > Len(bs),
         \A j \in 1..(n - 1) : ReasonIn(w, bs[j]) = "ResolvedRefs"
  PROVE  ResolvedIn(w, bs) = "ResolvedRefs"
<1>1. \A i \in DOMAIN bs : i \in 1..(n - 1)
  OBVIOUS
<1>2. IsReasonIn(w, bs, "ResolvedRefs")
  BY <1>1 DEF IsReasonIn
<1> QED BY <1>2, OneReason DEF Reasons

LEMMA OneFails ==
  ASSUME NEW w, NEW bs \in Seq(Backends), NEW n \in DOMAIN bs,
         \A j \in 1..(n - 1) : ReasonIn(w, bs[j]) = "ResolvedRefs",
         NEW reason \in Reasons \ {"ResolvedRefs"}, reason = ReasonIn(w, bs[n])
  PROVE  ResolvedIn(w, bs) = reason
<1>1. IsReasonIn(w, bs, reason)
  BY DEF IsReasonIn
<1> QED BY <1>1, OneReason

LEMMA TruthfulReads ==
  TypeOK /\ Located /\ Truthful /\ Reads => Truthful'
<1> SUFFICES ASSUME TypeOK, Located, Truthful, Reads, ~flawed', during' = {world'}
             PROVE  Truthful'
  BY DEF Truthful
  <1> DEFINE w == world
           g == snap.parents[at]
           bs == snap.backends
<1>1. /\ pc \in Reading /\ snap' = snap /\ world' = w /\ during = {w} /\ ~flawed
      /\ pc # "idle"
  BY ReadsEffect DEF Reading
<1>2. /\ entries = Told(w, snap.parents, bs, at - 1)
      /\ pc \in Reading \ {"gateway"} => gateway = w.gw[g] /\ gateway # None
      /\ pc \in Reading \ {"gateway", "class"} => w.ours
      /\ pc = "backends" =>
           /\ granted = w.granted
           /\ \A j \in 1..(nth - 1) : ReasonIn(w, bs[j]) = "ResolvedRefs"
      /\ pc = "namespaces" =>
           /\ resolved = ResolvedIn(w, bs)
           /\ \A j \in 1..(nth - 1) : gateway.selectors[j] \notin w.labelled
  BY <1>1 DEF Truthful
<1>3. Answers /\ ~Fails
  BY Zenon, ReadsEffect DEF Fails
<1>4. /\ w \in World /\ nth \in Nat /\ nth > 0 /\ bs \in Seq(Backends)
      /\ pc # "gateway" => gateway \in Listening
  BY <1>1, RouteTypes DEF TypeOK, Located
<1>5. ASSUME NEW es, Proceed(es),
             es = IF ManagedIn(w, g) THEN Append(entries, EntryIn(w, g, bs)) ELSE entries
      PROVE  Truthful'
  <2>1. entries' = Told(world', snap'.parents, snap'.backends, at' - 1)
    BY <1>1, <1>2, <1>4, <1>5, Proceeding
  <2>2. pc' \in {"gateway", "patch"}
    BY <1>5 DEF Proceed
  <2> QED BY <2>1, <2>2 DEF Truthful, Reading
<1>6. ASSUME UNCHANGED <<at, entries>>,
             pc' \in Reading \ {"gateway"} => gateway' = w.gw[g] /\ gateway' # None,
             pc' \in Reading \ {"gateway", "class"} => w.ours,
             pc' = "backends" =>
               /\ granted' = w.granted
               /\ \A j \in 1..(nth' - 1) : ReasonIn(w, bs[j]) = "ResolvedRefs",
             pc' = "namespaces" =>
               /\ resolved' = ResolvedIn(w, bs)
               /\ \A j \in 1..(nth' - 1) : gateway'.selectors[j] \notin w.labelled
      PROVE  Truthful'
  BY <1>1, <1>2, <1>6 DEF Truthful
<1>7. CASE ReadGateway
  <2>1. CASE w.gw[g] = None
    <3>1. Proceed(entries)
      BY <1>3, <1>7, <2>1 DEF ReadGateway
    <3> QED BY <1>5, <2>1, <3>1 DEF ManagedIn
  <2>2. CASE w.gw[g] # None
    <3>1. pc' = "class" /\ UNCHANGED <<at, entries>> /\ gateway' = w.gw[g]
      BY <1>3, <1>7, <2>2 DEF ReadGateway, Goto
    <3> QED BY <1>6, <2>2, <3>1 DEF Reading
  <2> QED BY <2>1, <2>2
<1>8. CASE ReadClass
  <2>1. pc = "class"
    BY <1>8 DEF ReadClass
  <2>2. CASE w.ours
    <3>1. pc' = "grants" /\ UNCHANGED <<at, entries, gateway>>
      BY <1>3, <1>8, <2>2 DEF ReadClass, Goto, read
    <3> QED BY <1>2, <1>6, <2>1, <2>2, <3>1 DEF Reading
  <2>3. CASE ~w.ours
    <3>1. Proceed(entries)
      BY <1>3, <1>8, <2>3 DEF ReadClass
    <3> QED BY <1>5, <2>3, <3>1 DEF ManagedIn
  <2> QED BY <2>2, <2>3
<1>9. CASE ReadGrants
  <2>1. /\ pc = "grants" /\ pc' = "backends" /\ UNCHANGED <<at, entries, gateway>>
        /\ granted' = w.granted /\ nth' = 1
    BY <1>3, <1>9 DEF ReadGrants, Goto
  <2> QED BY <1>2, <1>6, <2>1 DEF Reading
<1>10. CASE ReadBackends
  <2> DEFINE b == bs[nth]
  <2>1. pc = "backends" /\ gateway' = gateway /\ granted' = granted
    BY <1>10 DEF ReadBackends
  <2>2. /\ granted = w.granted /\ gateway = w.gw[g] /\ gateway # None /\ w.ours
        /\ \A j \in 1..(nth - 1) : ReasonIn(w, bs[j]) = "ResolvedRefs"
    BY <1>2, <2>1 DEF Reading
  <2>3. ASSUME NEW reason, Resolve(reason), ResolvedIn(w, bs) = reason PROVE Truthful'
    <3>1. pc' = "namespaces" /\ nth' = 1 /\ UNCHANGED <<at, entries>> /\ resolved' = ResolvedIn(w, bs)
      BY <2>3 DEF Resolve, Goto
    <3> QED BY <1>6, <2>1, <2>2, <3>1
  <2>4. CASE nth > Len(bs)
    <3>1. Resolve("ResolvedRefs")
      BY <1>4, <1>10, <2>4 DEF ReadBackends
    <3>2. ResolvedIn(w, bs) = "ResolvedRefs"
      BY <1>4, <2>2, <2>4, AllResolve
    <3> QED BY <2>3, <3>1, <3>2
  <2>5. CASE ~(nth > Len(bs))
    <3>1. nth \in DOMAIN bs
      BY <1>4, <2>5
    <3>2. \/ b \notin Core /\ Resolve("InvalidKind")
          \/ b \in Core /\ b \in Away \ granted /\ Resolve("RefNotPermitted")
          \/ b \in Core /\ b \notin Away \ granted /\ LookUp(b)
      BY <1>10, <2>5 DEF ReadBackends
    <3>3. ASSUME NEW reason \in Reasons \ {"ResolvedRefs"}, Resolve(reason), reason = ReasonIn(w, b)
          PROVE  Truthful'
      BY <1>4, <2>2, <2>3, <3>1, <3>3, OneFails
    <3>4. CASE b \notin Core /\ Resolve("InvalidKind")
      BY <3>3, <3>4 DEF ReasonIn, Reasons
    <3>5. CASE b \in Core /\ b \in Away \ granted /\ Resolve("RefNotPermitted")
      BY <2>2, <3>3, <3>5 DEF ReasonIn, Reasons
    <3>6. CASE b \in Core /\ b \notin Away \ granted /\ b \notin w.services /\ Resolve("BackendNotFound")
      BY <2>2, <3>3, <3>6 DEF ReasonIn, Reasons
    <3>7. CASE b \in Core /\ b \notin Away \ granted /\ b \in w.services /\ Again
      <4>1. ReasonIn(w, b) = "ResolvedRefs"
        BY <2>2, <3>7 DEF ReasonIn
      <4>2. nth' = nth + 1 /\ pc' = "backends" /\ UNCHANGED <<at, entries>>
        BY <2>1, <3>7 DEF Again
      <4>3. \A j \in 1..(nth' - 1) : ReasonIn(w, bs[j]) = "ResolvedRefs"
        BY <1>4, <2>2, <4>1, <4>2
      <4> QED BY <1>6, <2>1, <2>2, <4>2, <4>3
    <3> QED BY <1>3, <3>2, <3>4, <3>5, <3>6, <3>7 DEF LookUp
  <2> QED BY <2>4, <2>5
<1>11. CASE ReadNamespaces
  <2> DEFINE l == gateway
  <2>1. pc = "namespaces"
    BY <1>11 DEF ReadNamespaces
  <2>2. /\ ManagedIn(w, g) /\ l = w.gw[g] /\ l # None /\ w.ours /\ resolved = ResolvedIn(w, bs)
        /\ \A j \in 1..(nth - 1) : l.selectors[j] \notin w.labelled
    BY <1>2, <2>1 DEF Reading, ManagedIn
  <2>3. /\ l.selectors \in Seq(Selectors) /\ l.open \in BOOLEAN /\ l.meets \in BOOLEAN
        /\ Len(l.selectors) \in Nat /\ DOMAIN l.selectors = 1..Len(l.selectors)
    BY <1>4, <2>1, ListeningTypes
  <2>4. ASSUME Proceed(Judged(AcceptedIn(w, g))) PROVE Truthful'
    <3>1. Judged(AcceptedIn(w, g)) = Append(entries, EntryIn(w, g, bs))
      BY <2>2 DEF Judged, EntryIn
    <3> QED BY <1>5, <2>2, <2>4, <3>1
  <2>5. CASE nth > Len(l.selectors) /\ Proceed(Judged(l.open /\ l.meets))
    <3>1. AcceptedIn(w, g) <=> l.open /\ l.meets
      BY <1>4, <2>2, <2>3, <2>5 DEF AcceptedIn
    <3>2. AcceptedIn(w, g) = (l.open /\ l.meets)
      BY <3>1 DEF AcceptedIn
    <3> QED BY <2>4, <2>5, <3>2
  <2>6. CASE /\ nth <= Len(l.selectors) /\ l.selectors[nth] \in w.labelled
             /\ Proceed(Judged(l.meets))
    <3>1. nth \in DOMAIN l.selectors
      BY <1>4, <2>3, <2>6
    <3>2. AcceptedIn(w, g) <=> l.meets
      BY <2>2, <2>6, <3>1 DEF AcceptedIn
    <3>3. AcceptedIn(w, g) = l.meets
      BY <2>3, <3>2 DEF AcceptedIn
    <3> QED BY <2>4, <2>6, <3>3
  <2>7. CASE l.selectors[nth] \notin w.labelled /\ Again /\ UNCHANGED read
    <3>1. /\ nth' = nth + 1 /\ pc' = "namespaces"
          /\ UNCHANGED <<at, entries, gateway, granted, resolved>>
      BY <2>1, <2>7 DEF Again, read
    <3>2. \A j \in 1..(nth' - 1) : l.selectors[j] \notin w.labelled
      BY <1>4, <2>2, <2>7, <3>1
    <3> QED BY <1>6, <2>2, <3>1, <3>2
  <2> QED BY <1>3, <1>11, <2>5, <2>6, <2>7 DEF ReadNamespaces
<1> QED BY <1>7, <1>8, <1>9, <1>10, <1>11 DEF Reads

LEMMA TruthfulStep ==
  TypeOK /\ Located /\ Witnessed /\ Truthful /\ [Next]_vars => Truthful'
<1> SUFFICES ASSUME TypeOK, Located, Witnessed, Truthful, [Next]_vars PROVE Truthful'
  OBVIOUS
<1>1. CASE Start
  <2>1. CASE pc' \in {"gateway", "patch"}
    <3>1. snap' = cache /\ at' = 1 /\ entries' = <<>> /\ cache.parents \in Seq(Gateways)
      <4>1. cache \in Routes
        BY DEF TypeOK
      <4>2. cache.parents = <<>> => cache.parents \in Seq(Gateways)
        OBVIOUS
      <4> QED BY <1>1, <2>1, <4>1, <4>2, StartEffect, RouteTypes
    <3>2. Told(world', snap'.parents, snap'.backends, 0) = <<>>
      BY <3>1, ToldNext
    <3>3. at' - 1 = 0
      BY <3>1
    <3> QED BY <2>1, <3>1, <3>2, <3>3 DEF Truthful, Reading
  <2>2. CASE pc' = "idle"
    BY <2>2 DEF Truthful
  <2> QED BY <1>1, <2>1, <2>2, StartEffect
<1>2. CASE PatchStatus \/ Crash
  <2>1. pc' = "idle"
    BY <1>2, PatchEffect DEF Crash
  <2> QED BY <2>1 DEF Truthful
<1>3. CASE ChangeWorld
  <2>1. during' = during \cup {world'} /\ pc' = pc /\ world' # world
    BY <1>3, WorldChanges DEF ChangeWorld, Own
  <2>2. pc' # "idle" => during' # {world'}
    BY <2>1 DEF Witnessed
  <2> QED BY <2>2 DEF Truthful
<1>4. CASE UNCHANGED <<pc, flawed, during, world, entries, snap, at, gateway, granted, resolved, nth>>
  BY <1>4 DEF Truthful
<1> QED BY <1>1, <1>2, <1>3, <1>4, NextCases, TruthfulReads, UsersEffect
        DEF Watch, env, read, vars

LEMMA SettledStep == Settled /\ [Next]_vars => SettledStatusIsTrue'
<1> SUFFICES ASSUME Settled, [Next]_vars,
                    pc' = "idle", queue' = "idle", ~event', ~flawed',
                    route'.life # 0, route'.parents # None, during' = {world'}
             PROVE  status' = [gen |-> route'.gen, entries |-> StatusIn(world', route'.parents, route'.backends)]
  BY DEF SettledStatusIsTrue
<1>0. TypeOK /\ Located /\ Witnessed /\ UpToDate /\ Truthful /\ SettledStatusIsTrue
  BY DEF Settled
<1>1. UpToDate' /\ Truthful' /\ Witnessed'
  BY <1>0, UpToDateStep, TruthfulStep, WitnessedStep
<1>2. CASE PatchStatus
  <2>1. /\ pc = "patch" /\ Applied /\ UNCHANGED <<route, world, cache, snap, during, flawed>>
    BY <1>2, PatchEffect
  <2>2. entries = Told(world, snap.parents, snap.backends, at - 1)
    BY <1>0, <2>1 DEF Truthful
  <2>3. snap.parents \in Seq(Gateways) /\ at - 1 = Len(snap.parents)
    BY <1>0, <2>1 DEF Located
  <2>4. entries = StatusIn(world, snap.parents, snap.backends)
    BY <2>2, <2>3, ToldNext
  <2>5. snap = route
    BY <1>1, <2>1 DEF UpToDate
  <2> QED BY <2>1, <2>4, <2>5 DEF Applied
<1>3. CASE Watch
  <2>1. queue' = "now"
    BY <1>3 DEF Watch, env
  <2> QED BY <2>1
<1>4. CASE Start
  <2>1. cache = route /\ UNCHANGED route
    BY <1>0, <1>4, StartEffect DEF UpToDate
  <2> QED BY <1>4, <2>1, StartEffect
<1>5. CASE Reads
  BY <1>5, ReadsEffect
<1>6. CASE Crash
  <2>1. flawed' = TRUE
    BY <1>6 DEF Crash
  <2> QED BY <2>1, Zenon
<1>7. CASE CreateRoute \/ EditRoute \/ DeleteRoute
  BY <1>7, UsersEffect
<1>8. CASE ChangeWorld
  <2>1. /\ during' = during \cup {world'} /\ world' # world
        /\ UNCHANGED <<route, event, cache, queue, snap>>
    BY <1>0, <1>8, WorldChanges DEF ChangeWorld, Own
  <2>2. during = {}
    BY <1>0, <2>1 DEF Witnessed
  <2>3. snap.life = 0 /\ snap = route
    BY <1>0, <2>1, <2>2 DEF Witnessed, UpToDate
  <2> QED BY <2>1, <2>3
<1>9. CASE UNCHANGED vars
  BY <1>0, <1>9 DEF vars, SettledStatusIsTrue, StatusIn
<1> QED BY <1>2, <1>3, <1>4, <1>5, <1>6, <1>7, <1>8, <1>9, NextCases

LEMMA SettledInit == Init => Settled
<1> SUFFICES ASSUME Init PROVE Settled
  OBVIOUS
<1>1. TypeOK
  BY TypeInit
<1>2. Located /\ Truthful /\ UpToDate
  BY DEF Init, Located, Truthful, UpToDate, Reading
<1>3. Witnessed /\ SettledStatusIsTrue
  BY DEF Init, Witnessed, SettledStatusIsTrue, NoRoute
<1> QED BY <1>1, <1>2, <1>3 DEF Settled

LEMMA SettledInductive == Settled /\ [Next]_vars => Settled'
<1> SUFFICES ASSUME Settled, [Next]_vars PROVE Settled'
  OBVIOUS
<1>1. TypeOK' /\ Located' /\ Witnessed' /\ UpToDate' /\ Truthful'
  BY TypeStep, LocatedStep, WitnessedStep, UpToDateStep, TruthfulStep DEF Settled
<1> QED BY <1>1, SettledStep DEF Settled

LEMMA RouteInvariant == Spec => []Settled
<1> QED BY SettledInit, SettledInductive, PTL DEF Spec

\* Every variable of the HTTPRoute controller keeps its type: no incarnation,
\* generation or parentRef it works on is one nobody wrote.
THEOREM RouteTypeCorrect == Spec => []TypeOK
<1>1. Settled => TypeOK
  BY DEF Settled
<1> QED BY <1>1, RouteInvariant, PTL

\* When the controller is done and nothing has changed or failed since it
\* started, the status is of the newest generation and every entry is true.
THEOREM SettledTruth == Spec => []SettledStatusIsTrue
<1>1. Settled => SettledStatusIsTrue
  BY DEF Settled
<1> QED BY <1>1, RouteInvariant, PTL

-----------------------------------------------------------------------------
(* Good news is earned.                                                    *)

\* What is earned stays earned while the worlds only become more.
LEMMA EarnedKept ==
  ASSUME NEW D, NEW E, D \subseteq E, NEW snapshot, NEW bs
  PROVE  /\ \A e : Earned(D, snapshot, e) => Earned(E, snapshot, e)
         /\ \A g, l : Present(D, g, l) => Present(E, g, l)
         /\ Ours(D) => Ours(E)
         /\ \A S : Granted(D, S) => Granted(E, S)
         /\ \A S, n : Found(D, bs, S, n) => Found(E, bs, S, n)
         /\ Resolves(D, bs) => Resolves(E, bs)
<1>1. /\ \A g, l : Present(D, g, l) => Present(E, g, l)
      /\ Ours(D) => Ours(E)
      /\ \A S : Granted(D, S) => Granted(E, S)
      /\ \A l : Allowed(D, l) => Allowed(E, l)
  BY DEF Present, Ours, Granted, Allowed, Labelled
<1>2. \A b : Served(D, b) => Served(E, b)
  BY DEF Served
<1>3. \A cs, S, n : Found(D, cs, S, n) => Found(E, cs, S, n)
  BY <1>2 DEF Found
<1>4. \A cs : Resolves(D, cs) => Resolves(E, cs)
  BY <1>1, <1>3 DEF Resolves
<1>5. \A e : Earned(D, snapshot, e) => Earned(E, snapshot, e)
  BY <1>1, <1>4 DEF Earned
<1> QED BY <1>1, <1>3, <1>4, <1>5

LEMMA EarningReads ==
  TypeOK /\ Located /\ Witnessed /\ Earning /\ Reads => Earning'
<1> SUFFICES ASSUME TypeOK, Located, Witnessed, Earning, Reads PROVE Earning'
  OBVIOUS
<1> DEFINE g == snap.parents[at]
           bs == snap.backends
<1>1. pc \in Reading /\ pc # "idle" /\ UNCHANGED <<snap, during, world>>
  BY ReadsEffect DEF Reading
<1>2. /\ world \in during /\ world \in World /\ bs \in Seq(Backends) /\ nth \in Nat
      /\ nth > 0
  BY <1>1, RouteTypes DEF Witnessed, TypeOK
<1>3. /\ \A i \in DOMAIN entries : Earned(during, snap, entries[i])
      /\ pc \in Reading \ {"gateway"} => Present(during, g, gateway) /\ gateway # None
      /\ pc \in Reading \ {"gateway", "class"} => Ours(during)
      /\ pc = "backends" => Granted(during, granted) /\ Found(during, bs, granted, nth - 1)
      /\ pc = "namespaces" => (resolved = "ResolvedRefs" => Resolves(during, bs))
  BY <1>1 DEF Earning
<1>5. ASSUME NEW es, Proceed(es), \A i \in DOMAIN es : Earned(during, snap, es[i])
      PROVE  Earning'
  <2>1. entries' = es /\ pc' \in {"gateway", "patch"}
    BY <1>5 DEF Proceed
  <2>2. \A i \in DOMAIN entries' : Earned(during', snap', entries'[i])
    BY <1>1, <1>5, <2>1
  <2> QED BY <2>1, <2>2 DEF Earning, Reading
<1>6. ASSUME UNCHANGED <<at, entries>>,
             pc' \in Reading \ {"gateway"} => Present(during, g, gateway') /\ gateway' # None,
             pc' \in Reading \ {"gateway", "class"} => Ours(during),
             pc' = "backends" => Granted(during, granted') /\ Found(during, bs, granted', nth' - 1),
             pc' = "namespaces" => (resolved' = "ResolvedRefs" => Resolves(during, bs))
      PROVE  Earning'
  <2>1. \A i \in DOMAIN entries' : Earned(during', snap', entries'[i])
    BY <1>1, <1>3, <1>6
  <2>2. snap'.parents[at'] = g /\ snap'.backends = bs
    BY <1>1, <1>6
  <2> QED BY <1>1, <1>6, <2>1, <2>2 DEF Earning
<1>7. CASE ReadGateway
  <2>1. Present(during, g, world.gw[g])
    BY <1>2 DEF Present
  <2>2. CASE Goto("class") /\ gateway' = world.gw[g] /\ world.gw[g] # None
    BY <1>6, <2>1, <2>2 DEF Goto, Reading
  <2>3. CASE Proceed(entries)
    BY <1>3, <1>5, <2>3
  <2> QED BY <1>7, <2>2, <2>3 DEF ReadGateway
<1>8. CASE ReadClass
  <2>1. pc = "class"
    BY <1>8 DEF ReadClass
  <2>2. CASE world.ours /\ Goto("grants") /\ UNCHANGED read
    <3>1. Ours(during)
      BY <1>2, <2>2 DEF Ours
    <3> QED BY <1>3, <1>6, <2>1, <2>2, <3>1 DEF Goto, read, Reading
  <2>3. CASE Proceed(entries)
    BY <1>3, <1>5, <2>3
  <2> QED BY <1>8, <2>2, <2>3 DEF ReadClass
<1>9. CASE ReadGrants
  <2>1. /\ pc = "grants" /\ pc' = "backends" /\ UNCHANGED <<at, entries, gateway>>
        /\ nth' = 1
    BY <1>9 DEF ReadGrants, Goto
  <2>2. granted' \subseteq world.granted
    BY <1>9 DEF ReadGrants
  <2>3. Granted(during, granted')
    BY <1>2, <2>2 DEF Granted
  <2>4. Found(during, bs, granted', nth' - 1)
    BY <2>1 DEF Found
  <2> QED BY <1>3, <1>6, <2>1, <2>3, <2>4 DEF Reading
<1>10. CASE ReadBackends
  <2> DEFINE b == bs[nth]
  <2>1. pc = "backends" /\ gateway' = gateway /\ granted' = granted
    BY <1>10 DEF ReadBackends
  <2>2. /\ Present(during, g, gateway) /\ gateway # None /\ Ours(during)
        /\ Granted(during, granted) /\ Found(during, bs, granted, nth - 1)
    BY <1>3, <2>1 DEF Reading
  <2>3. ASSUME NEW reason, Resolve(reason), reason = "ResolvedRefs" => Resolves(during, bs)
        PROVE  Earning'
    <3>1. pc' = "namespaces" /\ UNCHANGED <<at, entries>> /\ resolved' = reason
      BY <2>3 DEF Resolve, Goto
    <3> QED BY <1>6, <2>1, <2>2, <2>3, <3>1
  <2>4. CASE nth > Len(bs) /\ Resolve("ResolvedRefs")
    <3>1. \A j \in 1..Len(bs) : j \in 1..(nth - 1)
      BY <1>2, <2>4
    <3>2. Found(during, bs, granted, Len(bs))
      BY <2>2, <3>1 DEF Found
    <3> QED BY <2>2, <2>3, <2>4, <3>2 DEF Resolves
  <2>5. CASE Resolve("InvalidKind") \/ Resolve("RefNotPermitted") \/ Resolve("BackendNotFound")
    BY <2>3, <2>5
  <2>6. CASE /\ b \in Core /\ (b \in Away => b \in granted) /\ b \in world.services
             /\ Again /\ UNCHANGED resolved
    <3>1. nth' = nth + 1 /\ pc' = "backends" /\ UNCHANGED <<at, entries>>
      BY <2>1, <2>6 DEF Again
    <3>2. Served(during, b)
      BY <1>2, <2>6 DEF Served
    <3>3. \A j \in 1..(nth' - 1) : j = nth \/ j \in 1..(nth - 1)
      BY <1>2, <3>1
    <3>4. Found(during, bs, granted', nth' - 1)
      BY <2>1, <2>2, <2>6, <3>2, <3>3 DEF Found
    <3> QED BY <1>6, <2>1, <2>2, <3>1, <3>4
  <2> QED BY <1>10, <2>4, <2>5, <2>6 DEF ReadBackends, LookUp
<1>11. CASE ReadNamespaces
  <2> DEFINE l == gateway
  <2>1. pc = "namespaces"
    BY <1>11 DEF ReadNamespaces
  <2>2. /\ Present(during, g, l) /\ l # None /\ Ours(during)
        /\ resolved = "ResolvedRefs" => Resolves(during, bs)
    BY <1>3, <2>1 DEF Reading
  <2>3. /\ l.selectors \in Seq(Selectors) /\ Len(l.selectors) \in Nat
        /\ DOMAIN l.selectors = 1..Len(l.selectors)
    BY <1>1, <2>1, ListeningTypes DEF Located
  <2>4. g \in {snap.parents[j] : j \in DOMAIN snap.parents} /\ entries \in Seq(Entry)
    BY <1>1 DEF Located, TypeOK
  <2>5. ASSUME NEW accepted, accepted => Allowed(during, l), Proceed(Judged(accepted))
        PROVE  Earning'
    <3> DEFINE e == [parent |-> g, accepted |-> accepted, resolved |-> resolved]
    <3>1. e.parent = g /\ (e.accepted <=> accepted) /\ e.resolved = resolved
      OBVIOUS
    <3>2. Earned(during, snap, e)
      BY <2>2, <2>4, <2>5, <3>1 DEF Earned
    <3>3. Judged(accepted) = Append(entries, e)
      BY DEF Judged
    <3> HIDE DEF e
    <3>4. \A i \in DOMAIN Append(entries, e) : Earned(during, snap, Append(entries, e)[i])
      BY <1>3, <2>4, <3>2
    <3> QED BY <1>5, <2>5, <3>3, <3>4
  <2>6. CASE Proceed(Judged(l.open /\ l.meets))
    BY <2>2, <2>5, <2>6 DEF Allowed
  <2>7. CASE /\ nth <= Len(l.selectors) /\ l.selectors[nth] \in world.labelled
             /\ Proceed(Judged(l.meets))
    <3>1. nth \in DOMAIN l.selectors
      BY <1>2, <2>3, <2>7
    <3>2. Labelled(during, l)
      BY <1>2, <2>7, <3>1 DEF Labelled
    <3> QED BY <2>2, <2>5, <2>7, <3>2 DEF Allowed
  <2>8. CASE Again /\ UNCHANGED read
    <3>1. pc' = "namespaces" /\ UNCHANGED <<at, entries, gateway, resolved>>
      BY <2>1, <2>8 DEF Again, read
    <3> QED BY <1>6, <2>2, <3>1
  <2> QED BY <1>11, <2>6, <2>7, <2>8 DEF ReadNamespaces
<1> QED BY <1>7, <1>8, <1>9, <1>10, <1>11 DEF Reads

LEMMA EarningStep ==
  TypeOK /\ Located /\ Witnessed /\ Earning /\ [Next]_vars => Earning'
<1> SUFFICES ASSUME TypeOK, Located, Witnessed, Earning, [Next]_vars PROVE Earning'
  OBVIOUS
<1>1. CASE Start
  BY <1>1, StartEffect DEF Earning, Reading
<1>2. CASE PatchStatus \/ Crash
  <2>1. pc' = "idle"
    BY <1>2, PatchEffect DEF Crash
  <2> QED BY <2>1 DEF Earning
<1>3. CASE ChangeWorld
  <2>1. /\ during \subseteq during'
        /\ UNCHANGED <<pc, snap, at, gateway, granted, resolved, nth, entries>>
    BY <1>3 DEF ChangeWorld, Own, read
  <2>2. /\ \A e : Earned(during, snap, e) => Earned(during', snap, e)
        /\ \A h, l : Present(during, h, l) => Present(during', h, l)
        /\ Ours(during) => Ours(during')
        /\ \A S : Granted(during, S) => Granted(during', S)
        /\ \A S, n : Found(during, snap.backends, S, n) => Found(during', snap.backends, S, n)
        /\ Resolves(during, snap.backends) => Resolves(during', snap.backends)
    BY <2>1, EarnedKept
  <2>3. pc # "idle" => \A i \in DOMAIN entries' : Earned(during', snap', entries'[i])
    BY <2>1, <2>2 DEF Earning
  <2> QED BY <2>1, <2>2, <2>3 DEF Earning
<1>4. CASE UNCHANGED <<pc, during, entries, snap, at, gateway, granted, resolved, nth>>
  BY <1>4 DEF Earning
<1> QED BY <1>1, <1>2, <1>3, <1>4, NextCases, EarningReads, UsersEffect
        DEF Watch, env, read, vars

\* What an earned entry says, in the words of the property.
LEMMA EarnedSays ==
  ASSUME NEW D, NEW snapshot, snapshot.backends \in Seq(Backends), NEW e,
         Earned(D, snapshot, e)
  PROVE  LET bs == {snapshot.backends[j] : j \in DOMAIN snapshot.backends}
         IN  /\ e.parent \in {snapshot.parents[j] : j \in DOMAIN snapshot.parents}
             /\ \E w \in D : w.ours
             /\ e.accepted => \E w \in D :
                  /\ w.gw[e.parent] # None /\ w.gw[e.parent].meets
                  /\ \/ w.gw[e.parent].open
                     \/ \E j \in DOMAIN w.gw[e.parent].selectors :
                          \E v \in D : w.gw[e.parent].selectors[j] \in v.labelled
             /\ e.resolved = "ResolvedRefs" =>
                  /\ \E w \in D : bs \cap Away \subseteq w.granted
                  /\ \A b \in bs : b \in Core /\ \E w \in D : b \in w.services
<1> DEFINE cs == snapshot.backends
           bs == {cs[j] : j \in DOMAIN cs}
<1>1. /\ e.parent \in {snapshot.parents[j] : j \in DOMAIN snapshot.parents}
      /\ \E w \in D : w.ours
  BY DEF Earned, Ours
<1>2. ASSUME e.accepted
      PROVE  \E w \in D :
               /\ w.gw[e.parent] # None /\ w.gw[e.parent].meets
               /\ \/ w.gw[e.parent].open
                  \/ \E j \in DOMAIN w.gw[e.parent].selectors :
                       \E v \in D : w.gw[e.parent].selectors[j] \in v.labelled
  <2>1. PICK l : Present(D, e.parent, l) /\ Allowed(D, l)
    BY <1>2 DEF Earned
  <2>2. PICK w \in D : w.gw[e.parent] = l
    BY <2>1 DEF Present
  <2> QED BY <2>1, <2>2 DEF Allowed, Labelled
<1>3. ASSUME e.resolved = "ResolvedRefs"
      PROVE  /\ \E w \in D : bs \cap Away \subseteq w.granted
             /\ \A b \in bs : b \in Core /\ \E w \in D : b \in w.services
  <2>1. PICK grants : Granted(D, grants) /\ Found(D, cs, grants, Len(cs))
    BY <1>3 DEF Earned, Resolves
  <2>2. PICK w \in D : grants \subseteq w.granted
    BY <2>1 DEF Granted
  <2>3. ASSUME NEW b \in bs
        PROVE  b \in Core /\ (b \in Away => b \in grants) /\ \E v \in D : b \in v.services
    <3>1. PICK j \in 1..Len(cs) : b = cs[j]
      OBVIOUS
    <3> QED BY <2>1, <3>1 DEF Found, Served
  <2> QED BY <2>2, <2>3
<1> QED BY <1>1, <1>2, <1>3

\* A status the controller writes says of a Gateway and of backends no good
\* news that was not true at some moment of the reconciliation, whatever
\* changed or failed meanwhile.
THEOREM GoodNewsEarned == Spec => GoodNewsIsEarned
<1> DEFINE Says(i) ==
        LET e  == status'.entries[i]
            bs == {snap.backends[j] : j \in DOMAIN snap.backends}
        IN  status' # status =>
              /\ e.parent \in {snap.parents[j] : j \in DOMAIN snap.parents}
              /\ \E w \in during : w.ours
              /\ e.accepted => \E w \in during :
                   /\ w.gw[e.parent] # None /\ w.gw[e.parent].meets
                   /\ \/ w.gw[e.parent].open
                      \/ \E j \in DOMAIN w.gw[e.parent].selectors :
                           \E v \in during : w.gw[e.parent].selectors[j] \in v.labelled
              /\ e.resolved = "ResolvedRefs" =>
                   /\ \E w \in during : bs \cap Away \subseteq w.granted
                   /\ \A b \in bs : b \in Core /\ \E w \in during : b \in w.services
           Step == \A i \in DOMAIN status'.entries : Says(i)
<1>1. Init => Earning
  BY DEF Init, Earning
<1>2. Settled /\ Earning /\ [Next]_vars => Earning'
  BY EarningStep DEF Settled
<1>3. Settled /\ Earning /\ [Next]_vars => [Step]_vars
  <2> SUFFICES ASSUME Settled, Earning, [Next]_vars, status' # status,
                      NEW i \in DOMAIN status'.entries
               PROVE  Says(i)
    OBVIOUS
  <2>1. CASE PatchStatus
    <3>1. pc = "patch" /\ status'.entries = entries
      BY <2>1, PatchEffect DEF Applied
    <3>2. Earned(during, snap, status'.entries[i])
      BY <3>1 DEF Earning
    <3>3. snap.backends \in Seq(Backends)
      BY RouteTypes DEF Settled, TypeOK
    <3> QED BY <3>2, <3>3, EarnedSays
  <2>2. CASE CreateRoute \/ DeleteRoute
    BY <2>2 DEF CreateRoute, DeleteRoute, NoStatus
  <2>3. CASE UNCHANGED status
    BY <2>3
  <2> QED BY <2>1, <2>2, <2>3, NextCases, ReadsEffect, StartEffect
          DEF Watch, Crash, env, EditRoute, ChangeWorld, vars
<1>4. Spec => []Settled
  BY RouteInvariant
<1> QED BY <1>1, <1>2, <1>3, <1>4, PTL DEF Spec, GoodNewsIsEarned
=============================================================================
