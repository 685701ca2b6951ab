--------------------------- MODULE ListenerProofs ---------------------------
(***************************************************************************)
(* Proofs about the status of the listeners, for every set of Gateways,    *)
(* Secrets and grants and all bounds: it is well typed, and no news is     *)
(* reported that was not true at some moment of the reconciliation.        *)
(***************************************************************************)
EXTENDS ListenerStatus, SequenceTheorems, TLAPS

\* What is written, stored and worked on is a Gateway that was written.
Written ==
  /\ gw.spec \in GatewaySpecs
  /\ queue # "idle" \/ pc # "idle" => cache.spec \in GatewaySpecs
  /\ pc # "idle" => snap.spec \in GatewaySpecs

\* The listener statuses built so far are of the first listeners, and what
\* reads a certificate has one to read.
InRange ==
  pc # "idle" =>
    /\ Len(entries) <= Len(snap.spec.listeners)
    /\ pc \in {"grants", "secret"} => ~Done /\ at \in DOMAIN Certs(Current)

Typed == TypeOK /\ Written /\ InRange

-----------------------------------------------------------------------------
LEMMA SpecType ==
  ASSUME NEW spec \in GatewaySpecs
  PROVE  /\ spec.params \in BOOLEAN /\ spec.listeners \in Seq(Listener)
         /\ Len(spec.listeners) \in Nat
         /\ DOMAIN spec.listeners = 1..Len(spec.listeners)
<1>1. spec \in [params : BOOLEAN, listeners : Seq(Listener)]
  BY InputsAssumption
<1> QED BY <1>1

LEMMA CertsType ==
  ASSUME NEW l \in Listener
  PROVE  /\ Certs(l) \in Seq(CertRef) /\ Len(Certs(l)) \in Nat
         /\ DOMAIN Certs(l) = 1..Len(Certs(l))
<1>1. Certs(l) \in Seq(CertRef)
  BY DEF Certs, Listener
<1> QED BY <1>1

LEMMA CurrentType ==
  ASSUME Typed, pc # "idle", ~Done PROVE Current \in Listener
<1>1. snap.spec \in GatewaySpecs /\ Len(entries) \in Nat
  BY DEF Typed, Written, TypeOK
<1>2. Len(entries) + 1 \in 1..Len(snap.spec.listeners)
  BY <1>1, SpecType DEF Typed, InRange, Done
<1> QED BY <1>1, <1>2, SpecType DEF Current

LEMMA EntryType ==
  ASSUME NEW l \in Listener
  PROVE  /\ UnsupportedListener(l) \in Entry
         /\ \A refs \in Reasons : AcceptedListener(l, refs) \in Entry
<1>1. UnsupportedListener(l) \in Entry
  BY DEF UnsupportedListener, Entry, Listener
<1>2. ASSUME NEW refs \in Reasons PROVE AcceptedListener(l, refs) \in Entry
  <2>1. SupportedKinds(l) \in SUBSET {"HTTPRoute"}
    BY DEF SupportedKinds
  <2>2. (refs = "ResolvedRefs") \in BOOLEAN
    OBVIOUS
  <2> QED BY <2>1, <2>2 DEF AcceptedListener, Entry, Listener
<1> QED BY <1>1, <1>2

LEMMA TypedInit == Init => Typed
<1> SUFFICES ASSUME Init PROVE Typed
  OBVIOUS
<1>1. gw \in Gateways /\ gw.spec \in GatewaySpecs
  BY BoundsAssumption DEF Init, Gateways
<1>2. event \in BOOLEAN /\ flawed \in BOOLEAN
  BY Zenon DEF Init
<1>3. changes \in 0..MaxChanges /\ faults \in 0..MaxFaults /\ status.gen \in 0..MaxGeneration
  BY BoundsAssumption DEF Init, NoStatus
<1>4. status.listeners \in Seq(Entry) /\ entries \in Seq(Entry)
  BY DEF Init, NoStatus
<1>5. world \in World
  BY InputsAssumption DEF Init
<1>6. cache \in Gateways /\ snap \in Gateways /\ during \subseteq World /\ volumes = {}
  BY DEF Init, Gateways
<1>7. at \in Nat \ {0} /\ queue = "idle" /\ pc = "idle"
  BY DEF Init
<1> QED BY <1>1, <1>2, <1>3, <1>4, <1>5, <1>6, <1>7 DEF Typed, TypeOK, Written, InRange

LEMMA FaultType ==
  ASSUME Typed, Answers \/ Fails PROVE faults' \in 0..MaxFaults /\ flawed' \in BOOLEAN
<1>1. faults' \in 0..MaxFaults
  BY BoundsAssumption DEF Typed, TypeOK, Answers, Fails
<1>2. flawed' \in BOOLEAN
  BY Zenon DEF Typed, TypeOK, Answers, Fails
<1> QED BY <1>1, <1>2

LEMMA WatchTyped == ASSUME Typed, Watch PROVE Typed'
  BY DEF Watch, env, Typed, TypeOK, Written, InRange, Done, Current

LEMMA StartTyped == ASSUME Typed, Start PROVE Typed'
<1>1. cache.spec \in GatewaySpecs /\ Len(cache.spec.listeners) \in Nat
  BY SpecType DEF Start, Typed, Written
<1>2. pc' \in {"patch", "children", "listener"} /\ entries' = <<>> /\ at' = 1 /\ snap' = cache
  BY DEF Start
<1>3. during' \subseteq World
  BY DEF Start, Typed, TypeOK
<1>4. flawed' \in BOOLEAN
  BY Zenon DEF Start
<1>5. TypeOK'
  BY <1>2, <1>3, <1>4 DEF Start, env, Typed, TypeOK
<1>6. Written'
  BY <1>1, <1>2 DEF Start, env, Typed, Written
<1>7. InRange'
  BY <1>1, <1>2 DEF InRange
<1> QED BY <1>5, <1>6, <1>7 DEF Typed

LEMMA SecretNamesType ==
  ASSUME NEW spec \in GatewaySpecs PROVE TlsSecretNames(spec) \subseteq {s[2] : s \in SecretRefs}
<1> SUFFICES ASSUME NEW n \in TlsSecretNames(spec) PROVE n \in {s[2] : s \in SecretRefs}
  OBVIOUS
<1>1. PICK i \in DOMAIN spec.listeners :
        \E j \in DOMAIN Certs(spec.listeners[i]) : n = Certs(spec.listeners[i])[j].name
  BY DEF TlsSecretNames
<1>2. PICK j \in DOMAIN Certs(spec.listeners[i]) : n = Certs(spec.listeners[i])[j].name
  BY <1>1
<1> DEFINE c == Certs(spec.listeners[i])[j]
<1>3. spec.listeners[i] \in Listener
  BY SpecType
<1>4. c \in CertRef
  BY <1>2, <1>3, CertsType
<1>5. <<c.ns, c.name>> \in SecretRefs /\ <<c.ns, c.name>>[2] = n
  BY <1>2, <1>4 DEF CertRef
<1> QED BY <1>5

LEMMA AbortDue == ASSUME Typed, Abort PROVE pc' = "idle" /\ queue' \in {"now", "later"}
  BY DEF Abort, Due

LEMMA ChildrenTyped == ASSUME Typed, ApplyChildren PROVE Typed'
<1>1. snap.spec \in GatewaySpecs
  BY DEF ApplyChildren, Typed, Written
<1>2. volumes' \subseteq {s[2] : s \in SecretRefs}
  BY <1>1, SecretNamesType DEF ApplyChildren, Typed, TypeOK, Written
<1>3. faults' \in 0..MaxFaults /\ flawed' \in BOOLEAN
  BY FaultType DEF ApplyChildren
<1>4. \/ pc' = "listener" /\ queue' = queue
      \/ pc' = "idle" /\ queue' \in {"now", "later"}
  BY AbortDue DEF ApplyChildren
<1> QED BY <1>2, <1>3, <1>4 DEF ApplyChildren, env, Typed, TypeOK, Written, InRange, Done

\* A step of the reconciliation that stays at the same certificate, moves to
\* the next one of the same listener, or completes the entry of a listener.
Advance ==
  /\ UNCHANGED <<env, status, volumes, event, cache, queue, snap, during>>
  /\ Answers \/ Fails
  /\ \/ pc' = "patch" /\ UNCHANGED <<entries, at>>
     \/ pc' = "listener" /\ at' = at + 1 /\ UNCHANGED entries
     \/ ~Done /\ pc' \in {"grants", "secret"} /\ UNCHANGED <<entries, at>>
        /\ at \in DOMAIN Certs(Current)
     \/ /\ ~Done /\ pc' = "listener" /\ at' = 1
        /\ \E e \in {UnsupportedListener(Current)} \cup {AcceptedListener(Current, r) : r \in Reasons} :
             entries' = Append(entries, e)

LEMMA ReadsAdvance ==
  ASSUME Typed, Judge \/ ReadGrants \/ ReadSecret PROVE Advance
<1>1. CASE Judge
  <2>1. Answers /\ ReadOnly /\ pc = "listener"
    BY <1>1 DEF Judge
  <2>2. CASE Done
    BY <1>1, <2>1, <2>2 DEF Judge, Goto, Advance, ReadOnly
  <2>3. CASE ~Done
    <3>1. DOMAIN Certs(Current) = 1..Len(Certs(Current)) /\ Len(Certs(Current)) \in Nat
      BY <2>1, <2>3, CurrentType, CertsType
    <3>2. CASE \E r \in Reasons : Refs(r)
      BY <2>1, <2>3, <3>2 DEF Refs, Say, Advance, ReadOnly
    <3>3. CASE Say(UnsupportedListener(Current))
      BY <2>1, <2>3, <3>3 DEF Say, Advance, ReadOnly
    <3>4. CASE at \in DOMAIN Certs(Current) /\ (Goto("grants") \/ Goto("secret"))
      BY <2>1, <2>3, <3>4 DEF Goto, Advance, ReadOnly
    <3>5. at > Len(Certs(Current)) \/ at \in DOMAIN Certs(Current)
      BY <3>1 DEF Typed, TypeOK
    <3> QED BY <1>1, <2>3, <3>2, <3>3, <3>4, <3>5 DEF Judge, Reasons
  <2> QED BY <2>2, <2>3
<1>2. CASE ReadGrants
  <2>1. ReadOnly /\ (Answers \/ Fails) /\ ~Done /\ at \in DOMAIN Certs(Current)
    BY <1>2 DEF ReadGrants, Typed, InRange
  <2>2. Goto("secret") \/ Refs("RefNotPermitted")
    BY <1>2 DEF ReadGrants
  <2> QED BY <2>1, <2>2 DEF Goto, Refs, Say, Advance, ReadOnly, Reasons
<1>3. CASE ReadSecret
  <2>1. ReadOnly /\ (Answers \/ Fails) /\ ~Done
    BY <1>3 DEF ReadSecret, Typed, InRange
  <2>2. \/ at' = at + 1 /\ pc' = "listener" /\ UNCHANGED entries
        \/ Refs("InvalidCertificateRef")
    BY <1>3 DEF ReadSecret
  <2> QED BY <2>1, <2>2 DEF Refs, Say, Advance, ReadOnly, Reasons
<1> QED BY <1>1, <1>2, <1>3

LEMMA AdvanceTyped ==
  ASSUME Typed, pc # "idle", Advance PROVE Typed'
<1>1. faults' \in 0..MaxFaults /\ flawed' \in BOOLEAN
  BY FaultType DEF Advance
<1>2. /\ UNCHANGED <<gw, world, changes, status, volumes, event, cache, queue, snap, during>>
      /\ pc' \in {"patch", "listener", "grants", "secret"}
  BY DEF Advance, env
<1>3. snap.spec \in GatewaySpecs /\ Len(snap.spec.listeners) \in Nat /\ Len(entries) \in Nat
  BY SpecType DEF Typed, TypeOK, Written
<1>4. entries' \in Seq(Entry) /\ Len(entries') <= Len(snap.spec.listeners)
  <2>1. CASE entries' = entries
    BY <2>1 DEF Typed, TypeOK, InRange
  <2>2. CASE ~Done /\ \E e \in {UnsupportedListener(Current)}
                              \cup {AcceptedListener(Current, r) : r \in Reasons} :
                        entries' = Append(entries, e)
    <3>1. PICK e \in Entry : entries' = Append(entries, e)
      BY <2>2, CurrentType, EntryType
    <3>2. Len(entries') = Len(entries) + 1 /\ entries' \in Seq(Entry)
      BY <3>1 DEF Typed, TypeOK
    <3> QED BY <1>3, <2>2, <3>2 DEF Typed, InRange, Done
  <2> QED BY <2>1, <2>2 DEF Advance
<1>5. at' \in Nat \ {0}
  BY DEF Advance, Typed, TypeOK
<1>6. TypeOK'
  BY <1>1, <1>2, <1>4, <1>5 DEF Typed, TypeOK
<1>7. pc' \in {"grants", "secret"} => UNCHANGED <<entries, at>> /\ ~Done /\ at \in DOMAIN Certs(Current)
  BY DEF Advance
<1>8. InRange'
  BY <1>2, <1>4, <1>7 DEF InRange, Done, Current
<1>9. Written'
  BY <1>2 DEF Typed, Written
<1> QED BY <1>6, <1>8, <1>9 DEF Typed

LEMMA AppliedStatus ==
  ASSUME Applied
  PROVE  status'.gen = snap.gen /\ status'.listeners \in {<<>>, entries}
<1>1. status' = Rejection(snap.gen) \/ status' = GatewayStatus(snap.gen, entries)
  BY DEF Applied
<1>2. Rejection(snap.gen).gen = snap.gen /\ Rejection(snap.gen).listeners = <<>>
  BY DEF Rejection
<1>3. /\ GatewayStatus(snap.gen, entries).gen = snap.gen
      /\ GatewayStatus(snap.gen, entries).listeners = entries
  BY DEF GatewayStatus
<1> QED BY <1>1, <1>2, <1>3

LEMMA PatchTyped == ASSUME Typed, PatchStatus PROVE Typed'
<1>1. snap.spec \in GatewaySpecs /\ cache.spec \in GatewaySpecs /\ snap.gen \in 0..MaxGeneration
  BY BoundsAssumption DEF PatchStatus, Typed, Written, TypeOK, Gateways, NoGateway
<1>2. faults' \in 0..MaxFaults
  BY BoundsAssumption DEF PatchStatus, Typed, TypeOK
<1>3. pc' = "idle" /\ queue' \in {"idle", "now", "later"}
  BY DEF PatchStatus, Abort, DueAfterSuccess, Due, Typed, TypeOK
<1>4. status'.gen \in 0..MaxGeneration /\ status'.listeners \in Seq(Entry)
  <2>1. Applied \/ status' = status
    BY DEF PatchStatus
  <2>2. <<>> \in Seq(Entry) /\ entries \in Seq(Entry)
    BY DEF Typed, TypeOK
  <2>3. CASE Applied
    BY <1>1, <2>2, <2>3, AppliedStatus
  <2>4. CASE status' = status
    BY <2>4 DEF Typed, TypeOK
  <2> QED BY <2>1, <2>3, <2>4
<1>5. event' \in BOOLEAN
  BY Zenon DEF PatchStatus, Applied, Typed, TypeOK
<1> QED BY <1>1, <1>2, <1>3, <1>4, <1>5 DEF PatchStatus, env, Typed, TypeOK, Written, InRange

LEMMA CrashTyped == ASSUME Typed, Crash PROVE Typed'
<1>1. event' \in BOOLEAN /\ flawed' \in BOOLEAN
  BY Zenon DEF Crash
<1>2. faults' \in 0..MaxFaults /\ cache' \in Gateways
  BY BoundsAssumption DEF Crash, Typed, TypeOK, Gateways
<1> QED BY <1>1, <1>2 DEF Crash, env, Typed, TypeOK, Written, InRange

LEMMA EditTyped == ASSUME Typed, EditGateway PROVE Typed'
<1>1. event' \in BOOLEAN
  BY Zenon DEF EditGateway
<1>2. gw' \in Gateways /\ gw'.spec \in GatewaySpecs
  BY BoundsAssumption DEF EditGateway, Typed, TypeOK, Gateways, NoGateway
<1> QED BY <1>1, <1>2 DEF EditGateway, Own, Typed, TypeOK, Written, InRange, Done, Current

LEMMA WorldTyped == ASSUME Typed, ChangeWorld PROVE Typed'
<1>1. world' \in World
  <2>1. world \in [secrets : [SecretRefs -> SecretContents], grants : GrantSets]
    BY DEF Typed, TypeOK, World
  <2>2. CASE \E s \in SecretRefs : \E c \in SecretContents : world' = [world EXCEPT !.secrets[s] = c]
    BY <2>1, <2>2 DEF World
  <2>3. CASE \E gs \in GrantSets : world' = [world EXCEPT !.grants = gs]
    BY <2>1, <2>3 DEF World
  <2> QED BY <2>2, <2>3 DEF ChangeWorld
<1>2. changes' \in 0..MaxChanges
  BY BoundsAssumption DEF ChangeWorld, Typed, TypeOK
<1> QED BY <1>1, <1>2 DEF ChangeWorld, Own, Typed, TypeOK, Written, InRange, Done, Current

LEMMA TypedStep == Typed /\ [Next]_vars => Typed'
<1> SUFFICES ASSUME Typed, [Next]_vars PROVE Typed'
  OBVIOUS
<1>1. CASE Judge \/ ReadGrants \/ ReadSecret
  <2>1. pc # "idle"
    BY <1>1 DEF Judge, ReadGrants, ReadSecret
  <2> QED BY <1>1, <2>1, ReadsAdvance, AdvanceTyped
<1>2. CASE UNCHANGED vars
  BY <1>2 DEF vars, env, Typed, TypeOK, Written, InRange, Done, Current
<1> QED BY <1>1, <1>2, WatchTyped, StartTyped, ChildrenTyped, PatchTyped, CrashTyped,
           EditTyped, WorldTyped DEF Next, Operator

\* TypeOK of ListenerStatus holds in every state: whatever is read, fails or
\* changes, the statuses built are well formed and so is what is mounted.
THEOREM TypeCorrect == Spec => []TypeOK
<1>1. Typed => TypeOK
  BY DEF Typed
<1> QED BY <1>1, TypedInit, TypedStep, PTL DEF Spec

-----------------------------------------------------------------------------
\* The world as it is is one of the reconciliation's moments; the entries
\* built so far are earned, the certificates before the one it is at passed,
\* and the Secret about to be read was permitted.
Earning ==
  pc # "idle" =>
    /\ world \in during
    /\ \A i \in DOMAIN entries : Earned(during, flawed, snap.spec.listeners[i], entries[i])
    /\ pc \in {"listener", "grants", "secret"} /\ ~Done =>
         \A j \in DOMAIN Certs(Current) : j < at => Passed(during, Certs(Current)[j])
    /\ pc = "secret" => \E w \in during : GrantedIn(w, Cert)
    /\ pc = "children" => at = 1

LEMMA EarnedLater ==
  ASSUME NEW D, NEW D2, D \subseteq D2, NEW F, NEW F2, F => F2, NEW l, NEW e,
         Earned(D, F, l, e)
  PROVE  Earned(D2, F2, l, e)
<1> DEFINE certs == Certs(l)
<1>1. e.programmed => \A j \in DOMAIN certs : Passed(D2, certs[j])
  BY DEF Earned, Passed
<1>2. e.refs = "RefNotPermitted" /\ ~F2 =>
        \E j \in DOMAIN certs : \E w \in D2 : ~GrantedIn(w, certs[j])
  BY DEF Earned
<1>3. e.refs = "InvalidCertificateRef" /\ ~F2 =>
        \E j \in DOMAIN certs : \E w \in D2 :
          certs[j].kind # "Secret" \/ ~ValidSecret(SecretIn(w, certs[j]))
  BY DEF Earned
<1> QED BY <1>1, <1>2, <1>3 DEF Earned

LEMMA UnsupportedEarned ==
  ASSUME NEW D, NEW F, NEW l PROVE Earned(D, F, l, UnsupportedListener(l))
<1>1. UnsupportedListener(l).programmed = FALSE /\ UnsupportedListener(l).refs = None
  BY DEF UnsupportedListener
<1>2. None # "RefNotPermitted" /\ None # "InvalidCertificateRef"
  BY InputsAssumption DEF Reasons
<1> QED BY <1>1, <1>2 DEF Earned

\* Which entries of a supported listener are earned.
LEMMA AcceptedEarned ==
  ASSUME NEW D, NEW F, NEW l, NEW r,
         r = "ResolvedRefs" => \A j \in DOMAIN Certs(l) : Passed(D, Certs(l)[j]),
         r = "RefNotPermitted" /\ ~F =>
           \E j \in DOMAIN Certs(l) : \E w \in D : ~GrantedIn(w, Certs(l)[j]),
         r = "InvalidCertificateRef" /\ ~F =>
           \E j \in DOMAIN Certs(l) : \E w \in D :
             Certs(l)[j].kind # "Secret" \/ ~ValidSecret(SecretIn(w, Certs(l)[j]))
  PROVE  Earned(D, F, l, AcceptedListener(l, r))
<1>1. /\ AcceptedListener(l, r).programmed = (r = "ResolvedRefs")
      /\ AcceptedListener(l, r).refs = r
  BY DEF AcceptedListener
<1> QED BY <1>1 DEF Earned

-----------------------------------------------------------------------------
LEMMA EarningInit == Init => Earning
  BY DEF Init, Earning

\* Nothing but a world or a failure is added while the entries stay.
LEMMA EarningKept ==
  ASSUME Typed, Earning, pc # "idle", UNCHANGED <<snap, entries>>,
         during \subseteq during', flawed => flawed'
  PROVE  \A i \in DOMAIN entries' : Earned(during', flawed', snap'.spec.listeners[i], entries'[i])
<1> SUFFICES ASSUME NEW i \in DOMAIN entries
             PROVE  Earned(during', flawed', snap.spec.listeners[i], entries[i])
  OBVIOUS
<1>1. Earned(during, flawed, snap.spec.listeners[i], entries[i])
  BY DEF Earning
<1> QED BY <1>1, EarnedLater

\* A step that completes the entry of the current listener earns it.
LEMMA SayEarning ==
  ASSUME Typed, Earning, pc # "idle", ~Done, ReadOnly, flawed => flawed', NEW e, Say(e),
         Earned(during, flawed', Current, e)
  PROVE  Earning'
<1>1. UNCHANGED <<world, during, snap>> /\ entries' = Append(entries, e) /\ at' = 1
  BY DEF ReadOnly, env, Say
<1>2. Len(entries) \in Nat /\ entries \in Seq(Entry)
  BY DEF Typed, TypeOK
<1>3. ASSUME NEW i \in DOMAIN entries'
      PROVE  Earned(during', flawed', snap'.spec.listeners[i], entries'[i])
  <2>1. CASE i \in DOMAIN entries
    <3>1. entries'[i] = entries[i]
      BY <1>1, <1>2, <2>1
    <3>2. Earned(during, flawed, snap.spec.listeners[i], entries[i])
      BY <2>1 DEF Earning
    <3>3. Earned(during, flawed', snap.spec.listeners[i], entries[i])
      BY <3>2, EarnedLater
    <3> QED BY <1>1, <3>1, <3>3
  <2>2. CASE i = Len(entries) + 1
    BY <1>1, <1>2, <2>2 DEF Current
  <2> QED BY <1>1, <1>2, <1>3, <2>1, <2>2
<1>4. ~Done' => \A j \in DOMAIN Certs(Current)' : ~(j < at')
  <2> SUFFICES ASSUME ~Done' PROVE \A j \in DOMAIN Certs(Current)' : ~(j < 1)
    BY <1>1
  <2>1. snap'.spec \in GatewaySpecs /\ Len(entries') = Len(entries) + 1
    BY <1>1, <1>2 DEF Typed, Written
  <2>2. Len(entries') + 1 \in 1..Len(snap'.spec.listeners)
    BY <1>1, <1>2, <2>1, SpecType DEF Typed, InRange, Done
  <2>3. snap'.spec.listeners[Len(entries') + 1] \in Listener
    BY <2>1, <2>2, SpecType
  <2>4. DOMAIN Certs(snap'.spec.listeners[Len(entries') + 1])
          = 1..Len(Certs(snap'.spec.listeners[Len(entries') + 1]))
    BY <2>3, CertsType
  <2> QED BY <2>4 DEF Current
<1>5. world' \in during' /\ pc' = "listener"
  BY <1>1 DEF Earning, Say
<1> QED BY <1>3, <1>4, <1>5 DEF Earning

\* A step that leaves the entries and the certificate it is at.
LEMMA GotoEarning ==
  ASSUME Typed, Earning, pc # "idle", ~Done, ReadOnly, Answers,
         NEW p \in {"grants", "secret"}, Goto(p), pc \in {"listener", "grants", "secret"},
         p = "secret" => GrantedIn(world, Cert)
  PROVE  Earning'
<1>1. UNCHANGED <<world, during, snap, entries, at, flawed>>
  BY DEF ReadOnly, env, Answers, Goto
<1> QED BY <1>1 DEF Goto, Earning, Done, Current, Cert

LEMMA FlawKept == ASSUME Typed, Answers PROVE flawed' <=> flawed
<1>1. flawed' = flawed
  BY DEF Answers
<1> QED BY <1>1, SMT

LEMMA FlawSet == ASSUME Fails PROVE flawed'
  BY Zenon DEF Fails

LEMMA JudgeEarning == ASSUME Typed, Earning, Judge PROVE Earning'
<1>1. pc = "listener" /\ Answers /\ ReadOnly /\ flawed' = flawed
  BY DEF Judge, Answers
<1>2. CASE Done
  <2>1. UNCHANGED <<world, during, snap, entries, at>> /\ pc' = "patch"
    BY <1>1, <1>2 DEF Judge, Goto, ReadOnly, env
  <2> QED BY <1>1, <2>1 DEF Earning
<1>3. CASE ~Done /\ ~Supported(Current)
  BY <1>1, <1>3, UnsupportedEarned, SayEarning DEF Judge
<1>4. CASE ~Done /\ Supported(Current) /\ KindsInvalid(Current)
  <2>1. Say(AcceptedListener(Current, "InvalidRouteKinds"))
    BY <1>4 DEF Judge, Refs
  <2>2. Earned(during, flawed', Current, AcceptedListener(Current, "InvalidRouteKinds"))
    BY AcceptedEarned
  <2> QED BY <1>1, <1>4, <2>1, <2>2, SayEarning
<1>5. CASE ~Done /\ Supported(Current) /\ ~KindsInvalid(Current)
  <2>1. /\ DOMAIN Certs(Current) = 1..Len(Certs(Current)) /\ Len(Certs(Current)) \in Nat
        /\ at \in Nat \ {0}
    BY <1>1, <1>5, CurrentType, CertsType DEF Typed, TypeOK
  <2>2. CASE at > Len(Certs(Current))
    <3>1. Say(AcceptedListener(Current, "ResolvedRefs"))
      BY <1>5, <2>2 DEF Judge, Refs
    <3>2. \A j \in DOMAIN Certs(Current) : Passed(during, Certs(Current)[j])
      BY <1>1, <1>5, <2>1, <2>2 DEF Earning
    <3>3. Earned(during, flawed', Current, AcceptedListener(Current, "ResolvedRefs"))
      BY <3>2, AcceptedEarned
    <3> QED BY <1>1, <1>5, <3>1, <3>3, SayEarning
  <2>3. CASE ~(at > Len(Certs(Current))) /\ Cert.kind # "Secret"
    <3>1. Say(AcceptedListener(Current, "InvalidCertificateRef"))
      BY <1>5, <2>3 DEF Judge, Refs
    <3>2. at \in DOMAIN Certs(Current) /\ world \in during
      BY <1>1, <2>1, <2>3 DEF Earning
    <3>3. Earned(during, flawed', Current, AcceptedListener(Current, "InvalidCertificateRef"))
      BY <2>3, <3>2, AcceptedEarned DEF Cert
    <3> QED BY <1>1, <1>5, <3>1, <3>3, SayEarning
  <2>4. CASE ~(at > Len(Certs(Current))) /\ Cert.kind = "Secret" /\ Cert.ns # Home
    <3>1. Goto("grants")
      BY <1>5, <2>4 DEF Judge
    <3> QED BY <1>1, <1>5, <3>1, GotoEarning
  <2>5. CASE ~(at > Len(Certs(Current))) /\ Cert.kind = "Secret" /\ Cert.ns = Home
    <3>1. Goto("secret")
      BY <1>5, <2>5 DEF Judge
    <3>2. GrantedIn(world, Cert)
      BY <2>5 DEF GrantedIn, IsReferenceAllowed
    <3> QED BY <1>1, <1>5, <3>1, <3>2, GotoEarning
  <2> QED BY <2>2, <2>3, <2>4, <2>5
<1> QED BY <1>2, <1>3, <1>4, <1>5

LEMMA GrantsEarning == ASSUME Typed, Earning, ReadGrants PROVE Earning'
<1>1. /\ pc = "grants" /\ ReadOnly /\ ~Done /\ at \in DOMAIN Certs(Current)
      /\ world \in during
  BY DEF ReadGrants, Typed, InRange, Earning
<1>2. CASE Answers /\ GrantedIn(world, Cert) /\ Goto("secret")
  BY <1>1, <1>2, GotoEarning
<1>3. CASE /\ (Answers /\ ~GrantedIn(world, Cert)) \/ Fails
           /\ Refs("RefNotPermitted")
  <2>1. (flawed => flawed') /\ (~flawed' => ~GrantedIn(world, Cert))
    <3>1. CASE Answers /\ ~GrantedIn(world, Cert)
      BY <3>1, FlawKept, Zenon
    <3>2. CASE Fails
      BY <3>2, FlawSet, Zenon
    <3> QED BY <1>3, <3>1, <3>2, Zenon
  <2>2. Earned(during, flawed', Current, AcceptedListener(Current, "RefNotPermitted"))
    BY <1>1, <2>1, AcceptedEarned DEF Cert
  <2>3. Say(AcceptedListener(Current, "RefNotPermitted"))
    BY <1>3 DEF Refs
  <2> QED BY <1>1, <2>1, <2>2, <2>3, SayEarning
<1> QED BY <1>2, <1>3 DEF ReadGrants

LEMMA SecretEarning == ASSUME Typed, Earning, ReadSecret PROVE Earning'
<1>1. /\ pc = "secret" /\ ReadOnly /\ ~Done /\ at \in DOMAIN Certs(Current)
      /\ world \in during
  BY DEF ReadSecret, Typed, InRange, Earning
<1>2. CASE /\ Answers /\ ValidSecret(SecretIn(world, Cert))
           /\ at' = at + 1 /\ pc' = "listener" /\ UNCHANGED entries
  <2>1. UNCHANGED <<world, during, snap, entries, flawed>>
    BY <1>1, <1>2 DEF ReadOnly, env, Answers
  <2>2. Passed(during, Cert)
    BY <1>1, <1>2 DEF Earning, Passed
  <2>3. DOMAIN Certs(Current) = 1..Len(Certs(Current)) /\ Len(Certs(Current)) \in Nat /\ at \in Nat
    BY <1>1, CurrentType, CertsType DEF Typed, TypeOK
  <2>4. \A j \in DOMAIN Certs(Current) : j < at + 1 => Passed(during, Certs(Current)[j])
    <3> SUFFICES ASSUME NEW j \in DOMAIN Certs(Current), j < at + 1
                 PROVE  Passed(during, Certs(Current)[j])
      OBVIOUS
    <3>1. CASE j = at
      BY <2>2, <3>1 DEF Cert
    <3>2. CASE j < at
      BY <1>1, <3>2 DEF Earning
    <3> QED BY <2>3, <3>1, <3>2
  <2> QED BY <1>1, <1>2, <2>1, <2>4 DEF Earning, Done, Current
<1>3. CASE /\ (Answers /\ ~ValidSecret(SecretIn(world, Cert))) \/ Fails
           /\ Refs("InvalidCertificateRef")
  <2>1. (flawed => flawed') /\ (~flawed' => ~ValidSecret(SecretIn(world, Cert)))
    <3>1. CASE Answers /\ ~ValidSecret(SecretIn(world, Cert))
      BY <3>1, FlawKept, Zenon
    <3>2. CASE Fails
      BY <3>2, FlawSet, Zenon
    <3> QED BY <1>3, <3>1, <3>2, Zenon
  <2>2. Earned(during, flawed', Current, AcceptedListener(Current, "InvalidCertificateRef"))
    BY <1>1, <2>1, AcceptedEarned DEF Cert
  <2>3. Say(AcceptedListener(Current, "InvalidCertificateRef"))
    BY <1>3 DEF Refs
  <2> QED BY <1>1, <2>1, <2>2, <2>3, SayEarning
<1> QED BY <1>2, <1>3 DEF ReadSecret

\* No certificate comes before the first.
LEMMA NoneBefore ==
  ASSUME Typed, pc # "idle", ~Done PROVE \A j \in DOMAIN Certs(Current) : ~(j < 1)
<1>1. /\ DOMAIN Certs(Current) = 1..Len(Certs(Current))
      /\ Len(Certs(Current)) \in Nat
  BY CurrentType, CertsType
<1> QED BY <1>1

LEMMA StartEarning == ASSUME Typed, Typed', Start PROVE Earning'
<1>1. /\ pc' \in {"patch", "children", "listener"} /\ entries' = <<>> /\ at' = 1
      /\ world' \in during'
  BY DEF Start, env
<1>2. ~Done' => \A j \in DOMAIN Certs(Current)' : ~(j < 1)
  <2> SUFFICES ASSUME ~Done' PROVE \A j \in DOMAIN Certs(Current)' : ~(j < 1)
    OBVIOUS
  <2>1. snap'.spec \in GatewaySpecs /\ Len(entries') = 0
    BY <1>1 DEF Typed, Written
  <2>2. Len(entries') + 1 \in 1..Len(snap'.spec.listeners)
    BY <1>1, <2>1, SpecType DEF Done
  <2>3. snap'.spec.listeners[Len(entries') + 1] \in Listener
    BY <2>1, <2>2, SpecType
  <2>4. DOMAIN Certs(snap'.spec.listeners[Len(entries') + 1])
          = 1..Len(Certs(snap'.spec.listeners[Len(entries') + 1]))
    BY <2>3, CertsType
  <2> QED BY <2>4 DEF Current
<1> QED BY <1>1, <1>2 DEF Earning

LEMMA ChildrenEarning == ASSUME Typed, Earning, ApplyChildren PROVE Earning'
<1>1. /\ pc = "children" /\ UNCHANGED <<world, snap, at, entries, during>>
      /\ pc' \in {"listener", "idle"}
  BY DEF ApplyChildren, Abort, env
<1>2. flawed => flawed'
  <2>1. Answers \/ Fails
    BY DEF ApplyChildren
  <2> QED BY <2>1, FlawKept, FlawSet, Zenon
<1>3. \A i \in DOMAIN entries' : Earned(during', flawed', snap'.spec.listeners[i], entries'[i])
  BY <1>1, <1>2, EarningKept
<1>4. at = 1 /\ world \in during
  BY <1>1 DEF Earning
<1>5. ~Done => \A j \in DOMAIN Certs(Current) : ~(j < at)
  BY <1>1, <1>4, NoneBefore
<1>6. Done' = Done /\ Current' = Current
  BY <1>1 DEF Done, Current
<1> QED BY <1>1, <1>3, <1>4, <1>5, <1>6 DEF Earning

LEMMA WorldEarning == ASSUME Typed, Earning, ChangeWorld PROVE Earning'
<1>1. /\ UNCHANGED <<pc, snap, at, entries, flawed>>
      /\ during' = during \cup {world'}
  BY DEF ChangeWorld, Own
<1> SUFFICES ASSUME pc # "idle" PROVE Earning'
  BY <1>1 DEF Earning
<1>2. \A i \in DOMAIN entries' : Earned(during', flawed', snap'.spec.listeners[i], entries'[i])
  BY <1>1, EarningKept
<1>3. \A c : Passed(during, c) => Passed(during', c)
  BY <1>1 DEF Passed
<1>4. Done' = Done /\ Current' = Current /\ Cert' = Cert
  BY <1>1 DEF Done, Current, Cert
<1> QED BY <1>1, <1>2, <1>3, <1>4 DEF Earning

LEMMA EarningInert ==
  ASSUME Earning, UNCHANGED <<world, during, pc, snap, at, entries, flawed>> PROVE Earning'
  BY DEF Earning, Done, Current, Cert

LEMMA EarningStep == Typed /\ Earning /\ [Next]_vars => Earning'
<1> SUFFICES ASSUME Typed, Earning, [Next]_vars PROVE Earning'
  OBVIOUS
<1>1. CASE Watch
  BY <1>1, EarningInert DEF Watch, env
<1>2. CASE Start
  BY <1>2, TypedStep, StartEarning
<1>3. CASE PatchStatus
  BY <1>3 DEF PatchStatus, Abort, Earning
<1>4. CASE Crash
  BY <1>4 DEF Crash, Earning
<1>5. CASE EditGateway
  BY <1>5, EarningInert DEF EditGateway, Own
<1>6. CASE UNCHANGED vars
  BY <1>6, EarningInert DEF vars, env
<1> QED BY <1>1, <1>2, <1>3, <1>4, <1>5, <1>6, ChildrenEarning, JudgeEarning,
           GrantsEarning, SecretEarning, WorldEarning DEF Next, Operator

\* Only the patch says anything, and it says what is built.
LEMMA NewsStep ==
  ASSUME Typed, Earning, [Next]_vars, status' # status, NEW i \in DOMAIN status'.listeners
  PROVE  Earned(during, flawed, snap.spec.listeners[i], status'.listeners[i])
<1>1. PatchStatus
  BY DEF Next, Operator, Watch, Start, ApplyChildren, Judge, ReadGrants, ReadSecret, Crash,
         EditGateway, ChangeWorld, ReadOnly, Own, vars
<1>2. pc # "idle" /\ Applied
  BY <1>1 DEF PatchStatus
<1>3. status'.listeners = entries
  BY <1>2, AppliedStatus
<1> QED BY <1>2, <1>3 DEF Earning

\* NewsIsEarned of ListenerStatus: whatever Secrets, grants and Gateways users
\* write while a reconciliation reads them one by one (validate_tls_cert_refs),
\* a listener is called programmed only if all its certificates were permitted
\* and present at moments of that reconciliation, and blamed on one only for
\* what was so, unless a read failed.
THEOREM NewsEarned == Spec => NewsIsEarned
<1>1. Typed /\ Earning /\ [Next]_vars =>
        [status' # status =>
           \A i \in DOMAIN status'.listeners :
             Earned(during, flawed, snap.spec.listeners[i], status'.listeners[i])]_vars
  BY NewsStep
<1> QED BY <1>1, TypedInit, TypedStep, EarningInit, EarningStep, PTL DEF Spec, NewsIsEarned
=============================================================================
