---------------------------- MODULE ConfigProofs ----------------------------
(***************************************************************************)
(* What is proved of the configuration: the two controllers agree, the     *)
(* children agree, requests go where the attached routes send them, and    *)
(* filters reach their traffic, for every snapshot.                        *)
(*                                                                         *)
(* The properties speak of operators of one snapshot, so the invariant     *)
(* behind all of them is only what every snapshot is; the work is in the   *)
(* lemmas on the operators.                                                *)
(***************************************************************************)
EXTENDS RouteAcceptance, FilterConversion, SequenceProofs, FiniteSetTheorems

Snapshot ==
  /\ listeners \in Seq(ListenerSpecs)
  /\ httpRoutes \in Seq(RouteSpecs)
  /\ \A i, j \in DOMAIN listeners : listeners[i].name = listeners[j].name => i = j

LEMMA SnapshotInit == Init => Snapshot
<1> SUFFICES ASSUME Init PROVE Snapshot
  OBVIOUS
<1>1. listeners = <<>> /\ httpRoutes = <<>>
  BY DEF Init
<1> QED BY <1>1 DEF Snapshot

LEMMA SnapshotStep == Snapshot /\ [Next]_vars => Snapshot'
<1> SUFFICES ASSUME Snapshot, [Next]_vars PROVE Snapshot'
  OBVIOUS
<1> USE DEF Snapshot
<1>1. ASSUME NEW l \in ListenerSpecs, AddListener(l) PROVE Snapshot'
  <2>1. /\ listeners' = Append(listeners, l) /\ httpRoutes' = httpRoutes
        /\ \A i \in DOMAIN listeners : listeners[i].name # l.name
    BY <1>1 DEF AddListener
  <2>2. /\ listeners' \in Seq(ListenerSpecs) /\ Len(listeners) \in Nat
        /\ DOMAIN listeners' = 1..(Len(listeners) + 1) /\ DOMAIN listeners = 1..Len(listeners)
        /\ listeners'[Len(listeners) + 1] = l
        /\ \A i \in 1..Len(listeners) : listeners'[i] = listeners[i]
    BY <2>1
  <2>3. ASSUME NEW i \in DOMAIN listeners', NEW j \in DOMAIN listeners',
               listeners'[i].name = listeners'[j].name
        PROVE  i = j
    <3>1. CASE i \in 1..Len(listeners) /\ j \in 1..Len(listeners)
      BY <2>2, <2>3, <3>1
    <3>2. CASE i = Len(listeners) + 1 /\ j \in 1..Len(listeners)
      BY <2>1, <2>2, <2>3, <3>2
    <3>3. CASE i \in 1..Len(listeners) /\ j = Len(listeners) + 1
      BY <2>1, <2>2, <2>3, <3>3
    <3> QED BY <2>2, <3>1, <3>2, <3>3
  <2> QED BY <2>1, <2>2, <2>3
<1>2. ASSUME NEW r \in RouteSpecs, AddRoute(r) PROVE Snapshot'
  BY <1>2 DEF AddRoute
<1>3. ASSUME NEW ns \in Namespaces, Label(ns) PROVE Snapshot'
  BY <1>3 DEF Label
<1>4. CASE UNCHANGED vars
  BY <1>4 DEF vars
<1> QED BY <1>1, <1>2, <1>3, <1>4 DEF Next

\* Every snapshot is a list of listeners with a name each and a list of
\* routes, as the schemas of the two kinds have them.
THEOREM SnapshotHolds == Spec => []Snapshot
<1> QED BY SnapshotInit, SnapshotStep, PTL DEF Spec

LEMMA SnapshotFacts ==
  ASSUME Snapshot
  PROVE  /\ IsSeq(listeners) /\ IsSeq(httpRoutes)
         /\ \A l \in ToSet(listeners) : l \in ListenerSpecs
         /\ \A r \in ToSet(httpRoutes) : r \in RouteSpecs
         /\ \A l, k \in ToSet(listeners) : l.name = k.name => l = k
<1>1. /\ IsSeq(listeners) /\ IsSeq(httpRoutes)
      /\ ToSet(listeners) \subseteq ListenerSpecs /\ ToSet(httpRoutes) \subseteq RouteSpecs
  BY SeqIsSeq DEF Snapshot
<1>2. ASSUME NEW l \in ToSet(listeners), NEW k \in ToSet(listeners), l.name = k.name
      PROVE  l = k
  BY <1>2 DEF Snapshot, ToSet
<1> QED BY <1>1, <1>2

-----------------------------------------------------------------------------
(* The collected routes.                                                   *)

LEMMA SectionNamesSeq ==
  ASSUME NEW r \in RouteSpecs
  PROVE  IsSeq(SectionNames(r))
<1> DEFINE here == Only(r.parents, {p \in ToSet(r.parents) : p.gateway = ThisGateway})
<1>1. IsSeq(here)
  BY RoutesAssumption, OnlyElements
<1>2. Len(here) \in Nat /\ DOMAIN here = 1..Len(here)
  BY <1>1, IsSeqFacts
<1>3. SectionNames(r) = [i \in DOMAIN here |-> here[i].section]
  BY DEF SectionNames
<1> HIDE DEF here
<1>4. SectionNames(r) = [i \in 1..Len(here) |-> SectionNames(r)[i]]
  BY <1>2, <1>3
<1> QED BY <1>2, <1>4, Tabulated

LEMMA CollectedElements ==
  ASSUME Snapshot
  PROVE  /\ IsSeq(CollectRoutes)
         /\ \A a : a \in ToSet(CollectRoutes) <=>
              \E r \in ToSet(httpRoutes) :
                /\ a = [route |-> r, sections |-> SectionNames(r)]
                /\ SectionNames(r) # <<>>
                /\ RouteAllowedByAnyListener(a)
<1> DEFINE all == [i \in DOMAIN httpRoutes |->
                     [route |-> httpRoutes[i], sections |-> SectionNames(httpRoutes[i])]]
<1>1. /\ Len(httpRoutes) \in Nat /\ DOMAIN httpRoutes = 1..Len(httpRoutes)
      /\ \A r : r \in ToSet(httpRoutes) <=> \E i \in 1..Len(httpRoutes) : httpRoutes[i] = r
  BY SnapshotFacts, IsSeqFacts
<1>2. IsSeq(all) /\ Len(all) = Len(httpRoutes)
  <2>1. all = [i \in 1..Len(httpRoutes) |-> all[i]]
    BY <1>1
  <2> HIDE DEF all
  <2> QED BY <1>1, <2>1, Tabulated
<1>3. \A a : a \in ToSet(all) <=> \E r \in ToSet(httpRoutes) :
                                    a = [route |-> r, sections |-> SectionNames(r)]
  BY <1>1 DEF ToSet
<1>4. AttachedRoutes = Only(all, {a \in ToSet(all) : a.sections # <<>>})
  BY DEF AttachedRoutes
<1> HIDE DEF all
<1>5. /\ IsSeq(AttachedRoutes)
      /\ \A a : a \in ToSet(AttachedRoutes) <=> a \in ToSet(all) /\ a.sections # <<>>
  BY <1>2, <1>4, OnlyElements
<1>6. CollectRoutes = Only(AttachedRoutes,
                           {a \in ToSet(AttachedRoutes) : RouteAllowedByAnyListener(a)})
  BY DEF CollectRoutes, FilterRoutes
<1>7. /\ IsSeq(CollectRoutes)
      /\ \A a : a \in ToSet(CollectRoutes) <=>
                  a \in ToSet(AttachedRoutes) /\ RouteAllowedByAnyListener(a)
  BY <1>5, <1>6, OnlyElements
<1> QED BY <1>3, <1>5, <1>7

-----------------------------------------------------------------------------
(* The two controllers agree.                                              *)

LEMMA TargetsSection ==
  ASSUME Snapshot, NEW r \in RouteSpecs, NEW l
  PROVE  Targets(SectionNames(r), l) <=> \E s \in ToSet(SectionNames(r)) : s \in {None, l.name}
BY DEF Targets, ToSet

LEMMA AllowedAlike ==
  ASSUME Snapshot, ExcludedByExpressions = {}, NEW l \in ToSet(listeners), NEW ns
  PROVE  IsNamespaceAllowed(l, ns) <=> AllowedByListener(l, ns)
<1>1. l.from \in {"Same", "All", "Selector"}
  BY SnapshotFacts, ListenersAssumption
<1>2. CASE l.from = "Same"
  BY <1>2 DEF IsNamespaceAllowed, AllowedByListener
<1>3. CASE l.from = "All"
  BY <1>3 DEF IsNamespaceAllowed, AllowedByListener
<1>4. CASE l.from = "Selector"
  BY <1>4 DEF IsNamespaceAllowed, AllowedByListener
<1> QED BY <1>1, <1>2, <1>3, <1>4

\* A route is collected if one of its sections is allowed on a listener.
LEMMA CollectedIfAllowed ==
  ASSUME Snapshot, ExcludedByExpressions = {}, NEW r \in ToSet(httpRoutes)
  PROVE  (\E a \in ToSet(CollectRoutes) : a.route = r)
           <=> \E s \in ToSet(SectionNames(r)) : RouteAllowedByListeners(r.ns, s)
<1> DEFINE a0 == [route |-> r, sections |-> SectionNames(r)]
<1>1. r \in RouteSpecs /\ IsSeq(SectionNames(r))
  BY SnapshotFacts, SectionNamesSeq
<1>2. RouteAllowedByAnyListener(a0)
        <=> \E s \in ToSet(SectionNames(r)) : RouteAllowedByListeners(r.ns, s)
  <2>1. RouteAllowedByAnyListener(a0)
          <=> \E l \in ToSet(listeners) :
                Targets(SectionNames(r), l) /\ IsNamespaceAllowed(l, r.ns)
    BY DEF RouteAllowedByAnyListener
  <2>2. \A s : RouteAllowedByListeners(r.ns, s)
                 <=> \E l \in ToSet(listeners) : s \in {None, l.name} /\ AllowedByListener(l, r.ns)
    BY DEF RouteAllowedByListeners, Targeted
  <2>3. \A l : Targets(SectionNames(r), l)
                 <=> \E s \in ToSet(SectionNames(r)) : s \in {None, l.name}
    BY <1>1, TargetsSection
  <2>4. \A l \in ToSet(listeners) : IsNamespaceAllowed(l, r.ns) <=> AllowedByListener(l, r.ns)
    BY AllowedAlike
  <2> QED BY <2>1, <2>2, <2>3, <2>4
<1>3. (\E s \in ToSet(SectionNames(r)) : RouteAllowedByListeners(r.ns, s)) => SectionNames(r) # <<>>
  BY <1>1, IsSeqFacts
<1>4. (\E a \in ToSet(CollectRoutes) : a.route = r)
        <=> SectionNames(r) # <<>> /\ RouteAllowedByAnyListener(a0)
  <2>1. \A a : a \in ToSet(CollectRoutes) <=>
              \E q \in ToSet(httpRoutes) :
                /\ a = [route |-> q, sections |-> SectionNames(q)]
                /\ SectionNames(q) # <<>>
                /\ RouteAllowedByAnyListener(a)
    BY CollectedElements
  <2>2. ASSUME NEW a \in ToSet(CollectRoutes), a.route = r
        PROVE  SectionNames(r) # <<>> /\ RouteAllowedByAnyListener(a0)
    <3>1. PICK q \in ToSet(httpRoutes) :
            /\ a = [route |-> q, sections |-> SectionNames(q)]
            /\ SectionNames(q) # <<>> /\ RouteAllowedByAnyListener(a)
      BY <2>1
    <3>2. q = r
      BY <2>2, <3>1
    <3> QED BY <3>1, <3>2
  <2>3. ASSUME SectionNames(r) # <<>>, RouteAllowedByAnyListener(a0)
        PROVE  a0 \in ToSet(CollectRoutes) /\ a0.route = r
    BY <2>1, <2>3
  <2> QED BY <2>2, <2>3
<1> QED BY <1>2, <1>3, <1>4

\* What the reason of the Accepted condition says.
LEMMA ReasonSays ==
  ASSUME NEW r, NEW s
  PROVE  /\ AcceptedReason(r, s) \in {"Accepted", "NoMatchingListenerHostname"}
              <=> RouteAllowedByListeners(r.ns, s)
         /\ AcceptedReason(r, s) = "Accepted"
              <=> RouteAllowedByListeners(r.ns, s) /\ HostnamesIntersect(r, s)
         /\ RouteAllowedByListeners(r.ns, s) => Targeted(s) # {}
<1>1. RouteAllowedByListeners(r.ns, s) => Targeted(s) # {}
  BY DEF RouteAllowedByListeners
<1> QED BY <1>1 DEF AcceptedReason

LEMMA SupportedElements ==
  ASSUME Snapshot
  PROVE  /\ IsSeq(Supported)
         /\ \A l : l \in ToSet(Supported)
                     <=> l \in ToSet(listeners) /\ l.protocol \in {"HTTP", "HTTPS"}
<1>1. IsSeq(listeners)
  BY SnapshotFacts
<1> QED BY <1>1, OnlyElements DEF Supported

HostsMeet(r, l) ==
  \/ r.hosts = <<>>
  \/ l.hostname = None
  \/ \E h \in ToSet(r.hosts) : HostnameMatches(h, l.hostname)

\* A listener counts the collected routes that target it and meet its hostname.
LEMMA CountingElements ==
  ASSUME Snapshot, NEW r \in ToSet(httpRoutes), NEW l \in ToSet(Supported)
  PROVE  l \in Counting(r) <=>
           /\ \E a \in ToSet(CollectRoutes) : a.route = r
           /\ \E s \in ToSet(SectionNames(r)) : s \in {None, l.name}
           /\ HostsMeet(r, l)
<1>1. r \in RouteSpecs /\ IsSeq(SectionNames(r)) /\ IsSeq(CollectRoutes)
  BY SnapshotFacts, SectionNamesSeq, CollectedElements
<1>2. \A a \in ToSet(CollectRoutes) : a.route = r => a.sections = SectionNames(r)
  BY CollectedElements
<1>3. \A a : a \in ToSet(CountedRoutes(l)) <=>
             /\ a \in ToSet(CollectRoutes)
             /\ Targets(a.sections, l)
             /\ HostsMeet(a.route, l)
  BY <1>1, OnlyElements DEF CountedRoutes, HostsMeet
<1>4. Targets(SectionNames(r), l) <=> \E s \in ToSet(SectionNames(r)) : s \in {None, l.name}
  BY <1>1, TargetsSection
<1>5. l \in Counting(r) <=> \E a \in ToSet(CountedRoutes(l)) : a.route = r
  BY DEF Counting
<1> QED BY <1>2, <1>3, <1>4, <1>5

LEMMA SnapshotAgrees == Snapshot /\ ExcludedByExpressions = {} => ControllersAgree
<1> SUFFICES ASSUME Snapshot, ExcludedByExpressions = {}, NEW r \in ToSet(httpRoutes)
             PROVE
    LET sections == ToSet(SectionNames(r))
    IN  /\ (\E a \in ToSet(CollectRoutes) : a.route = r)
             <=> \E s \in sections :
                   AcceptedReason(r, s) \in {"Accepted", "NoMatchingListenerHostname"}
        /\ \A s \in sections :
             AcceptedReason(r, s) = "Accepted" /\ Targeted(s) \subseteq ToSet(Supported)
               => Targeted(s) \cap Counting(r) # {}
        /\ \A s \in sections :
             sections = {s} /\ Counting(r) # {} => AcceptedReason(r, s) = "Accepted"
  BY DEF ControllersAgree
<1>1. (\E a \in ToSet(CollectRoutes) : a.route = r)
        <=> \E s \in ToSet(SectionNames(r)) :
              AcceptedReason(r, s) \in {"Accepted", "NoMatchingListenerHostname"}
  BY CollectedIfAllowed, ReasonSays
<1>2. \A s : /\ \A l : l \in Targeted(s) <=> l \in ToSet(listeners) /\ s \in {None, l.name}
             /\ HostnamesIntersect(r, s)
                  <=> r.hosts = <<>> \/ \E l \in Targeted(s) : HostsMeet(r, l)
  BY DEF Targeted, HostnamesIntersect, HostsMeet
<1>3. ASSUME NEW s \in ToSet(SectionNames(r)), AcceptedReason(r, s) = "Accepted",
             Targeted(s) \subseteq ToSet(Supported)
      PROVE  Targeted(s) \cap Counting(r) # {}
  <2>1. RouteAllowedByListeners(r.ns, s) /\ HostnamesIntersect(r, s) /\ Targeted(s) # {}
    BY <1>3, ReasonSays
  <2>2. PICK l \in Targeted(s) : HostsMeet(r, l)
    BY <1>2, <2>1 DEF HostsMeet
  <2>3. l \in ToSet(Supported) /\ s \in {None, l.name}
    BY <1>2, <1>3
  <2>4. \E a \in ToSet(CollectRoutes) : a.route = r
    BY <1>1, <1>3
  <2>5. l \in Counting(r)
    BY <2>2, <2>3, <2>4, CountingElements
  <2> QED BY <2>5
<1>4. ASSUME NEW s \in ToSet(SectionNames(r)), ToSet(SectionNames(r)) = {s}, Counting(r) # {}
      PROVE  AcceptedReason(r, s) = "Accepted"
  <2>1. PICK l \in ToSet(Supported) : l \in Counting(r)
    BY <1>4 DEF Counting
  <2>2. /\ \E a \in ToSet(CollectRoutes) : a.route = r
        /\ s \in {None, l.name} /\ HostsMeet(r, l)
    BY <1>4, <2>1, CountingElements
  <2>3. l \in Targeted(s)
    BY <1>2, <2>2, SupportedElements
  <2>4. RouteAllowedByListeners(r.ns, s)
    BY <1>4, <2>2, CollectedIfAllowed
  <2>5. HostnamesIntersect(r, s)
    BY <1>2, <2>2, <2>3
  <2> QED BY <2>4, <2>5, ReasonSays
<1> QED BY <1>1, <1>3, <1>4

\* Without matchExpressions, which the HTTPRoute controller does not read, what
\* one controller configures and counts fits the reasons the other one reports,
\* as ControllersAgree says it, whatever listeners, routes and labels there
\* are.
THEOREM ControllersAlwaysAgree == ExcludedByExpressions = {} => (Spec => []ControllersAgree)
<1> SUFFICES ASSUME ExcludedByExpressions = {} PROVE Spec => []ControllersAgree
  OBVIOUS
<1>1. Snapshot => ControllersAgree
  BY SnapshotAgrees
<1> QED BY <1>1, SnapshotHolds, PTL

-----------------------------------------------------------------------------
(* The three children agree.                                               *)

LEMMA GroupElements ==
  ASSUME Snapshot, NEW port
  PROVE  /\ IsSeq(Group(port))
         /\ \A l : l \in ToSet(Group(port)) <=> l \in ToSet(Supported) /\ l.port = port
<1>1. /\ IsSeq(Supported)
      /\ \A l : l \in ToSet(Supported) => l \in ToSet(listeners)
  BY SupportedElements
<1> QED BY <1>1, OnlyElements DEF Group

\* A port is bound if a served listener has it; the first of them names it.
LEMMA PortNamed ==
  ASSUME Snapshot
  PROVE  /\ DOMAIN PraxisListeners = {Supported[i].port : i \in 1..Len(Supported)}
         /\ \A port \in DOMAIN PraxisListeners :
              /\ Group(port) # <<>>
              /\ PraxisListeners[port] = MergeListeners(port)
              /\ PraxisListeners[port].name = Group(port)[1].name
              /\ \E k \in 1..Len(Supported) :
                   /\ Supported[k] = Group(port)[1] /\ Supported[k].port = port
                   /\ \A j \in 1..(k - 1) : Supported[j].port # port
<1>1. IsSeq(Supported) /\ DOMAIN Supported = 1..Len(Supported) /\ Len(Supported) \in Nat
  BY SupportedElements, IsSeqFacts
<1>2. DOMAIN PraxisListeners = {Supported[i].port : i \in 1..Len(Supported)}
  BY <1>1 DEF PraxisListeners
<1>3. ASSUME NEW port \in DOMAIN PraxisListeners
      PROVE  /\ Group(port) # <<>>
             /\ PraxisListeners[port] = MergeListeners(port)
             /\ PraxisListeners[port].name = Group(port)[1].name
             /\ \E k \in 1..Len(Supported) :
                  /\ Supported[k] = Group(port)[1] /\ Supported[k].port = port
                  /\ \A j \in 1..(k - 1) : Supported[j].port # port
  <2>1. PICK i \in 1..Len(Supported) : Supported[i].port = port
    BY <1>2
  <2>2. Supported[i] \in ToSet(Supported)
    BY <1>1 DEF ToSet
  <2>3. Group(port) # <<>>
    BY <2>1, <2>2, GroupElements, IsSeqFacts
  <2>4. PraxisListeners[port] = MergeListeners(port)
    BY <1>2, <1>1 DEF PraxisListeners
  <2>5. MergeListeners(port).name = Group(port)[1].name
    BY DEF MergeListeners
  <2>6. PICK k \in 1..Len(Supported) :
          /\ Supported[k] \in {l \in ToSet(listeners) : l.port = port}
          /\ Group(port)[1] = Supported[k]
          /\ \A j \in 1..(k - 1) : Supported[j] \notin {l \in ToSet(listeners) : l.port = port}
    BY <1>1, <2>3, OnlyFirst DEF Group
  <2>7. \A j \in 1..(k - 1) : Supported[j] \in ToSet(listeners)
    <3>1. \A j \in 1..(k - 1) : j \in DOMAIN Supported
      BY <1>1
    <3> QED BY <3>1, SupportedElements DEF ToSet
  <2> QED BY <2>3, <2>4, <2>5, <2>6, <2>7
<1> QED BY <1>2, <1>3

LEMMA CertificatesElements ==
  ASSUME NEW l \in ListenerSpecs
  PROVE  /\ IsSeq(Certificates(l))
         /\ \A c \in ToSet(Certificates(l)) : c.secret \in ToSet(l.secrets)
<1> DEFINE n == Len(l.secrets)
<1>1. n \in Nat /\ DOMAIN l.secrets = 1..n
  BY ListenersAssumption, IsSeqFacts
<1>2. Certificates(l) = [i \in DOMAIN l.secrets |-> [secret |-> l.secrets[i], server |-> l.hostname]]
  BY DEF Certificates
<1>3. Certificates(l) = [i \in 1..n |-> Certificates(l)[i]]
  BY <1>1, <1>2
<1>4. IsSeq(Certificates(l)) /\ DOMAIN Certificates(l) = 1..n
  BY <1>1, <1>3, Tabulated
<1>5. ASSUME NEW c \in ToSet(Certificates(l)) PROVE c.secret \in ToSet(l.secrets)
  <2>1. PICK i \in 1..n : c = Certificates(l)[i]
    BY <1>4 DEF ToSet
  <2> QED BY <2>1, <1>1, <1>2 DEF ToSet
<1> QED BY <1>4, <1>5

LEMMA TailElements ==
  ASSUME NEW s, IsSeq(s), s # <<>>
  PROVE  /\ IsSeq(Tail(s)) /\ Len(Tail(s)) \in Nat /\ DOMAIN Tail(s) = 1..Len(Tail(s))
         /\ \A i \in 1..Len(Tail(s)) : Tail(s)[i] \in ToSet(s)
<1>1. s \in Seq(ToSet(s))
  BY DEF IsSeq, ToSet
<1>2. Tail(s) \in Seq(ToSet(s))
  BY <1>1
<1>3. IsSeq(Tail(s)) /\ Len(Tail(s)) \in Nat /\ DOMAIN Tail(s) = 1..Len(Tail(s))
  BY <1>2, SeqIsSeq
<1> QED BY <1>2, <1>3

\* Every certificate of a port comes from a listener of the port.
LEMMA MergedCertificates ==
  ASSUME Snapshot, NEW port \in DOMAIN PraxisListeners,
         NEW c \in ToSet(PraxisListeners[port].certificates)
  PROVE  \E l \in ToSet(Group(port)) : c.secret \in ToSet(l.secrets)
<1> DEFINE group == Group(port)
           own   == IF group[1].protocol = "HTTPS" THEN Certificates(group[1]) ELSE <<>>
           rest  == [i \in DOMAIN Tail(group) |-> Certificates(Tail(group)[i])]
<1>1. /\ IsSeq(group) /\ group # <<>>
      /\ \A l \in ToSet(group) : l \in ListenerSpecs
  BY PortNamed, GroupElements, SupportedElements, SnapshotFacts
<1>2. PraxisListeners[port].certificates = own \o FlattenSeq(rest)
  BY PortNamed DEF MergeListeners
<1> HIDE DEF group
<1>3. /\ Len(Tail(group)) \in Nat /\ DOMAIN Tail(group) = 1..Len(Tail(group))
      /\ \A i \in 1..Len(Tail(group)) : Tail(group)[i] \in ToSet(group)
  BY <1>1, TailElements
<1>4. group[1] \in ToSet(group)
  <2>1. 1 \in 1..Len(group)
    BY <1>1, IsSeqFacts
  <2> QED BY <2>1, <1>1, IsSeqFacts
<1>5. /\ IsSeq(own)
      /\ \A d \in ToSet(own) : d.secret \in ToSet(group[1].secrets)
  <2>1. CASE group[1].protocol = "HTTPS"
    BY <2>1, <1>1, <1>4, CertificatesElements
  <2>2. CASE group[1].protocol # "HTTPS"
    <3>1. own = <<>>
      BY <2>2
    <3> HIDE DEF own
    <3>2. IsSeq(own) /\ ToSet(own) = {}
      BY <3>1, NoElements
    <3> QED BY <3>2
  <2> QED BY <2>1, <2>2
<1>6. \A i \in 1..Len(Tail(group)) :
        /\ rest[i] = Certificates(Tail(group)[i])
        /\ IsSeq(rest[i])
        /\ \A d \in ToSet(rest[i]) : d.secret \in ToSet(Tail(group)[i].secrets)
  BY <1>1, <1>3, CertificatesElements
<1>7. IsSeq(rest) /\ Len(rest) = Len(Tail(group))
  <2>1. rest = [i \in 1..Len(Tail(group)) |-> rest[i]]
    BY <1>3
  <2> HIDE DEF rest
  <2> QED BY <1>3, <2>1, Tabulated
<1> HIDE DEF own, rest
<1>8. /\ IsSeq(FlattenSeq(rest))
      /\ \A d : d \in ToSet(FlattenSeq(rest)) <=> \E i \in 1..Len(rest) : d \in ToSet(rest[i])
  BY <1>6, <1>7, FlattenElements
<1>9. c \in ToSet(own) \/ c \in ToSet(FlattenSeq(rest))
  BY <1>2, <1>5, <1>8, Joined
<1>10. CASE c \in ToSet(own)
  BY <1>10, <1>4, <1>5 DEF group
<1>11. CASE c \in ToSet(FlattenSeq(rest))
  BY <1>11, <1>3, <1>6, <1>7, <1>8 DEF group
<1> QED BY <1>9, <1>10, <1>11

LEMMA SnapshotChildren == Snapshot => ChildrenAgree
<1> SUFFICES ASSUME Snapshot PROVE ChildrenAgree
  OBVIOUS
<1>0. /\ IsSeq(Supported) /\ Len(Supported) \in Nat /\ DOMAIN Supported = 1..Len(Supported)
      /\ \A i \in 1..Len(Supported) : Supported[i] \in ToSet(Supported)
  <2>1. IsSeq(Supported)
    BY SupportedElements
  <2> QED BY <2>1, IsSeqFacts
<1>1. ListenerPorts = {<<PraxisListeners[p].name, p>> : p \in DOMAIN PraxisListeners}
  <2>1. ASSUME NEW x \in ListenerPorts
        PROVE  x \in {<<PraxisListeners[p].name, p>> : p \in DOMAIN PraxisListeners}
    <3>1. PICK i \in 1..Len(Supported) :
            /\ x = <<Supported[i].name, Supported[i].port>>
            /\ \A j \in 1..(i - 1) : Supported[j].port # Supported[i].port
      BY <1>0 DEF ListenerPorts
    <3>2. Supported[i].port \in DOMAIN PraxisListeners
      BY PortNamed
    <3>3. PICK k \in 1..Len(Supported) :
            /\ PraxisListeners[Supported[i].port].name = Supported[k].name
            /\ Supported[k].port = Supported[i].port
            /\ \A j \in 1..(k - 1) : Supported[j].port # Supported[i].port
      BY <3>2, PortNamed
    <3>4. k = i
      <4>1. ~(k < i) BY <3>1, <3>3, <1>0
      <4>2. ~(i < k) BY <3>3, <1>0
      <4> QED BY <4>1, <4>2, <1>0
    <3> QED BY <3>1, <3>2, <3>3, <3>4
  <2>2. ASSUME NEW p \in DOMAIN PraxisListeners
        PROVE  <<PraxisListeners[p].name, p>> \in ListenerPorts
    <3>1. PICK k \in 1..Len(Supported) :
            /\ PraxisListeners[p].name = Supported[k].name
            /\ Supported[k].port = p
            /\ \A j \in 1..(k - 1) : Supported[j].port # p
      BY PortNamed
    <3> QED BY <3>1, <1>0 DEF ListenerPorts
  <2> QED BY <2>1, <2>2
<1>2. ASSUME NEW p \in DOMAIN PraxisListeners, NEW o \in DOMAIN PraxisListeners,
             PraxisListeners[p].name = PraxisListeners[o].name
      PROVE  p = o
  <2>1. PICK k \in 1..Len(Supported) :
          PraxisListeners[p].name = Supported[k].name /\ Supported[k].port = p
    BY PortNamed
  <2>2. PICK m \in 1..Len(Supported) :
          PraxisListeners[o].name = Supported[m].name /\ Supported[m].port = o
    BY PortNamed
  <2>3. Supported[k] \in ToSet(listeners) /\ Supported[m] \in ToSet(listeners)
    BY <1>0, SupportedElements
  <2>4. Supported[k] = Supported[m]
    BY <1>2, <2>1, <2>2, <2>3, SnapshotFacts
  <2> QED BY <2>1, <2>2, <2>4
<1>3. ASSUME NEW p \in DOMAIN PraxisListeners,
             NEW c \in ToSet(PraxisListeners[p].certificates)
      PROVE  c.secret \in TlsSecretNames
  <2>1. PICK l \in ToSet(Group(p)) : c.secret \in ToSet(l.secrets)
    BY <1>3, MergedCertificates
  <2>2. l \in ToSet(listeners) /\ l \in ListenerSpecs /\ l.protocol \in {"HTTP", "HTTPS"}
    BY GroupElements, SupportedElements, SnapshotFacts
  <2>3. l.secrets # <<>>
    BY <2>1, <2>2, ListenersAssumption, IsSeqFacts
  <2>4. l.protocol = "HTTPS"
    BY <2>2, <2>3, ListenersAssumption
  <2> QED BY <2>1, <2>2, <2>4 DEF TlsSecretNames
<1> QED BY <1>1, <1>2, <1>3 DEF ChildrenAgree

\* The Service and the Deployment have the ports the configuration binds, no
\* two under one name, and the secrets it names are mounted, for every list
\* of listeners.
THEOREM ChildrenAlwaysAgree == Spec => []ChildrenAgree
<1> QED BY SnapshotHolds, SnapshotChildren, PTL

-----------------------------------------------------------------------------
(* The rules and the router entries.                                       *)

LEMMA CollectedRulesElements ==
  ASSUME Snapshot
  PROVE  /\ IsSeq(CollectedRules)
         /\ \A c : c \in ToSet(CollectedRules) <=>
              \E a \in ToSet(CollectRoutes) : \E rule \in ToSet(a.route.rules) :
                c = [of |-> a, rule |-> rule]
<1> DEFINE C   == CollectRoutes
           of(i) == [j \in DOMAIN C[i].route.rules |-> [of |-> C[i], rule |-> C[i].route.rules[j]]]
           all == [i \in DOMAIN C |-> of(i)]
<1>1. IsSeq(C)
  BY CollectedElements
<1>2. /\ Len(C) \in Nat /\ DOMAIN C = 1..Len(C)
      /\ \A a : a \in ToSet(C) <=> \E i \in 1..Len(C) : C[i] = a
  BY <1>1, IsSeqFacts
<1>3. \A i \in 1..Len(C) : C[i].route \in RouteSpecs
  <2> TAKE i \in 1..Len(C)
  <2>1. C[i] \in ToSet(CollectRoutes)
    BY <1>2
  <2>2. PICK r \in ToSet(httpRoutes) : C[i] = [route |-> r, sections |-> SectionNames(r)]
    BY <2>1, CollectedElements
  <2>3. r \in RouteSpecs
    BY SnapshotFacts
  <2> QED BY <2>2, <2>3
<1>4. CollectedRules = FlattenSeq(all)
  BY DEF CollectedRules
<1> HIDE DEF C
<1>5. \A i \in 1..Len(C) :
        /\ IsSeq(of(i))
        /\ \A c : c \in ToSet(of(i))
                    <=> \E rule \in ToSet(C[i].route.rules) : c = [of |-> C[i], rule |-> rule]
  <2> TAKE i \in 1..Len(C)
  <2>1. IsSeq(C[i].route.rules)
    BY <1>3, RoutesAssumption
  <2>2. /\ Len(C[i].route.rules) \in Nat
        /\ DOMAIN C[i].route.rules = 1..Len(C[i].route.rules)
    BY <2>1, IsSeqFacts
  <2>3. of(i) = [j \in 1..Len(C[i].route.rules) |-> of(i)[j]]
    BY <2>2
  <2>4. \A c : c \in ToSet(of(i))
                 <=> \E rule \in ToSet(C[i].route.rules) : c = [of |-> C[i], rule |-> rule]
    BY DEF ToSet
  <2> HIDE DEF of
  <2>5. IsSeq(of(i))
    BY <2>2, <2>3, Tabulated
  <2> QED BY <2>4, <2>5
<1>6. IsSeq(all) /\ Len(all) = Len(C) /\ \A i \in 1..Len(C) : all[i] = of(i)
  <2>1. all = [i \in 1..Len(C) |-> all[i]] /\ \A i \in 1..Len(C) : all[i] = of(i)
    BY <1>2
  <2> HIDE DEF all
  <2>2. IsSeq(all) /\ Len(all) = Len(C)
    BY <1>2, <2>1, Tabulated
  <2> QED BY <2>1, <2>2
<1> HIDE DEF all, of
<1>7. /\ IsSeq(FlattenSeq(all))
      /\ \A c : c \in ToSet(FlattenSeq(all)) <=> \E i \in 1..Len(all) : c \in ToSet(all[i])
  <2>1. \A i \in 1..Len(all) : IsSeq(all[i])
    BY <1>5, <1>6
  <2> QED BY <1>6, <2>1, FlattenElements
<1>8. \A c : c \in ToSet(CollectedRules) <=>
               \E i \in 1..Len(C) : \E rule \in ToSet(C[i].route.rules) :
                 c = [of |-> C[i], rule |-> rule]
  BY <1>4, <1>5, <1>6, <1>7
<1>9. \A c : c \in ToSet(CollectedRules) <=>
               \E a \in ToSet(C) : \E rule \in ToSet(a.route.rules) :
                 c = [of |-> a, rule |-> rule]
  BY <1>2, <1>8
<1> QED BY <1>4, <1>7, <1>9 DEF C

\* What a rule of a route is.
ProperMatch(m) ==
  /\ m.type \in {None, "Regex", "Prefix", "Exact"}
  /\ m.type \in {"Prefix", "Exact"} => IsSeq(m.path) /\ m.path # <<>> /\ m.path[1] = "/"

ProperRule(rule) ==
  /\ IsSeq(rule.matches) /\ IsSeq(rule.backends) /\ IsSeq(rule.filters)
  /\ \A m \in ToSet(rule.matches) : ProperMatch(m)
  /\ MergedClusterName(rule) # None

LEMMA CollectedRulesProper ==
  ASSUME Snapshot, NEW c \in ToSet(CollectedRules)
  PROVE  /\ c.of \in ToSet(CollectRoutes)
         /\ c.of.route \in RouteSpecs /\ c.of.sections = SectionNames(c.of.route)
         /\ c.rule \in ToSet(c.of.route.rules)
         /\ ProperRule(c.rule)
<1>1. PICK a \in ToSet(CollectRoutes) :
        \E rule \in ToSet(a.route.rules) : c = [of |-> a, rule |-> rule]
  BY CollectedRulesElements
<1>rule. PICK rule \in ToSet(a.route.rules) : c = [of |-> a, rule |-> rule]
  BY <1>1
<1>2. PICK r \in ToSet(httpRoutes) : a = [route |-> r, sections |-> SectionNames(r)]
  BY CollectedElements
<1>3. r \in RouteSpecs
  BY SnapshotFacts
<1>4. c.of = a /\ c.rule = rule /\ a.route = r /\ a.sections = SectionNames(r)
  BY <1>rule, <1>2
<1>5. ProperRule(rule)
  BY <1>3, <1>4, RoutesAssumption, NamesAssumption DEF ProperRule, ProperMatch
<1> QED BY <1>3, <1>4, <1>5

LEMMA MatchesProper ==
  ASSUME NEW rule, ProperRule(rule)
  PROVE  /\ IsSeq(Matches(rule)) /\ Matches(rule) # <<>>
         /\ \A m \in ToSet(Matches(rule)) : ProperMatch(m)
<1>1. CASE rule.matches # <<>>
  BY <1>1 DEF Matches, ProperRule
<1>2. CASE rule.matches = <<>>
  <2> DEFINE any == [type |-> None, path |-> Root, header |-> None]
  <2>1. Matches(rule) = <<any>>
    BY <1>2 DEF Matches
  <2>2. ProperMatch(any)
    BY NoneAssumption DEF ProperMatch
  <2> HIDE DEF any
  <2>3. IsSeq(<<any>>) /\ ToSet(<<any>>) = {any}
    BY Single
  <2> QED BY <2>1, <2>2, <2>3
<1> QED BY <1>1, <1>2

\* The paths a match becomes.
LEMMA PathsOfMatch ==
  ASSUME NEW m, ProperMatch(m)
  PROVE  /\ IsSeq(ExtractPathMatch(m))
         /\ m.type \in {None, "Regex"} => ToSet(ExtractPathMatch(m)) = {Prefixing(Root)}
         /\ m.type = "Prefix" /\ EndsWithSlash(m.path) =>
              ToSet(ExtractPathMatch(m)) = {Prefixing(m.path)}
         /\ m.type = "Prefix" /\ ~EndsWithSlash(m.path) =>
              ToSet(ExtractPathMatch(m)) = {Exactly(m.path), Prefixing(Append(m.path, "/"))}
         /\ m.type = "Exact" => ToSet(ExtractPathMatch(m)) = {Exactly(m.path)}
<1>1. CASE m.type \in {None, "Regex"}
  <2>1. m.type \notin {"Prefix", "Exact"}
    BY <1>1, NoneAssumption
  <2>2. ExtractPathMatch(m) = <<Prefixing(Root)>>
    BY <1>1, <2>1 DEF ExtractPathMatch
  <2> QED BY <2>1, <2>2, Single
<1>2. CASE m.type = "Prefix" /\ EndsWithSlash(m.path)
  <2>1. m.type \notin {None, "Regex", "Exact"}
    BY <1>2, NoneAssumption
  <2>2. ExtractPathMatch(m) = <<Prefixing(m.path)>>
    BY <1>2, <2>1 DEF ExtractPathMatch
  <2> QED BY <1>2, <2>1, <2>2, Single
<1>3. CASE m.type = "Prefix" /\ ~EndsWithSlash(m.path)
  <2>1. m.type \notin {None, "Regex", "Exact"}
    BY <1>3, NoneAssumption
  <2>2. ExtractPathMatch(m) = <<Exactly(m.path), Prefixing(Append(m.path, "/"))>>
    BY <1>3, <2>1 DEF ExtractPathMatch
  <2> QED BY <1>3, <2>1, <2>2, Pair
<1>4. CASE m.type = "Exact"
  <2>1. m.type \notin {None, "Regex", "Prefix"}
    BY <1>4, NoneAssumption
  <2>2. ExtractPathMatch(m) = <<Exactly(m.path)>>
    BY <1>4, <2>1 DEF ExtractPathMatch
  <2> QED BY <2>1, <2>2, Single
<1> QED BY <1>1, <1>2, <1>3, <1>4 DEF ProperMatch

-----------------------------------------------------------------------------
(* The filters.                                                            *)

\* What the filters of a rule are.
ProperFilters(rule) ==
  /\ IsSeq(rule.filters)
  /\ \A f \in ToSet(rule.filters) :
       f.type \in Modifiers => \A list \in {f.add, f.set, f.remove} : list = None \/ IsSeq(list)

LEMMA OfTypeElements ==
  ASSUME NEW rule, ProperFilters(rule), NEW type
  PROVE  /\ IsSeq(OfType(rule, type))
         /\ Len(OfType(rule, type)) \in Nat
         /\ DOMAIN OfType(rule, type) = 1..Len(OfType(rule, type))
         /\ \A f : f \in ToSet(OfType(rule, type)) <=> f \in ToSet(rule.filters) /\ f.type = type
         /\ \A f : f \in ToSet(OfType(rule, type))
                     <=> \E i \in 1..Len(OfType(rule, type)) : OfType(rule, type)[i] = f
<1>1. /\ IsSeq(OfType(rule, type))
      /\ ToSet(OfType(rule, type)) = ToSet(rule.filters) \cap {f \in ToSet(rule.filters) : f.type = type}
  BY OnlyElements DEF OfType, ProperFilters
<1>2. \A f : f \in ToSet(OfType(rule, type)) <=> f \in ToSet(rule.filters) /\ f.type = type
  BY <1>1
<1> QED BY <1>1, <1>2, IsSeqFacts

LEMMA OrElseList ==
  ASSUME NEW list, list = None \/ IsSeq(list)
  PROVE  IsSeq(OrElse(list, <<>>)) /\ (list = None => ToSet(OrElse(list, <<>>)) = {})
BY NoElements DEF OrElse

\* The lists of a rule's modifiers.
LEMMA ModifierLists ==
  ASSUME NEW rule, ProperFilters(rule), NEW f \in ToSet(rule.filters), f.type \in Modifiers
  PROVE  /\ IsSeq(OrElse(f.add, <<>>)) /\ (f.add = None => ToSet(OrElse(f.add, <<>>)) = {})
         /\ IsSeq(OrElse(f.set, <<>>)) /\ (f.set = None => ToSet(OrElse(f.set, <<>>)) = {})
         /\ IsSeq(OrElse(f.remove, <<>>)) /\ (f.remove = None => ToSet(OrElse(f.remove, <<>>)) = {})
<1>1. \A list \in {f.add, f.set, f.remove} : list = None \/ IsSeq(list)
  BY DEF ProperFilters
<1>2. /\ f.add = None \/ IsSeq(f.add)
      /\ f.set = None \/ IsSeq(f.set)
      /\ f.remove = None \/ IsSeq(f.remove)
  BY <1>1
<1> QED BY <1>2, OrElseList

\* What lists, one for each element of a sequence, have one after the other.
LEMMA FlattenTabulated ==
  ASSUME NEW fs, IsSeq(fs), NEW all, all = [i \in DOMAIN fs |-> all[i]],
         \A i \in 1..Len(fs) : IsSeq(all[i])
  PROVE  \A x : x \in ToSet(FlattenSeq(all)) <=> \E i \in 1..Len(fs) : x \in ToSet(all[i])
<1>1. Len(fs) \in Nat /\ DOMAIN fs = 1..Len(fs)
  BY IsSeqFacts
<1>2. IsSeq(all) /\ Len(all) = Len(fs)
  BY <1>1, Tabulated
<1> QED BY <1>2, FlattenElements

\* The lists of a rule's modifiers, one after the other, have their operations
\* and no others.
LEMMA MergedOperations ==
  ASSUME NEW rule, ProperFilters(rule), NEW op
  PROVE  /\ op \in ToSet(Operations(rule).request_add) <=>
              \E f \in ToSet(rule.filters) :
                /\ f.type = "RequestHeaderModifier"
                /\ op \in ToSet(OrElse(f.add, <<>>)) \cup ToSet(OrElse(f.set, <<>>))
         /\ op \in ToSet(Operations(rule).response_add) <=>
              \E f \in ToSet(rule.filters) :
                f.type = "ResponseHeaderModifier" /\ op \in ToSet(OrElse(f.add, <<>>))
         /\ op \in ToSet(Operations(rule).response_set) <=>
              \E f \in ToSet(rule.filters) :
                f.type = "ResponseHeaderModifier" /\ op \in ToSet(OrElse(f.set, <<>>))
         /\ op \in ToSet(Operations(rule).response_remove) <=>
              \E f \in ToSet(rule.filters) :
                f.type = "ResponseHeaderModifier" /\ op \in ToSet(OrElse(f.remove, <<>>))
<1> DEFINE requests  == OfType(rule, "RequestHeaderModifier")
           responses == OfType(rule, "ResponseHeaderModifier")
           all     == [i \in DOMAIN requests |->
                         OrElse(requests[i].add, <<>>) \o OrElse(requests[i].set, <<>>)]
           adds    == [i \in DOMAIN responses |-> OrElse(responses[i].add, <<>>)]
           sets    == [i \in DOMAIN responses |-> OrElse(responses[i].set, <<>>)]
           removes == [i \in DOMAIN responses |-> OrElse(responses[i].remove, <<>>)]
<1>1. /\ IsSeq(requests) /\ DOMAIN requests = 1..Len(requests)
      /\ \A f : f \in ToSet(requests)
                  <=> f \in ToSet(rule.filters) /\ f.type = "RequestHeaderModifier"
      /\ \A f : f \in ToSet(requests) <=> \E i \in 1..Len(requests) : requests[i] = f
  BY OfTypeElements
<1>2. /\ IsSeq(responses) /\ DOMAIN responses = 1..Len(responses)
      /\ \A f : f \in ToSet(responses)
                  <=> f \in ToSet(rule.filters) /\ f.type = "ResponseHeaderModifier"
      /\ \A f : f \in ToSet(responses) <=> \E i \in 1..Len(responses) : responses[i] = f
  BY OfTypeElements
<1>3. /\ Operations(rule).request_add = FlattenSeq(all)
      /\ Operations(rule).response_add = FlattenSeq(adds)
      /\ Operations(rule).response_set = FlattenSeq(sets)
      /\ Operations(rule).response_remove = FlattenSeq(removes)
  BY DEF Operations
<1> HIDE DEF requests, responses
<1>4. /\ all = [i \in DOMAIN requests |-> all[i]]
      /\ \A i \in 1..Len(requests) :
           all[i] = OrElse(requests[i].add, <<>>) \o OrElse(requests[i].set, <<>>)
  BY <1>1
<1>5. /\ adds = [i \in DOMAIN responses |-> adds[i]]
      /\ sets = [i \in DOMAIN responses |-> sets[i]]
      /\ removes = [i \in DOMAIN responses |-> removes[i]]
      /\ \A i \in 1..Len(responses) : /\ adds[i] = OrElse(responses[i].add, <<>>)
                                      /\ sets[i] = OrElse(responses[i].set, <<>>)
                                      /\ removes[i] = OrElse(responses[i].remove, <<>>)
  BY <1>2
<1> HIDE DEF all, adds, sets, removes
<1>6. \A i \in 1..Len(requests) :
        /\ IsSeq(all[i])
        /\ ToSet(all[i]) = ToSet(OrElse(requests[i].add, <<>>))
                             \cup ToSet(OrElse(requests[i].set, <<>>))
  <2> TAKE i \in 1..Len(requests)
  <2>1. requests[i] \in ToSet(rule.filters) /\ requests[i].type = "RequestHeaderModifier"
    BY <1>1
  <2>2. IsSeq(OrElse(requests[i].add, <<>>)) /\ IsSeq(OrElse(requests[i].set, <<>>))
    BY <2>1, ModifierLists DEF Modifiers
  <2> DEFINE adding == OrElse(requests[i].add, <<>>)
             setting == OrElse(requests[i].set, <<>>)
  <2>3. all[i] = adding \o setting
    BY <1>4
  <2>4. IsSeq(adding) /\ IsSeq(setting)
    BY <2>2
  <2> HIDE DEF adding, setting
  <2>5. IsSeq(all[i]) /\ ToSet(all[i]) = ToSet(adding) \cup ToSet(setting)
    BY <2>3, <2>4, Joined
  <2> QED BY <2>5 DEF adding, setting
<1>7. \A i \in 1..Len(responses) : IsSeq(adds[i]) /\ IsSeq(sets[i]) /\ IsSeq(removes[i])
  <2> TAKE i \in 1..Len(responses)
  <2>1. responses[i] \in ToSet(rule.filters) /\ responses[i].type = "ResponseHeaderModifier"
    BY <1>2
  <2>2. /\ IsSeq(OrElse(responses[i].add, <<>>)) /\ IsSeq(OrElse(responses[i].set, <<>>))
        /\ IsSeq(OrElse(responses[i].remove, <<>>))
    BY <2>1, ModifierLists DEF Modifiers
  <2> QED BY <1>5, <2>2
<1>8. op \in ToSet(FlattenSeq(all)) <=> \E i \in 1..Len(requests) : op \in ToSet(all[i])
  BY <1>1, <1>4, <1>6, FlattenTabulated
<1>9. op \in ToSet(FlattenSeq(adds)) <=> \E i \in 1..Len(responses) : op \in ToSet(adds[i])
  BY <1>2, <1>5, <1>7, FlattenTabulated
<1>10. op \in ToSet(FlattenSeq(sets)) <=> \E i \in 1..Len(responses) : op \in ToSet(sets[i])
  BY <1>2, <1>5, <1>7, FlattenTabulated
<1>11. op \in ToSet(FlattenSeq(removes)) <=> \E i \in 1..Len(responses) : op \in ToSet(removes[i])
  BY <1>2, <1>5, <1>7, FlattenTabulated
<1>12. op \in ToSet(FlattenSeq(all)) <=>
         \E f \in ToSet(rule.filters) :
           /\ f.type = "RequestHeaderModifier"
           /\ op \in ToSet(OrElse(f.add, <<>>)) \cup ToSet(OrElse(f.set, <<>>))
  <2>1. op \in ToSet(FlattenSeq(all)) <=>
          \E i \in 1..Len(requests) :
            op \in ToSet(OrElse(requests[i].add, <<>>)) \cup ToSet(OrElse(requests[i].set, <<>>))
    BY <1>6, <1>8
  <2> QED BY <1>1, <2>1
<1>13. op \in ToSet(FlattenSeq(adds)) <=>
         \E f \in ToSet(rule.filters) :
           f.type = "ResponseHeaderModifier" /\ op \in ToSet(OrElse(f.add, <<>>))
  BY <1>2, <1>5, <1>9
<1>14. op \in ToSet(FlattenSeq(sets)) <=>
         \E f \in ToSet(rule.filters) :
           f.type = "ResponseHeaderModifier" /\ op \in ToSet(OrElse(f.set, <<>>))
  BY <1>2, <1>5, <1>10
<1>15. op \in ToSet(FlattenSeq(removes)) <=>
         \E f \in ToSet(rule.filters) :
           f.type = "ResponseHeaderModifier" /\ op \in ToSet(OrElse(f.remove, <<>>))
  BY <1>2, <1>5, <1>11
<1> QED BY <1>3, <1>12, <1>13, <1>14, <1>15

\* The operations a rule is promised, list by list.
LEMMA PromisedElements ==
  ASSUME NEW rule, NEW x
  PROVE  x \in Promised(rule) <=>
           \E f \in ToSet(rule.filters) :
             \/ /\ f.type = "RequestHeaderModifier"
                /\ \E op \in ToSet(OrElse(f.add, <<>>)) \cup ToSet(OrElse(f.set, <<>>)) :
                     x = <<"request_add", op>>
             \/ /\ f.type = "ResponseHeaderModifier"
                /\ \/ \E op \in ToSet(OrElse(f.add, <<>>)) : x = <<"response_add", op>>
                   \/ \E op \in ToSet(OrElse(f.set, <<>>)) : x = <<"response_set", op>>
                   \/ \E op \in ToSet(OrElse(f.remove, <<>>)) : x = <<"response_remove", op>>
<1>1. x \in Promised(rule) <=>
        \E f \in ToSet(rule.filters) : \E a \in Asked(f) :
          a[1] # "request_remove" /\ x = IF a[1] = "request_set" THEN <<"request_add", a[2]>> ELSE a
  BY DEF Promised
<1>2. ASSUME NEW f
      PROVE  (\E a \in Asked(f) : /\ a[1] # "request_remove"
                                  /\ x = IF a[1] = "request_set" THEN <<"request_add", a[2]>> ELSE a)
             <=> \/ /\ f.type = "RequestHeaderModifier"
                    /\ \E op \in ToSet(OrElse(f.add, <<>>)) \cup ToSet(OrElse(f.set, <<>>)) :
                         x = <<"request_add", op>>
                 \/ /\ f.type = "ResponseHeaderModifier"
                    /\ \/ \E op \in ToSet(OrElse(f.add, <<>>)) : x = <<"response_add", op>>
                       \/ \E op \in ToSet(OrElse(f.set, <<>>)) : x = <<"response_set", op>>
                       \/ \E op \in ToSet(OrElse(f.remove, <<>>)) : x = <<"response_remove", op>>
  <2>1. CASE f.type = "RequestHeaderModifier"
    <3>1. Asked(f) = {<<"request_add", op>> : op \in ToSet(OrElse(f.add, <<>>))}
                       \cup {<<"request_set", op>> : op \in ToSet(OrElse(f.set, <<>>))}
                       \cup {<<"request_remove", op>> : op \in ToSet(OrElse(f.remove, <<>>))}
      BY <2>1 DEF Asked
    <3> DEFINE adds == ToSet(OrElse(f.add, <<>>))
               sets == ToSet(OrElse(f.set, <<>>))
               removes == ToSet(OrElse(f.remove, <<>>))
               R(a) == /\ a[1] # "request_remove"
                       /\ x = IF a[1] = "request_set" THEN <<"request_add", a[2]>> ELSE a
    <3>2. (\E a \in Asked(f) : R(a)) <=>
            \/ \E op \in adds : R(<<"request_add", op>>)
            \/ \E op \in sets : R(<<"request_set", op>>)
            \/ \E op \in removes : R(<<"request_remove", op>>)
      <4> HIDE DEF R
      <4> QED BY <3>1
    <3>3. \A op : /\ R(<<"request_add", op>>) <=> x = <<"request_add", op>>
                  /\ R(<<"request_set", op>>) <=> x = <<"request_add", op>>
                  /\ ~R(<<"request_remove", op>>)
      OBVIOUS
    <3> HIDE DEF R, adds, sets, removes
    <3>4. (\E a \in Asked(f) : R(a)) <=> \E op \in adds \cup sets : x = <<"request_add", op>>
      BY <3>2, <3>3
    <3> QED BY <2>1, <3>4 DEF R, adds, sets
  <2>2. CASE f.type = "ResponseHeaderModifier"
    <3>1. Asked(f) = {<<"response_add", op>> : op \in ToSet(OrElse(f.add, <<>>))}
                       \cup {<<"response_set", op>> : op \in ToSet(OrElse(f.set, <<>>))}
                       \cup {<<"response_remove", op>> : op \in ToSet(OrElse(f.remove, <<>>))}
      BY <2>2 DEF Asked
    <3> QED BY <2>2, <3>1
  <2>3. CASE f.type \notin Modifiers
    BY <2>3 DEF Asked, Modifiers
  <2> QED BY <2>1, <2>2, <2>3 DEF Modifiers
<1> QED BY <1>1, <1>2

\* The headers filter of a rule does what the rule is promised.
LEMMA HeadersDone ==
  ASSUME NEW rule, ProperFilters(rule)
  PROVE  /\ IsSeq(HeaderFilter(rule))
         /\ \A f \in ToSet(HeaderFilter(rule)) : f.filter = "headers" /\ f.when = Condition(rule)
         /\ Done(ToSet(HeaderFilter(rule))) = Promised(rule)
<1>1. CASE ~HasHeaderMods(rule)
  <2>1. HeaderFilter(rule) = <<>>
    BY <1>1 DEF HeaderFilter
  <2>2. IsSeq(HeaderFilter(rule)) /\ ToSet(HeaderFilter(rule)) = {}
    BY <2>1, NoElements
  <2>3. Done({}) = {}
    BY DEF Done
  <2>4. ASSUME NEW f \in ToSet(rule.filters), f.type \in Modifiers
        PROVE  /\ ToSet(OrElse(f.add, <<>>)) = {} /\ ToSet(OrElse(f.set, <<>>)) = {}
               /\ f.type = "ResponseHeaderModifier" => ToSet(OrElse(f.remove, <<>>)) = {}
    BY <1>1, <2>4, ModifierLists DEF HasHeaderMods
  <2>5. \A x : x \notin Promised(rule)
    BY <2>4, PromisedElements DEF Modifiers
  <2> QED BY <2>2, <2>3, <2>5
<1>2. CASE HasHeaderMods(rule)
  <2> DEFINE ops == Operations(rule)
             g   == [filter |-> "headers", when |-> Condition(rule), ops |-> ops]
  <2>1. HeaderFilter(rule) = <<g>>
    BY <1>2 DEF HeaderFilter
  <2>2. g.filter = "headers" /\ g.when = Condition(rule) /\ g.ops = ops
    OBVIOUS
  <2>3. /\ ops["request_add"] = ops.request_add /\ ops["response_add"] = ops.response_add
        /\ ops["response_set"] = ops.response_set /\ ops["response_remove"] = ops.response_remove
    OBVIOUS
  <2> HIDE DEF g, ops
  <2>4. IsSeq(HeaderFilter(rule)) /\ ToSet(HeaderFilter(rule)) = {g}
    BY <2>1, Single
  <2>5. ASSUME NEW x
        PROVE  x \in Done({g}) <=>
                 \/ \E op \in ToSet(ops.request_add) : x = <<"request_add", op>>
                 \/ \E op \in ToSet(ops.response_add) : x = <<"response_add", op>>
                 \/ \E op \in ToSet(ops.response_set) : x = <<"response_set", op>>
                 \/ \E op \in ToSet(ops.response_remove) : x = <<"response_remove", op>>
    <3>1. x \in Done({g}) <=>
            \E list \in {"request_add", "response_add", "response_set", "response_remove"} :
              \E op \in ToSet(g.ops[list]) : x = <<list, op>>
      <4>1. Done({g}) = Operated(g)
        BY <2>2 DEF Done
      <4>2. DOMAIN g.ops = {"request_add", "response_add", "response_set", "response_remove"}
        BY <2>2 DEF ops, Operations
      <4> QED BY <4>1, <4>2 DEF Operated
    <3> QED BY <2>2, <2>3, <3>1
  <2>6. \A op : /\ op \in ToSet(ops.request_add) <=>
                     \E f \in ToSet(rule.filters) :
                       /\ f.type = "RequestHeaderModifier"
                       /\ op \in ToSet(OrElse(f.add, <<>>)) \cup ToSet(OrElse(f.set, <<>>))
                /\ op \in ToSet(ops.response_add) <=>
                     \E f \in ToSet(rule.filters) :
                       f.type = "ResponseHeaderModifier" /\ op \in ToSet(OrElse(f.add, <<>>))
                /\ op \in ToSet(ops.response_set) <=>
                     \E f \in ToSet(rule.filters) :
                       f.type = "ResponseHeaderModifier" /\ op \in ToSet(OrElse(f.set, <<>>))
                /\ op \in ToSet(ops.response_remove) <=>
                     \E f \in ToSet(rule.filters) :
                       f.type = "ResponseHeaderModifier" /\ op \in ToSet(OrElse(f.remove, <<>>))
    BY MergedOperations DEF ops
  <2>7. \A x : x \in Done({g}) <=> x \in Promised(rule)
    <3> TAKE x
    <3> DEFINE fs == ToSet(rule.filters)
               D == x \in Done({g})
    <3>1. D <=>
            \/ \E f \in fs : /\ f.type = "RequestHeaderModifier"
                              /\ \E op \in ToSet(OrElse(f.add, <<>>)) \cup ToSet(OrElse(f.set, <<>>)) :
                                   x = <<"request_add", op>>
            \/ \E f \in fs : /\ f.type = "ResponseHeaderModifier"
                              /\ \E op \in ToSet(OrElse(f.add, <<>>)) : x = <<"response_add", op>>
            \/ \E f \in fs : /\ f.type = "ResponseHeaderModifier"
                              /\ \E op \in ToSet(OrElse(f.set, <<>>)) : x = <<"response_set", op>>
            \/ \E f \in fs : /\ f.type = "ResponseHeaderModifier"
                              /\ \E op \in ToSet(OrElse(f.remove, <<>>)) : x = <<"response_remove", op>>
      <4>1. (\E op \in ToSet(ops.request_add) : x = <<"request_add", op>>) <=>
              \E f \in fs : /\ f.type = "RequestHeaderModifier"
                            /\ \E op \in ToSet(OrElse(f.add, <<>>)) \cup ToSet(OrElse(f.set, <<>>)) :
                                 x = <<"request_add", op>>
        BY <2>6
      <4>2. (\E op \in ToSet(ops.response_add) : x = <<"response_add", op>>) <=>
              \E f \in fs : /\ f.type = "ResponseHeaderModifier"
                            /\ \E op \in ToSet(OrElse(f.add, <<>>)) : x = <<"response_add", op>>
        BY <2>6
      <4>3. (\E op \in ToSet(ops.response_set) : x = <<"response_set", op>>) <=>
              \E f \in fs : /\ f.type = "ResponseHeaderModifier"
                            /\ \E op \in ToSet(OrElse(f.set, <<>>)) : x = <<"response_set", op>>
        BY <2>6
      <4>4. (\E op \in ToSet(ops.response_remove) : x = <<"response_remove", op>>) <=>
              \E f \in fs : /\ f.type = "ResponseHeaderModifier"
                            /\ \E op \in ToSet(OrElse(f.remove, <<>>)) : x = <<"response_remove", op>>
        BY <2>6
      <4> QED BY <2>5, <4>1, <4>2, <4>3, <4>4
    <3> HIDE DEF D
    <3>2. x \in Promised(rule) <=> D
      BY <3>1, PromisedElements
    <3> QED BY <3>2 DEF D
  <2> QED BY <2>2, <2>4, <2>7
<1> QED BY <1>1, <1>2

LEMMA RedirectElements ==
  ASSUME NEW rule, ProperFilters(rule)
  PROVE  /\ IsSeq(Redirects(rule))
         /\ Len(Redirects(rule)) = Len(OfType(rule, "RequestRedirect"))
         /\ \A i \in 1..Len(Redirects(rule)) :
              /\ Redirects(rule)[i].filter = "redirect"
              /\ Redirects(rule)[i].when = Condition(rule)
              /\ Redirects(rule)[i].location = RedirectLocation(OfType(rule, "RequestRedirect")[i])
<1> DEFINE fs == OfType(rule, "RequestRedirect")
           rs == Redirects(rule)
<1>1. Len(fs) \in Nat /\ DOMAIN fs = 1..Len(fs)
  BY OfTypeElements
<1>2. rs = [i \in 1..Len(fs) |-> rs[i]]
  BY <1>1 DEF Redirects
<1>3. \A i \in 1..Len(fs) : /\ rs[i].filter = "redirect" /\ rs[i].when = Condition(rule)
                            /\ rs[i].location = RedirectLocation(fs[i])
  BY <1>1 DEF Redirects
<1> HIDE DEF fs, rs
<1>4. IsSeq(rs) /\ Len(rs) = Len(fs)
  BY <1>1, <1>2, Tabulated
<1> QED BY <1>3, <1>4 DEF fs, rs

\* What the filters of a rule begin with.
LEMMA ConvertedFirst ==
  ASSUME NEW rule, ProperFilters(rule)
  PROVE  LET part == ConvertRuleFilters(rule)
         IN  /\ IsSeq(part)
             /\ rule.backends = <<>> =>
                  /\ 1 \in DOMAIN part
                  /\ part[1].filter = "static_response" /\ part[1].status = 500
                  /\ part[1].when = Condition(rule)
             /\ rule.backends # <<>> /\ OfType(rule, "RequestRedirect") # <<>> =>
                  1 \in DOMAIN part /\ part[1] = Redirects(rule)[1]
             /\ rule.backends # <<>> /\ OfType(rule, "RequestRedirect") = <<>> =>
                  ToSet(part) = ToSet(HeaderFilter(rule))
<1> DEFINE error == NoBackendResponse(rule)
           rs    == Redirects(rule)
           hs    == HeaderFilter(rule)
           part  == ConvertRuleFilters(rule)
<1>1. IsSeq(error) /\ IsSeq(hs)
  BY Single, NoElements DEF NoBackendResponse, HeaderFilter
<1>2. IsSeq(rs) /\ Len(rs) = Len(OfType(rule, "RequestRedirect")) /\ Len(rs) \in Nat
  BY RedirectElements, IsSeqFacts
<1>3. /\ Len(OfType(rule, "RequestRedirect")) \in Nat
      /\ OfType(rule, "RequestRedirect") = <<>> <=> Len(OfType(rule, "RequestRedirect")) = 0
  BY OfTypeElements, IsSeqFacts
<1>4. part = (error \o rs) \o hs
  BY DEF ConvertRuleFilters
<1>5. rule.backends = <<>> =>
        /\ Len(error) = 1
        /\ error[1].filter = "static_response" /\ error[1].status = 500
        /\ error[1].when = Condition(rule)
  BY DEF NoBackendResponse
<1>6. rule.backends # <<>> => error = <<>>
  BY DEF NoBackendResponse
<1> HIDE DEF error, rs, hs, part
<1>7. Len(error) \in Nat /\ Len(rs) \in Nat /\ Len(hs) \in Nat
  BY <1>1, <1>2, IsSeqFacts
<1>8. /\ IsSeq(error \o rs) /\ Len(error \o rs) = Len(error) + Len(rs)
      /\ \A i \in 1..Len(error) : (error \o rs)[i] = error[i]
      /\ \A i \in 1..Len(rs) : (error \o rs)[Len(error) + i] = rs[i]
      /\ ToSet(error \o rs) = ToSet(error) \cup ToSet(rs)
  BY <1>1, <1>2, Joined
<1>9. /\ IsSeq(part) /\ Len(part) = Len(error) + Len(rs) + Len(hs)
      /\ \A i \in 1..(Len(error) + Len(rs)) : part[i] = (error \o rs)[i]
      /\ ToSet(part) = ToSet(error) \cup ToSet(rs) \cup ToSet(hs)
  BY <1>1, <1>4, <1>8, Joined
<1>10. DOMAIN part = 1..Len(part)
  BY <1>9, IsSeqFacts
<1>11. CASE rule.backends = <<>>
  <2>1. Len(error) = 1
    BY <1>5, <1>11
  <2>2. 1 \in DOMAIN part /\ part[1] = error[1]
    BY <1>7, <1>8, <1>9, <1>10, <2>1
  <2> QED BY <1>5, <1>9, <1>11, <2>2 DEF part
<1>12. CASE rule.backends # <<>> /\ OfType(rule, "RequestRedirect") # <<>>
  <2>1. Len(error) = 0 /\ Len(rs) >= 1
    BY <1>2, <1>3, <1>6, <1>12, NoElements
  <2>2. 1 \in DOMAIN part /\ part[1] = rs[1]
    BY <1>7, <1>8, <1>9, <1>10, <2>1
  <2> QED BY <1>9, <1>12, <2>2 DEF part, rs
<1>13. CASE rule.backends # <<>> /\ OfType(rule, "RequestRedirect") = <<>>
  <2>1. Len(rs) = 0
    BY <1>2, <1>3, <1>13
  <2>2. ToSet(error) = {} /\ ToSet(rs) = {}
    BY <1>2, <1>6, <1>13, <2>1, NoElements, IsSeqFacts
  <2> QED BY <1>9, <1>13, <2>2 DEF part, hs
<1> QED BY <1>11, <1>12, <1>13

LEMMA CollectFiltersElements ==
  ASSUME Snapshot, NEW i \in DOMAIN CollectedRules
  PROVE  /\ i \in Nat \ {0}
         /\ CollectedRules[i] \in ToSet(CollectedRules)
         /\ CollectFilters[i] = ConvertRuleFilters(CollectedRules[i].rule)
<1>1. DOMAIN CollectedRules = 1..Len(CollectedRules) /\ Len(CollectedRules) \in Nat
  BY CollectedRulesElements, IsSeqFacts
<1> QED BY <1>1 DEF CollectFilters, ToSet

\* A filter that answers a request first is all that is applied of its rule.
LEMMA FirstAnswers ==
  ASSUME NEW chain, NEW i \in Nat \ {0}, NEW q, IsSeq(chain[i]), 1 \in DOMAIN chain[i],
         Answers(chain[i][1], q), ~AnsweredBefore(chain, i, 1, q)
  PROVE  Applied(chain, i, q) = {chain[i][1]}
<1>1. DOMAIN chain[i] = 1..Len(chain[i]) /\ Len(chain[i]) \in Nat
  BY IsSeqFacts
<1>2. \A k \in DOMAIN chain[i] : k # 1 => AnsweredBefore(chain, i, k, q)
  BY <1>1 DEF AnsweredBefore
<1>3. AppliesTo(chain[i][1], q)
  BY DEF Answers
<1> QED BY <1>2, <1>3 DEF Applied

\* If none of the filters of a rule answers, all of them that the condition
\* lets through are applied.
LEMMA NothingAnswers ==
  ASSUME NEW chain, NEW i \in Nat \ {0}, NEW q, IsSeq(chain[i]),
         \A f \in ToSet(chain[i]) : f.filter = "headers" /\ AppliesTo(f, q),
         ~AnsweredBefore(chain, i, 1, q)
  PROVE  Applied(chain, i, q) = ToSet(chain[i])
<1>1. \A k \in DOMAIN chain[i] :
        chain[i][k] \in ToSet(chain[i]) /\ AppliesTo(chain[i][k], q) /\ ~Answers(chain[i][k], q)
  BY DEF Answers, ToSet
<1>2. \A k \in DOMAIN chain[i] : ~AnsweredBefore(chain, i, k, q)
  <2> SUFFICES ASSUME NEW k \in DOMAIN chain[i], AnsweredBefore(chain, i, k, q) PROVE FALSE
    OBVIOUS
  <2>1. PICK c \in 1..i : \E n \in DOMAIN chain[c] : (c < i \/ n < k) /\ Answers(chain[c][n], q)
    BY DEF AnsweredBefore
  <2>2. CASE c < i
    BY <2>1, <2>2 DEF AnsweredBefore
  <2>3. CASE c = i
    BY <1>1, <2>1, <2>3
  <2> QED BY <2>2, <2>3
<1> QED BY <1>1, <1>2 DEF Applied, ToSet

\* A request that the first match of a rule covers meets the rule's condition.
LEMMA ConditionMet ==
  ASSUME NEW rule, ProperRule(rule), NEW q \in Requests, Covers(Matches(rule)[1], q)
  PROVE  Condition(rule) = None \/ IsPrefix(Condition(rule), q.path)
<1> DEFINE m == rule.matches[1]
<1> SUFFICES ASSUME rule.matches # <<>>, m.type \in {"Prefix", "Exact"}
             PROVE  IsPrefix(m.path, q.path)
  BY DEF Condition
<1>1. Matches(rule)[1] = m
  BY DEF Matches
<1>2. Covers(m, q)
  BY <1>1
<1> HIDE DEF m
<1>3. CASE m.type = "Prefix"
  BY <1>2, <1>3 DEF Covers, ElementPrefix
<1>4. CASE m.type = "Exact"
  <2>1. m.path = q.path /\ IsSeq(q.path)
    BY <1>2, <1>4, RequestsAssumption DEF Covers
  <2> QED BY <2>1, PrefixOfItself
<1> QED BY <1>3, <1>4

LEMMA SnapshotFilters == Snapshot => FiltersReachTheirTraffic
<1> DEFINE rules == CollectedRules
           chain == CollectFilters
<1> SUFFICES ASSUME Snapshot, NEW i \in DOMAIN rules, NEW q \in Requests,
                    Covers(Matches(rules[i].rule)[1], q), ~AnsweredBefore(chain, i, 1, q)
             PROVE  Serves(Applied(chain, i, q), rules[i].rule)
  BY DEF FiltersReachTheirTraffic
<1> DEFINE rule == rules[i].rule
<1>1. i \in Nat \ {0} /\ rules[i] \in ToSet(rules) /\ chain[i] = ConvertRuleFilters(rule)
  BY CollectFiltersElements
<1>2. ProperRule(rule) /\ ProperFilters(rule)
  BY <1>1, CollectedRulesProper, RoutesAssumption, FiltersAssumption DEF ProperFilters
<1> HIDE DEF rules, chain
<1>3. Condition(rule) = None \/ IsPrefix(Condition(rule), q.path)
  BY <1>2, ConditionMet
<1> HIDE DEF rule
<1>4. IsSeq(chain[i])
  BY <1>1, <1>2, ConvertedFirst
<1>5. CASE rule.backends = <<>>
  <2>1. /\ 1 \in DOMAIN chain[i] /\ chain[i][1].filter = "static_response"
        /\ chain[i][1].status = 500 /\ chain[i][1].when = Condition(rule)
    BY <1>1, <1>2, <1>5, ConvertedFirst
  <2>2. Answers(chain[i][1], q)
    BY <1>3, <2>1 DEF Answers, AppliesTo
  <2>3. Applied(chain, i, q) = {chain[i][1]}
    BY <1>1, <1>4, <2>1, <2>2, FirstAnswers
  <2> QED BY <1>5, <2>1, <2>3 DEF Serves, rule
<1>6. CASE rule.backends # <<>> /\ OfType(rule, "RequestRedirect") # <<>>
  <2>1. 1 \in DOMAIN chain[i] /\ chain[i][1] = Redirects(rule)[1]
    BY <1>1, <1>2, <1>6, ConvertedFirst
  <2>2. 1 \in 1..Len(Redirects(rule))
    BY <1>2, <1>6, RedirectElements, OfTypeElements, IsSeqFacts
  <2>3. /\ chain[i][1].filter = "redirect" /\ chain[i][1].when = Condition(rule)
        /\ chain[i][1].location = RedirectLocation(OfType(rule, "RequestRedirect")[1])
    BY <1>2, <2>1, <2>2, RedirectElements
  <2>4. Answers(chain[i][1], q)
    BY <1>3, <2>3 DEF Answers, AppliesTo
  <2>5. Applied(chain, i, q) = {chain[i][1]}
    BY <1>1, <1>4, <2>1, <2>4, FirstAnswers
  <2> QED BY <1>6, <2>3, <2>5 DEF Serves, rule
<1>7. CASE rule.backends # <<>> /\ OfType(rule, "RequestRedirect") = <<>>
  <2>1. ToSet(chain[i]) = ToSet(HeaderFilter(rule))
    BY <1>1, <1>2, <1>7, ConvertedFirst
  <2>2. \A f \in ToSet(chain[i]) : f.filter = "headers" /\ AppliesTo(f, q)
    BY <1>2, <1>3, <2>1, HeadersDone DEF AppliesTo
  <2>3. Applied(chain, i, q) = ToSet(HeaderFilter(rule))
    BY <1>1, <1>4, <2>1, <2>2, NothingAnswers
  <2>4. Done(ToSet(HeaderFilter(rule))) = Promised(rule)
    BY <1>2, HeadersDone
  <2> QED BY <1>7, <2>1, <2>2, <2>3, <2>4 DEF Serves, rule
<1> QED BY <1>5, <1>6, <1>7

\* In every snapshot, however many modifiers a rule has and whatever other
\* rules there are, a request its first match covers that no earlier rule has
\* answered gets of the rule exactly the error if it has no backends, else
\* exactly its first redirect if it has one, else exactly the header
\* operations the conversion promises.
THEOREM FiltersAlwaysReach == Spec => []FiltersReachTheirTraffic
<1> QED BY SnapshotHolds, SnapshotFilters, PTL

-----------------------------------------------------------------------------
(* The router entries.                                                     *)

LEMMA HostsElements ==
  ASSUME NEW r \in RouteSpecs
  PROVE  /\ IsSeq(Hosts(r))
         /\ r.hosts = <<>> => ToSet(Hosts(r)) = {None}
         /\ r.hosts # <<>> => None \notin ToSet(Hosts(r))
<1>1. CASE r.hosts = <<>>
  BY <1>1, Single DEF Hosts
<1>2. CASE r.hosts # <<>>
  BY <1>2, RoutesAssumption DEF Hosts
<1> QED BY <1>1, <1>2

Entry(p, h, m, c) ==
  [exact |-> p.exact, path |-> p.path, host |-> h, header |-> ExtractHeaders(m),
   cluster |-> MergedClusterName(c.rule), sections |-> c.of.sections]

LEMMA EmitElements ==
  ASSUME NEW m, ProperMatch(m), NEW c, c.of.route \in RouteSpecs
  PROVE  /\ IsSeq(EmitMatchRoutes(m, c.of, MergedClusterName(c.rule)))
         /\ \A e : e \in ToSet(EmitMatchRoutes(m, c.of, MergedClusterName(c.rule))) <=>
              \E p \in ToSet(ExtractPathMatch(m)) : \E h \in ToSet(Hosts(c.of.route)) :
                e = Entry(p, h, m, c)
<1> DEFINE paths == ExtractPathMatch(m)
           hosts == Hosts(c.of.route)
           of(p) == [h \in DOMAIN hosts |->
                      [exact |-> paths[p].exact, path |-> paths[p].path, host |-> hosts[h],
                       header |-> ExtractHeaders(m), cluster |-> MergedClusterName(c.rule),
                       sections |-> c.of.sections]]
           all   == [p \in DOMAIN paths |-> of(p)]
<1>1. /\ Len(paths) \in Nat /\ DOMAIN paths = 1..Len(paths)
      /\ \A p : p \in ToSet(paths) <=> \E i \in 1..Len(paths) : paths[i] = p
  BY PathsOfMatch, IsSeqFacts
<1>2. /\ Len(hosts) \in Nat /\ DOMAIN hosts = 1..Len(hosts)
      /\ \A h : h \in ToSet(hosts) <=> \E i \in 1..Len(hosts) : hosts[i] = h
  BY HostsElements, IsSeqFacts
<1>3. EmitMatchRoutes(m, c.of, MergedClusterName(c.rule)) = FlattenSeq(all)
  BY DEF EmitMatchRoutes
<1> HIDE DEF paths, hosts
<1>4. \A p \in 1..Len(paths) :
        /\ IsSeq(of(p))
        /\ \A e : e \in ToSet(of(p)) <=> \E h \in ToSet(hosts) : e = Entry(paths[p], h, m, c)
  <2> TAKE p \in 1..Len(paths)
  <2>1. of(p) = [h \in 1..Len(hosts) |-> of(p)[h]]
        /\ \A h \in 1..Len(hosts) : of(p)[h] = Entry(paths[p], hosts[h], m, c)
    BY <1>2 DEF Entry
  <2> HIDE DEF of
  <2>2. IsSeq(of(p)) /\ DOMAIN of(p) = 1..Len(hosts)
    BY <1>2, <2>1, Tabulated
  <2>3. \A e : e \in ToSet(of(p)) <=> \E h \in 1..Len(hosts) : e = of(p)[h]
    BY <2>2 DEF ToSet
  <2> QED BY <1>2, <2>1, <2>2, <2>3
<1>5. all = [p \in 1..Len(paths) |-> all[p]] /\ \A p \in 1..Len(paths) : all[p] = of(p)
  BY <1>1
<1> HIDE DEF all, of
<1>6. IsSeq(all) /\ Len(all) = Len(paths)
  BY <1>1, <1>5, Tabulated
<1>7. /\ IsSeq(FlattenSeq(all))
      /\ \A e : e \in ToSet(FlattenSeq(all)) <=> \E p \in 1..Len(all) : e \in ToSet(all[p])
  <2>1. \A p \in 1..Len(all) : IsSeq(all[p])
    BY <1>4, <1>5, <1>6
  <2> QED BY <1>6, <2>1, FlattenElements
<1>8. \A e : e \in ToSet(FlattenSeq(all)) <=>
               \E p \in ToSet(paths) : \E h \in ToSet(hosts) : e = Entry(p, h, m, c)
  <2>1. \A e : e \in ToSet(FlattenSeq(all)) <=> \E p \in 1..Len(paths) : e \in ToSet(of(p))
    BY <1>5, <1>6, <1>7
  <2>2. \A e : e \in ToSet(FlattenSeq(all)) <=>
                 \E p \in 1..Len(paths) : \E h \in ToSet(hosts) : e = Entry(paths[p], h, m, c)
    BY <2>1, <1>4
  <2> QED BY <2>2, <1>1
<1> QED BY <1>3, <1>7, <1>8 DEF paths, hosts

\* The entry that a match of a rule becomes for a path and a host.
Emitted(e, c) ==
  /\ c.rule.backends # <<>>
  /\ \E m \in ToSet(Matches(c.rule)) : \E p \in ToSet(ExtractPathMatch(m)) :
       \E h \in ToSet(Hosts(c.of.route)) : e = Entry(p, h, m, c)

LEMMA ProcessElements ==
  ASSUME NEW c, ProperRule(c.rule), c.of.route \in RouteSpecs
  PROVE  /\ IsSeq(ProcessRule(c.rule, c.of))
         /\ \A e : e \in ToSet(ProcessRule(c.rule, c.of)) <=> Emitted(e, c)
<1>1. CASE c.rule.backends = <<>>
  <2>1. ProcessRule(c.rule, c.of) = <<>> /\ \A e : ~Emitted(e, c)
    BY <1>1 DEF ProcessRule, Emitted
  <2> QED BY <2>1, NoElements
<1>2. CASE c.rule.backends # <<>>
  <2> DEFINE ms  == Matches(c.rule)
             all == [i \in DOMAIN ms |-> EmitMatchRoutes(ms[i], c.of, MergedClusterName(c.rule))]
  <2>1. /\ Len(ms) \in Nat /\ DOMAIN ms = 1..Len(ms)
        /\ \A m : m \in ToSet(ms) <=> \E i \in 1..Len(ms) : ms[i] = m
        /\ \A m \in ToSet(ms) : ProperMatch(m)
    BY MatchesProper, IsSeqFacts
  <2>2. ProcessRule(c.rule, c.of) = FlattenSeq(all)
    BY <1>2 DEF ProcessRule
  <2> HIDE DEF ms
  <2>3. /\ all = [i \in 1..Len(ms) |-> all[i]]
        /\ \A i \in 1..Len(ms) :
             all[i] = EmitMatchRoutes(ms[i], c.of, MergedClusterName(c.rule))
    BY <2>1
  <2> HIDE DEF all
  <2>4. IsSeq(all) /\ Len(all) = Len(ms)
    BY <2>1, <2>3, Tabulated
  <2>5. \A i \in 1..Len(ms) :
          /\ IsSeq(all[i])
          /\ \A e : e \in ToSet(all[i]) <=>
               \E p \in ToSet(ExtractPathMatch(ms[i])) : \E h \in ToSet(Hosts(c.of.route)) :
                 e = Entry(p, h, ms[i], c)
    <3> TAKE i \in 1..Len(ms)
    <3>1. ProperMatch(ms[i]) /\ all[i] = EmitMatchRoutes(ms[i], c.of, MergedClusterName(c.rule))
      BY <2>1, <2>3
    <3> QED BY <3>1, EmitElements
  <2>6. /\ IsSeq(FlattenSeq(all))
        /\ \A e : e \in ToSet(FlattenSeq(all)) <=> \E i \in 1..Len(all) : e \in ToSet(all[i])
    BY <2>4, <2>5, FlattenElements
  <2>7. \A e : Emitted(e, c) <=>
          \E m \in ToSet(ms) : \E p \in ToSet(ExtractPathMatch(m)) :
            \E h \in ToSet(Hosts(c.of.route)) : e = Entry(p, h, m, c)
    BY <1>2 DEF Emitted, ms
  <2>8. \A e : e \in ToSet(FlattenSeq(all)) <=> \E i \in 1..Len(ms) : e \in ToSet(all[i])
    BY <2>4, <2>6
  <2>9. \A e : e \in ToSet(FlattenSeq(all)) <=>
          \E m \in ToSet(ms) : \E p \in ToSet(ExtractPathMatch(m)) :
            \E h \in ToSet(Hosts(c.of.route)) : e = Entry(p, h, m, c)
    <3> DEFINE From(e, m) == \E p \in ToSet(ExtractPathMatch(m)) :
                               \E h \in ToSet(Hosts(c.of.route)) : e = Entry(p, h, m, c)
    <3>1. \A i \in 1..Len(ms) : \A e : e \in ToSet(all[i]) <=> From(e, ms[i])
      BY <2>5
    <3> HIDE DEF From
    <3>2. \A e : e \in ToSet(FlattenSeq(all)) <=> \E m \in ToSet(ms) : From(e, m)
      BY <2>1, <2>8, <3>1
    <3> QED BY <3>2 DEF From
  <2> QED BY <2>2, <2>6, <2>7, <2>9
<1> QED BY <1>1, <1>2

LEMMA PraxisRoutesElements ==
  ASSUME Snapshot
  PROVE  /\ IsSeq(PraxisRoutes)
         /\ \A e : e \in ToSet(PraxisRoutes) <=> \E c \in ToSet(CollectedRules) : Emitted(e, c)
<1> DEFINE rules == CollectedRules
           all   == [i \in DOMAIN rules |-> ProcessRule(rules[i].rule, rules[i].of)]
<1>1. /\ Len(rules) \in Nat /\ DOMAIN rules = 1..Len(rules)
      /\ \A c : c \in ToSet(rules) <=> \E i \in 1..Len(rules) : rules[i] = c
  BY CollectedRulesElements, IsSeqFacts
<1>2. \A c \in ToSet(rules) : ProperRule(c.rule) /\ c.of.route \in RouteSpecs
  BY CollectedRulesProper
<1>3. PraxisRoutes = FlattenSeq(all)
  BY DEF PraxisRoutes
<1> HIDE DEF rules
<1>4. /\ all = [i \in 1..Len(rules) |-> all[i]]
      /\ \A i \in 1..Len(rules) : all[i] = ProcessRule(rules[i].rule, rules[i].of)
  BY <1>1
<1> HIDE DEF all
<1>5. IsSeq(all) /\ Len(all) = Len(rules)
  BY <1>1, <1>4, Tabulated
<1>6. \A i \in 1..Len(rules) :
        IsSeq(all[i]) /\ \A e : e \in ToSet(all[i]) <=> Emitted(e, rules[i])
  BY <1>1, <1>2, <1>4, ProcessElements
<1>7. /\ IsSeq(FlattenSeq(all))
      /\ \A e : e \in ToSet(FlattenSeq(all)) <=> \E i \in 1..Len(all) : e \in ToSet(all[i])
  BY <1>5, <1>6, FlattenElements
<1>8. \A e : e \in ToSet(FlattenSeq(all)) <=> \E c \in ToSet(rules) : Emitted(e, c)
  BY <1>1, <1>5, <1>6, <1>7
<1> QED BY <1>3, <1>7, <1>8 DEF rules

-----------------------------------------------------------------------------
(* The order of the router entries.                                        *)

LEMMA KeyLessMeans ==
  ASSUME NEW k, NEW l, DOMAIN k = 1..4
  PROVE  KeyLess(k, l) <=>
           \/ k[1] < l[1]
           \/ k[1] = l[1] /\ k[2] < l[2]
           \/ k[1] = l[1] /\ k[2] = l[2] /\ k[3] < l[3]
           \/ k[1] = l[1] /\ k[2] = l[2] /\ k[3] = l[3] /\ k[4] < l[4]
<1>1. \A j : /\ j \in 1..(1 - 1) <=> FALSE
             /\ j \in 1..(2 - 1) <=> j = 1
             /\ j \in 1..(3 - 1) <=> j = 1 \/ j = 2
             /\ j \in 1..(4 - 1) <=> j = 1 \/ j = 2 \/ j = 3
  OBVIOUS
<1>2. \A i : i \in DOMAIN k <=> i = 1 \/ i = 2 \/ i = 3 \/ i = 4
  OBVIOUS
<1> QED BY <1>1, <1>2 DEF KeyLess

\* Exact before prefix, longer before shorter, with a host before without,
\* with headers before without.
LEMMA PrecedesMeans ==
  ASSUME NEW e, NEW f, Len(e.path) \in Nat, Len(f.path) \in Nat
  PROVE  Precedes(e, f) <=>
           \/ e.exact /\ ~f.exact
           \/ /\ e.exact <=> f.exact
              /\ \/ Len(e.path) > Len(f.path)
                 \/ /\ Len(e.path) = Len(f.path)
                    /\ \/ e.host # None /\ f.host = None
                       \/ /\ e.host = None <=> f.host = None
                          /\ e.header /\ ~f.header
<1> DEFINE x(g) == IF g.exact THEN 0 ELSE 1
           n(g) == -Len(g.path)
           h(g) == IF g.host = None THEN 1 ELSE 0
           d(g) == IF g.header THEN 0 ELSE 1
<1>1. \A g : LET k == RouteSortKey(g)
            IN  /\ DOMAIN k = 1..4
                /\ k[1] = x(g) /\ k[2] = n(g) /\ k[3] = h(g) /\ k[4] = d(g)
  BY DEF RouteSortKey
<1> HIDE DEF x, n, h, d
<1>2. Precedes(e, f) <=>
        \/ x(e) < x(f)
        \/ x(e) = x(f) /\ n(e) < n(f)
        \/ x(e) = x(f) /\ n(e) = n(f) /\ h(e) < h(f)
        \/ x(e) = x(f) /\ n(e) = n(f) /\ h(e) = h(f) /\ d(e) < d(f)
  BY <1>1, KeyLessMeans DEF Precedes
<1> QED BY <1>2 DEF x, n, h, d

LEMMA PrecedesIsAnOrder ==
  ASSUME NEW e, NEW f, NEW g,
         Len(e.path) \in Nat, Len(f.path) \in Nat, Len(g.path) \in Nat
  PROVE  /\ ~(Precedes(e, f) /\ Precedes(f, e))
         /\ Precedes(e, f) /\ Precedes(f, g) => Precedes(e, g)
BY PrecedesMeans

Sorted(s) == \A i, j \in 1..Len(s) : i < j => ~Precedes(s[j], s[i])

LEMMA InsertElements ==
  ASSUME NEW s, IsSeq(s), NEW e
  PROVE  IsSeq(Insert(s, e)) /\ ToSet(Insert(s, e)) = ToSet(s) \cup {e}
<1> DEFINE later == {f \in ToSet(s) : Precedes(e, f)}
           a     == Only(s, ToSet(s) \ later)
           b     == Only(s, later)
<1>1. /\ IsSeq(a) /\ ToSet(a) = ToSet(s) \ later
      /\ IsSeq(b) /\ ToSet(b) = later
  <2>1. later \subseteq ToSet(s)
    OBVIOUS
  <2> HIDE DEF later
  <2> QED BY <2>1, OnlyElements
<1>2. Insert(s, e) = a \o <<e>> \o b
  BY DEF Insert
<1> HIDE DEF a, b
<1>3. IsSeq(<<e>>) /\ ToSet(<<e>>) = {e}
  BY Single
<1>4. IsSeq(a \o <<e>>) /\ ToSet(a \o <<e>>) = ToSet(a) \cup {e}
  BY <1>1, <1>3, Joined
<1>5. IsSeq(a \o <<e>> \o b) /\ ToSet(a \o <<e>> \o b) = ToSet(a) \cup {e} \cup ToSet(b)
  BY <1>1, <1>4, Joined
<1> QED BY <1>1, <1>2, <1>5

\* An entry behind those it does not precede, before those it does: with an
\* order that is transitive, nothing else is out of place.
LEMMA InsertSorted ==
  ASSUME NEW s, IsSeq(s), Sorted(s), NEW e,
         Len(e.path) \in Nat, \A f \in ToSet(s) : Len(f.path) \in Nat
  PROVE  Sorted(Insert(s, e))
<1> DEFINE later == {f \in ToSet(s) : Precedes(e, f)}
           a     == Only(s, ToSet(s) \ later)
           b     == Only(s, later)
           n     == Len(a)
           t     == a \o <<e>> \o b
<1>1. /\ IsSeq(a) /\ \A f \in ToSet(a) : f \in ToSet(s) /\ ~Precedes(e, f)
      /\ IsSeq(b) /\ \A f \in ToSet(b) : f \in ToSet(s) /\ Precedes(e, f)
  BY OnlyElements
<1>2. /\ \A i, j \in 1..Len(a) : i < j => ~Precedes(a[j], a[i])
      /\ \A i, j \in 1..Len(b) : i < j => ~Precedes(b[j], b[i])
  <2>1. ASSUME NEW T, NEW i \in 1..Len(Only(s, T)), NEW j \in 1..Len(Only(s, T)), i < j
        PROVE  ~Precedes(Only(s, T)[j], Only(s, T)[i])
    <3>1. PICK x, y \in 1..Len(s) : x < y /\ Only(s, T)[i] = s[x] /\ Only(s, T)[j] = s[y]
      BY <2>1, OnlyOrder
    <3> QED BY <3>1 DEF Sorted
  <2> QED BY <2>1
<1>3. Insert(s, e) = t
  BY DEF Insert
<1> HIDE DEF a, b
<1>4. /\ n \in Nat /\ Len(b) \in Nat
      /\ \A i \in 1..n : a[i] \in ToSet(a)
      /\ \A i \in 1..Len(b) : b[i] \in ToSet(b)
  BY <1>1, IsSeqFacts
<1>5. IsSeq(<<e>>) /\ Len(<<e>>) = 1 /\ <<e>>[1] = e
  BY Single
<1>6. /\ IsSeq(a \o <<e>>) /\ Len(a \o <<e>>) = n + 1
      /\ \A i \in 1..n : (a \o <<e>>)[i] = a[i]
      /\ (a \o <<e>>)[n + 1] = e
  BY <1>1, <1>4, <1>5, Joined
<1>7. /\ Len(t) = n + 1 + Len(b)
      /\ \A i \in 1..(n + 1) : t[i] = (a \o <<e>>)[i]
      /\ \A i \in 1..Len(b) : t[n + 1 + i] = b[i]
  BY <1>1, <1>6, Joined
<1> HIDE DEF t, n
<1>8. /\ \A i \in 1..n : t[i] = a[i]
      /\ t[n + 1] = e
      /\ \A i \in 1..Len(t) : i > n + 1 => i - (n + 1) \in 1..Len(b) /\ t[i] = b[i - (n + 1)]
  <2>1. \A i \in 1..n : t[i] = a[i]
    BY <1>4, <1>6, <1>7
  <2>2. t[n + 1] = e
    BY <1>4, <1>6, <1>7
  <2>3. ASSUME NEW i \in 1..Len(t), i > n + 1
        PROVE  i - (n + 1) \in 1..Len(b) /\ t[i] = b[i - (n + 1)]
    <3>1. i - (n + 1) \in 1..Len(b) /\ n + 1 + (i - (n + 1)) = i
      BY <2>3, <1>4, <1>7
    <3> QED BY <3>1, <1>7
  <2> QED BY <2>1, <2>2, <2>3
<1>9. ASSUME NEW i \in 1..Len(t), NEW j \in 1..Len(t), i < j
      PROVE  ~Precedes(t[j], t[i])
  <2>1. CASE j <= n
    <3>1. i \in 1..n /\ j \in 1..n BY <2>1, <1>9, <1>4
    <3> QED BY <3>1, <1>2, <1>8, <1>9 DEF n
  <2>2. CASE j = n + 1
    <3>1. i \in 1..n BY <2>2, <1>9, <1>4
    <3> QED BY <2>2, <3>1, <1>1, <1>4, <1>8
  <2>3. CASE j > n + 1 /\ i <= n
    <3>1. i \in 1..n BY <2>3, <1>4
    <3>2. t[i] \in ToSet(a) /\ t[j] \in ToSet(b) BY <2>3, <3>1, <1>4, <1>8
    <3> QED BY <3>2, <1>1, PrecedesIsAnOrder
  <2>4. CASE j > n + 1 /\ i = n + 1
    <3>1. t[i] = e /\ t[j] \in ToSet(b) BY <2>4, <1>4, <1>8
    <3> QED BY <3>1, <1>1, PrecedesIsAnOrder
  <2>5. CASE j > n + 1 /\ i > n + 1
    <3>1. /\ i - (n + 1) \in 1..Len(b) /\ t[i] = b[i - (n + 1)]
          /\ j - (n + 1) \in 1..Len(b) /\ t[j] = b[j - (n + 1)]
      BY <2>5, <1>8
    <3>2. i - (n + 1) < j - (n + 1) BY <1>9, <1>4
    <3> QED BY <3>1, <3>2, <1>2
  <2> QED BY <2>1, <2>2, <2>3, <2>4, <2>5, <1>4
<1> QED BY <1>3, <1>9 DEF Sorted

\* The function SortBySpecificity is defined by.
Sorting(entries) ==
  LET sorted[n \in 0..Len(entries)] ==
        IF n = 0 THEN <<>> ELSE Insert(sorted[n - 1], entries[n])
  IN  sorted

LEMMA SortingDefined ==
  ASSUME NEW s, Len(s) \in Nat
  PROVE  Sorting(s) = [n \in 0..Len(s) |->
           IF n = 0 THEN <<>> ELSE Insert(Sorting(s)[n - 1], s[n])]
<1> DEFINE Solves(f, m) == f = [n \in 0..m |-> IF n = 0 THEN <<>> ELSE Insert(f[n - 1], s[n])]
           Solved == {m \in Nat : \E f : Solves(f, m)}
<1>1. 0 \in Solved
  <2>1. Solves([n \in 0..0 |-> <<>>], 0)
    OBVIOUS
  <2> QED BY <2>1
<1>2. ASSUME NEW m \in Nat, m \in Solved PROVE m + 1 \in Solved
  <2>1. PICK f : Solves(f, m)
    BY <1>2
  <2> DEFINE g == [n \in 0..(m + 1) |-> IF n # m + 1 THEN f[n] ELSE Insert(f[m], s[n])]
  <2>2. \A n \in 0..m : g[n] = f[n] /\ n \in 0..(m + 1) /\ n # m + 1
    OBVIOUS
  <2>3. \A n \in 0..(m + 1) : n # 0 => n - 1 \in 0..m
    OBVIOUS
  <2>4. \A n \in 0..(m + 1) : g[n] = IF n = 0 THEN <<>> ELSE Insert(g[n - 1], s[n])
    <3> SUFFICES ASSUME NEW n \in 0..(m + 1)
                 PROVE  g[n] = IF n = 0 THEN <<>> ELSE Insert(g[n - 1], s[n])
      OBVIOUS
    <3>1. CASE n = m + 1
      <4>1. n # 0 /\ n - 1 = m /\ m \in 0..m BY <3>1
      <4>2. g[n - 1] = f[m] BY <4>1, <2>2
      <4>3. g[n] = Insert(f[m], s[n]) BY <3>1
      <4> QED BY <4>1, <4>2, <4>3
    <3>2. CASE n # m + 1
      <4>1. n \in 0..m BY <3>2
      <4>2. g[n] = f[n] BY <4>1, <2>2
      <4>3. n # 0 => g[n - 1] = f[n - 1] BY <2>3, <2>2, <4>1
      <4>4. f[n] = IF n = 0 THEN <<>> ELSE Insert(f[n - 1], s[n]) BY <2>1, <4>1
      <4> QED BY <4>2, <4>3, <4>4
    <3> QED BY <3>1, <3>2
  <2>5. Solves(g, m + 1)
    BY <2>4
  <2> HIDE DEF g, Solves
  <2> QED BY <2>5
<1>3. Len(s) \in Solved
  <2> HIDE DEF Solved
  <2> QED BY <1>1, <1>2, Induction
<1>4. \E f : Solves(f, Len(s))
  BY <1>3
<1>5. Sorting(s) = CHOOSE f : Solves(f, Len(s))
  BY DEF Sorting
<1> QED BY <1>4, <1>5

\* Sorting loses nothing, adds nothing and leaves nothing out of order.
LEMMA SortedElements ==
  ASSUME NEW s, IsSeq(s), \A e \in ToSet(s) : Len(e.path) \in Nat
  PROVE  LET t == SortBySpecificity(s)
         IN  IsSeq(t) /\ ToSet(t) = ToSet(s) /\ Sorted(t)
<1> DEFINE S == Sorting(s)
           Good == {m \in Nat : m <= Len(s) =>
                      /\ IsSeq(S[m]) /\ Sorted(S[m])
                      /\ \A x : x \in ToSet(S[m]) <=> \E i \in 1..m : s[i] = x}
<1>0. /\ Len(s) \in Nat
      /\ \A x : x \in ToSet(s) <=> \E i \in 1..Len(s) : s[i] = x
  BY IsSeqFacts
<1>1. S[0] = <<>> /\ \A m \in 1..Len(s) : S[m] = Insert(S[m - 1], s[m])
  <2>1. S = [n \in 0..Len(s) |-> IF n = 0 THEN <<>> ELSE Insert(S[n - 1], s[n])]
    BY <1>0, SortingDefined
  <2> HIDE DEF S
  <2>2. \A m \in 1..Len(s) : m \in 0..Len(s) /\ m # 0
    OBVIOUS
  <2> QED BY <2>1, <2>2, <1>0
<1>2. SortBySpecificity(s) = S[Len(s)]
  BY DEF SortBySpecificity, Sorting
<1> HIDE DEF S
<1>3. 0 \in Good
  <2>1. IsSeq(S[0]) /\ ToSet(S[0]) = {} /\ Len(S[0]) = 0
    BY <1>1, NoElements
  <2> QED BY <2>1 DEF Sorted
<1>4. ASSUME NEW m \in Nat, m \in Good PROVE m + 1 \in Good
  <2> SUFFICES ASSUME m + 1 <= Len(s)
               PROVE  /\ IsSeq(S[m + 1]) /\ Sorted(S[m + 1])
                      /\ \A x : x \in ToSet(S[m + 1]) <=> \E i \in 1..(m + 1) : s[i] = x
    OBVIOUS
  <2>1. /\ IsSeq(S[m]) /\ Sorted(S[m])
        /\ \A x : x \in ToSet(S[m]) <=> \E i \in 1..m : s[i] = x
    BY <1>4, <1>0
  <2>2. m + 1 \in 1..Len(s) /\ (m + 1) - 1 = m /\ \A i \in 1..m : i \in 1..Len(s)
    BY <1>0
  <2>3. S[m + 1] = Insert(S[m], s[m + 1])
    BY <1>1, <2>2
  <2>4. Len(s[m + 1].path) \in Nat /\ \A f \in ToSet(S[m]) : Len(f.path) \in Nat
    BY <1>0, <2>1, <2>2
  <2>5. IsSeq(S[m + 1]) /\ ToSet(S[m + 1]) = ToSet(S[m]) \cup {s[m + 1]}
    BY <2>1, <2>3, InsertElements
  <2>6. Sorted(S[m + 1])
    BY <2>1, <2>3, <2>4, InsertSorted
  <2>7. \A i : i \in 1..(m + 1) <=> i \in 1..m \/ i = m + 1
    OBVIOUS
  <2> QED BY <2>1, <2>5, <2>6, <2>7
<1>5. Len(s) \in Good
  <2> HIDE DEF Good
  <2> QED BY <1>0, <1>3, <1>4, Induction
<1>6. /\ IsSeq(S[Len(s)]) /\ Sorted(S[Len(s)])
      /\ \A x : x \in ToSet(S[Len(s)]) <=> \E i \in 1..Len(s) : s[i] = x
  BY <1>0, <1>5
<1>7. ToSet(S[Len(s)]) = ToSet(s)
  BY <1>0, <1>6
<1> QED BY <1>2, <1>6, <1>7

-----------------------------------------------------------------------------
(* The chain of a port.                                                    *)

LEMMA PathsProper ==
  ASSUME NEW m, ProperMatch(m), NEW p \in ToSet(ExtractPathMatch(m))
  PROVE  IsSeq(p.path) /\ Len(p.path) \in Nat /\ p.exact \in BOOLEAN
<1>1. IsSeq(Root)
  BY Single DEF Root
<1>2. m.type \in {"Prefix", "Exact"} => IsSeq(m.path) /\ IsSeq(Append(m.path, "/"))
  BY Appended DEF ProperMatch
<1>3. \A v : /\ Prefixing(v).path = v /\ Prefixing(v).exact = FALSE
             /\ Exactly(v).path = v /\ Exactly(v).exact = TRUE
  BY DEF Prefixing, Exactly
<1>4. \E v : IsSeq(v) /\ p \in {Prefixing(v), Exactly(v)}
  BY <1>1, <1>2, PathsOfMatch DEF ProperMatch
<1>5. IsSeq(p.path) /\ p.exact \in BOOLEAN
  BY <1>3, <1>4
<1> QED BY <1>5, IsSeqFacts

\* What the injected hostname leaves of an entry, and what it changes.
LEMMA Injected ==
  ASSUME NEW p, NEW h, NEW m, NEW c
  PROVE  LET e == Entry(p, h, m, c)
             f == InjectListenerHostname(e)
         IN  /\ f.exact = p.exact /\ f.path = p.path /\ f.header = ExtractHeaders(m)
             /\ f.cluster = MergedClusterName(c.rule)
             /\ f.host = IF h = None THEN ResolveRouteHostname(e) ELSE h
BY DEF InjectListenerHostname, Entry

LEMMA ChainElements ==
  ASSUME Snapshot, NEW port \in DOMAIN PraxisListeners
  PROVE  /\ IsSeq(FilterChain(port)) /\ Sorted(FilterChain(port))
         /\ \A f : f \in ToSet(FilterChain(port)) <=>
              \E c \in ToSet(CollectedRules) :
                /\ c.rule.backends # <<>> /\ Targets(c.of.sections, PraxisListeners[port])
                /\ \E m \in ToSet(Matches(c.rule)) : \E p \in ToSet(ExtractPathMatch(m)) :
                     \E h \in ToSet(Hosts(c.of.route)) :
                       f = InjectListenerHostname(Entry(p, h, m, c))
<1> DEFINE name   == [name |-> PraxisListeners[port].name]
           all    == PraxisRoutes
           mine   == Only(all, {e \in ToSet(all) : Targets(e.sections, name)})
           scoped == [i \in DOMAIN mine |-> InjectListenerHostname(mine[i])]
<1>1. /\ IsSeq(all)
      /\ \A e : e \in ToSet(all) <=> \E c \in ToSet(CollectedRules) : Emitted(e, c)
  BY PraxisRoutesElements
<1>2. FilterChain(port) = SortBySpecificity(scoped)
  BY DEF FilterChain, OfListener
<1>3. \A ss : Targets(ss, name) <=> Targets(ss, PraxisListeners[port])
  BY DEF Targets
<1> HIDE DEF all, name
<1>4. /\ IsSeq(mine)
      /\ \A e : e \in ToSet(mine) <=> e \in ToSet(all) /\ Targets(e.sections, PraxisListeners[port])
  BY <1>1, <1>3, OnlyElements
<1>5. /\ Len(mine) \in Nat /\ DOMAIN mine = 1..Len(mine)
      /\ \A e : e \in ToSet(mine) <=> \E i \in 1..Len(mine) : mine[i] = e
  BY <1>4, IsSeqFacts
<1> HIDE DEF mine
<1>6. /\ IsSeq(scoped) /\ DOMAIN scoped = 1..Len(mine)
      /\ \A i \in 1..Len(mine) : scoped[i] = InjectListenerHostname(mine[i])
  <2>1. /\ scoped = [i \in 1..Len(mine) |-> scoped[i]]
        /\ \A i \in 1..Len(mine) : scoped[i] = InjectListenerHostname(mine[i])
    BY <1>5
  <2> HIDE DEF scoped
  <2>2. IsSeq(scoped) /\ DOMAIN scoped = 1..Len(mine)
    BY <1>5, <2>1, Tabulated
  <2> QED BY <2>1, <2>2
<1> HIDE DEF scoped
<1>7. \A f : f \in ToSet(scoped) <=> \E e \in ToSet(mine) : f = InjectListenerHostname(e)
  BY <1>5, <1>6 DEF ToSet
<1>8. \A f : f \in ToSet(scoped) <=>
        \E c \in ToSet(CollectedRules) :
          /\ c.rule.backends # <<>> /\ Targets(c.of.sections, PraxisListeners[port])
          /\ \E m \in ToSet(Matches(c.rule)) : \E p \in ToSet(ExtractPathMatch(m)) :
               \E h \in ToSet(Hosts(c.of.route)) :
                 f = InjectListenerHostname(Entry(p, h, m, c))
  <2>1. \A p, h, m, c : Entry(p, h, m, c).sections = c.of.sections
    BY DEF Entry
  <2>2. ASSUME NEW f \in ToSet(scoped)
        PROVE  \E c \in ToSet(CollectedRules) :
          /\ c.rule.backends # <<>> /\ Targets(c.of.sections, PraxisListeners[port])
          /\ \E m \in ToSet(Matches(c.rule)) : \E p \in ToSet(ExtractPathMatch(m)) :
               \E h \in ToSet(Hosts(c.of.route)) :
                 f = InjectListenerHostname(Entry(p, h, m, c))
    <3>1. PICK e \in ToSet(mine) : f = InjectListenerHostname(e)
      BY <1>7
    <3>2. e \in ToSet(all) /\ Targets(e.sections, PraxisListeners[port])
      BY <1>4
    <3>3. PICK c \in ToSet(CollectedRules) : Emitted(e, c)
      BY <3>2, <1>1
    <3>4. /\ c.rule.backends # <<>>
          /\ \E m \in ToSet(Matches(c.rule)) : \E p \in ToSet(ExtractPathMatch(m)) :
               \E h \in ToSet(Hosts(c.of.route)) : e = Entry(p, h, m, c)
      BY <3>3 DEF Emitted
    <3>5. e.sections = c.of.sections
      BY <3>4, <2>1
    <3> QED BY <3>1, <3>2, <3>4, <3>5
  <2>3. ASSUME NEW c \in ToSet(CollectedRules), c.rule.backends # <<>>,
               Targets(c.of.sections, PraxisListeners[port]),
               NEW m \in ToSet(Matches(c.rule)), NEW p \in ToSet(ExtractPathMatch(m)),
               NEW h \in ToSet(Hosts(c.of.route))
        PROVE  InjectListenerHostname(Entry(p, h, m, c)) \in ToSet(scoped)
    <3>1. Emitted(Entry(p, h, m, c), c)
      BY <2>3 DEF Emitted
    <3>2. Entry(p, h, m, c) \in ToSet(mine)
      BY <3>1, <2>1, <2>3, <1>1, <1>4
    <3> QED BY <3>2, <1>7
  <2> QED BY <2>2, <2>3
<1>9. \A f \in ToSet(scoped) : Len(f.path) \in Nat
  <2> TAKE f \in ToSet(scoped)
  <2>1. PICK c \in ToSet(CollectedRules) :
          \E m \in ToSet(Matches(c.rule)) : \E p \in ToSet(ExtractPathMatch(m)) :
            \E h \in ToSet(Hosts(c.of.route)) : f = InjectListenerHostname(Entry(p, h, m, c))
    BY <1>8
  <2>2. PICK m \in ToSet(Matches(c.rule)) : \E p \in ToSet(ExtractPathMatch(m)) :
          \E h \in ToSet(Hosts(c.of.route)) : f = InjectListenerHostname(Entry(p, h, m, c))
    BY <2>1
  <2>3. PICK p \in ToSet(ExtractPathMatch(m)) : f.path = p.path
    BY <2>2, Injected
  <2>4. ProperMatch(m)
    BY CollectedRulesProper, MatchesProper
  <2> QED BY <2>3, <2>4, PathsProper
<1>10. IsSeq(SortBySpecificity(scoped)) /\ ToSet(SortBySpecificity(scoped)) = ToSet(scoped)
       /\ Sorted(SortBySpecificity(scoped))
  BY <1>6, <1>9, SortedElements
<1> QED BY <1>2, <1>8, <1>10

-----------------------------------------------------------------------------
(* Matches and their paths.                                                *)

FitsPath(p, q) == IF p.exact THEN p.path = q.path ELSE IsPrefix(p.path, q.path)

LEMMA RootFacts == IsSeq(Root) /\ Len(Root) = 1 /\ Root[1] = "/" /\ EndsWithSlash(Root)
<1>1. Len(Root) = 1 /\ Root[1] = "/"
  BY DEF Root
<1> QED BY <1>1, Single DEF Root, EndsWithSlash, Last

LEMMA ProperPath ==
  ASSUME NEW m, ProperMatch(m), m.type \in {"Prefix", "Exact"}
  PROVE  /\ IsSeq(m.path) /\ Len(m.path) \in Nat /\ Len(m.path) >= 1 /\ m.path[1] = "/"
         /\ Len(m.path) = 1 => m.path = Root
<1>1. IsSeq(m.path) /\ m.path # <<>> /\ m.path[1] = "/"
  BY DEF ProperMatch
<1>2. Len(m.path) \in Nat /\ Len(m.path) >= 1
  BY <1>1, IsSeqFacts
<1>3. ASSUME Len(m.path) = 1 PROVE m.path = Root
  <2>1. IsPrefix(Root, m.path)
    BY <1>1, <1>3, RootFacts, PrefixElements
  <2> QED BY <2>1, <1>1, <1>3, RootFacts, FullPrefix
<1> QED BY <1>1, <1>2, <1>3

LEMMA RequestPath ==
  ASSUME NEW q \in Requests
  PROVE  /\ IsSeq(q.path) /\ Len(q.path) \in Nat /\ Len(q.path) >= 1
         /\ IsPrefix(Root, q.path)
<1>1. IsSeq(q.path) /\ q.path # <<>> /\ q.path[1] = "/"
  BY RequestsAssumption
<1>2. Len(q.path) \in Nat /\ Len(q.path) >= 1
  BY <1>1, IsSeqFacts
<1>3. IsPrefix(Root, q.path)
  <2>1. \A i \in 1..Len(Root) : Root[i] = q.path[i]
    BY <1>1, RootFacts
  <2> QED BY <2>1, <1>1, <1>2, RootFacts, PrefixElements
<1> QED BY <1>1, <1>2, <1>3

\* With a slash appended, a path is a prefix of what lies below it.
LEMMA PrefixBelow ==
  ASSUME NEW v, NEW w, IsSeq(v), IsSeq(w)
  PROVE  IsPrefix(Append(v, "/"), w)
           <=> IsPrefix(v, w) /\ Len(v) < Len(w) /\ w[Len(v) + 1] = "/"
<1> DEFINE a == Append(v, "/")
<1>1. /\ IsSeq(a) /\ Len(a) = Len(v) + 1 /\ a[Len(v) + 1] = "/"
      /\ \A i \in 1..Len(v) : a[i] = v[i]
  BY Appended
<1>2. Len(v) \in Nat /\ Len(w) \in Nat
  BY IsSeqFacts
<1> HIDE DEF a
<1>3. IsPrefix(a, w) <=> Len(a) <= Len(w) /\ \A i \in 1..Len(a) : a[i] = w[i]
  BY <1>1, PrefixElements
<1>4. IsPrefix(v, w) <=> Len(v) <= Len(w) /\ \A i \in 1..Len(v) : v[i] = w[i]
  BY PrefixElements
<1>5. \A i : i \in 1..(Len(v) + 1) <=> i \in 1..Len(v) \/ i = Len(v) + 1
  BY <1>2
<1>6. (\A i \in 1..Len(a) : a[i] = w[i])
        <=> (\A i \in 1..Len(v) : v[i] = w[i]) /\ w[Len(v) + 1] = "/"
  BY <1>1, <1>5
<1> QED BY <1>1, <1>2, <1>3, <1>4, <1>6 DEF a

LEMMA PathFields ==
  ASSUME NEW v
  PROVE  /\ Prefixing(v).path = v /\ Prefixing(v).exact = FALSE
         /\ Exactly(v).path = v /\ Exactly(v).exact = TRUE
BY DEF Prefixing, Exactly

\* A request that fits a path of a match is one the match covers.
LEMMA FittingIsCovered ==
  ASSUME NEW m, ProperMatch(m), NEW q \in Requests,
         NEW p \in ToSet(ExtractPathMatch(m)), FitsPath(p, q), ExtractHeaders(m) => q.header
  PROVE  Covers(m, q)
<1>0. m.header = "exact" => q.header
  BY DEF ExtractHeaders
<1>1. CASE m.type \in {None, "Regex"}
  BY <1>0, <1>1, NoneAssumption DEF Covers
<1>2. CASE m.type = "Exact"
  <2>1. p = Exactly(m.path)
    BY <1>2, PathsOfMatch
  <2> QED BY <1>0, <1>2, <2>1, PathFields DEF Covers, FitsPath
<1>3. CASE m.type = "Prefix"
  <2>0. IsSeq(m.path) /\ IsSeq(q.path)
    BY <1>3, ProperPath, RequestPath
  <2>1. CASE EndsWithSlash(m.path)
    <3>1. p = Prefixing(m.path)
      BY <1>3, <2>1, PathsOfMatch
    <3>2. IsPrefix(m.path, q.path)
      BY <3>1, PathFields DEF FitsPath
    <3> QED BY <1>0, <1>3, <2>1, <3>2 DEF Covers, ElementPrefix
  <2>2. CASE ~EndsWithSlash(m.path)
    <3>1. p \in {Exactly(m.path), Prefixing(Append(m.path, "/"))}
      BY <1>3, <2>2, PathsOfMatch
    <3>2. CASE p = Exactly(m.path)
      <4>1. m.path = q.path
        BY <3>2, PathFields DEF FitsPath
      <4>2. IsPrefix(m.path, q.path)
        BY <4>1, <2>0, PrefixOfItself
      <4> QED BY <1>0, <1>3, <4>1, <4>2 DEF Covers, ElementPrefix
    <3>3. CASE p = Prefixing(Append(m.path, "/"))
      <4>1. IsPrefix(Append(m.path, "/"), q.path)
        BY <3>3, PathFields DEF FitsPath
      <4>2. IsPrefix(m.path, q.path) /\ q.path[Len(m.path) + 1] = "/"
        BY <4>1, <2>0, PrefixBelow
      <4> QED BY <1>0, <1>3, <4>2 DEF Covers, ElementPrefix
    <3> QED BY <3>1, <3>2, <3>3
  <2> QED BY <2>1, <2>2
<1> QED BY <1>1, <1>2, <1>3 DEF ProperMatch

\* A covered request fits a path of the match, the exact one if it can.
LEMMA CoveredFits ==
  ASSUME NEW m, ProperMatch(m), NEW q \in Requests, Covers(m, q)
  PROVE  \E p \in ToSet(ExtractPathMatch(m)) :
           /\ FitsPath(p, q)
           /\ \A o \in ToSet(ExtractPathMatch(m)) : FitsPath(o, q) /\ o.exact => p.exact
<1>1. CASE m.type \in {None, "Regex"}
  <2>1. ToSet(ExtractPathMatch(m)) = {Prefixing(Root)}
    BY <1>1, PathsOfMatch
  <2> QED BY <2>1, PathFields, RequestPath DEF FitsPath
<1>2. CASE m.type = "Exact"
  <2>1. ToSet(ExtractPathMatch(m)) = {Exactly(m.path)} /\ m.path = q.path
    BY <1>2, PathsOfMatch DEF Covers
  <2> QED BY <2>1, PathFields DEF FitsPath
<1>3. CASE m.type = "Prefix"
  <2>0. IsSeq(m.path) /\ Len(m.path) \in Nat /\ IsSeq(q.path) /\ Len(q.path) \in Nat
    BY <1>3, ProperPath, RequestPath
  <2>1. ElementPrefix(m.path, q.path)
    BY <1>3 DEF Covers
  <2>2. CASE EndsWithSlash(m.path)
    <3>1. ToSet(ExtractPathMatch(m)) = {Prefixing(m.path)}
      BY <1>3, <2>2, PathsOfMatch
    <3> QED BY <2>1, <3>1, PathFields DEF FitsPath, ElementPrefix
  <2>3. CASE ~EndsWithSlash(m.path) /\ m.path = q.path
    <3>1. Exactly(m.path) \in ToSet(ExtractPathMatch(m))
      BY <1>3, <2>3, PathsOfMatch
    <3> QED BY <2>3, <3>1, PathFields DEF FitsPath
  <2>4. CASE ~EndsWithSlash(m.path) /\ m.path # q.path
    <3>1. ToSet(ExtractPathMatch(m)) = {Exactly(m.path), Prefixing(Append(m.path, "/"))}
      BY <1>3, <2>4, PathsOfMatch
    <3>2. IsPrefix(m.path, q.path) /\ q.path[Len(m.path) + 1] = "/"
      BY <2>1, <2>4 DEF ElementPrefix
    <3>3. Len(m.path) <= Len(q.path)
      BY <3>2 DEF IsPrefix
    <3>4. Len(m.path) # Len(q.path)
      BY <2>0, <2>4, <3>2, FullPrefix
    <3>5. IsPrefix(Append(m.path, "/"), q.path)
      BY <2>0, <3>2, <3>3, <3>4, PrefixBelow
    <3> QED BY <2>4, <3>1, <3>5, PathFields DEF FitsPath
  <2> QED BY <2>2, <2>3, <2>4
<1> QED BY <1>1, <1>2, <1>3 DEF ProperMatch

-----------------------------------------------------------------------------
(* Requests.                                                               *)

\* A chain routes nothing, or by the first of its entries that fits.
LEMMA FirstFit ==
  ASSUME NEW chain, IsSeq(chain), NEW q
  PROVE  \/ /\ RoutedTo(chain, q) = None
            /\ \A f \in ToSet(chain) : ~Fits(f, q)
         \/ \E i \in 1..Len(chain) :
              /\ Fits(chain[i], q) /\ RoutedTo(chain, q) = chain[i].cluster
              /\ \A j \in 1..Len(chain) : Fits(chain[j], q) => i <= j
<1> DEFINE fitting == {i \in DOMAIN chain : Fits(chain[i], q)}
<1>1. /\ Len(chain) \in Nat /\ DOMAIN chain = 1..Len(chain)
      /\ \A f : f \in ToSet(chain) <=> \E i \in 1..Len(chain) : chain[i] = f
  BY IsSeqFacts
<1>2. RoutedTo(chain, q) = IF fitting = {} THEN None ELSE chain[Min(fitting)].cluster
  BY DEF RoutedTo
<1>3. \A i : i \in fitting <=> i \in 1..Len(chain) /\ Fits(chain[i], q)
  BY <1>1
<1>4. fitting \in SUBSET Nat
  BY <1>1
<1> HIDE DEF fitting
<1>5. CASE fitting = {}
  BY <1>1, <1>2, <1>3, <1>5
<1>6. CASE fitting # {}
  <2>1. Min(fitting) \in fitting /\ \A x \in fitting : Min(fitting) <= x
    BY <1>4, <1>6, Least
  <2> QED BY <1>2, <1>3, <1>6, <2>1
<1> QED BY <1>5, <1>6

Claim(c, m) == [of |-> c.of, rule |-> c.rule, match |-> m]

LEMMA ClaimsElements ==
  ASSUME NEW q
  PROVE  \A d : d \in Claims(q) <=>
           \E c \in ToSet(CollectedRules) :
             /\ c.rule.backends # <<>>
             /\ \E m \in ToSet(Matches(c.rule)) : Covers(m, q) /\ d = Claim(c, m)
BY DEF Claims, Claim

\* An entry that a request fits by its path, and the claim it comes from.
EntryOf(f, d, q) ==
  /\ ProperMatch(d.match) /\ ProperRule(d.rule) /\ d.of.route \in RouteSpecs
  /\ \E p \in ToSet(ExtractPathMatch(d.match)) : \E h \in ToSet(Hosts(d.of.route)) :
       FitsPath(p, q) /\ f = InjectListenerHostname(Entry(p, h, d.match, d))

\* An entry of a chain that fits a request comes from a claim the port may serve.
LEMMA FittingIsClaimed ==
  ASSUME Snapshot, NEW port \in DOMAIN PraxisListeners, NEW q \in Requests,
         NEW f \in ToSet(FilterChain(port)), Fits(f, q)
  PROVE  \E d \in MayServe(port, q) : EntryOf(f, d, q)
<1>1. PICK c \in ToSet(CollectedRules) :
        /\ c.rule.backends # <<>> /\ Targets(c.of.sections, PraxisListeners[port])
        /\ \E m \in ToSet(Matches(c.rule)) : \E p \in ToSet(ExtractPathMatch(m)) :
             \E h \in ToSet(Hosts(c.of.route)) :
               f = InjectListenerHostname(Entry(p, h, m, c))
  BY ChainElements
<1>2. PICK m \in ToSet(Matches(c.rule)) : \E p \in ToSet(ExtractPathMatch(m)) :
        \E h \in ToSet(Hosts(c.of.route)) : f = InjectListenerHostname(Entry(p, h, m, c))
  BY <1>1
<1>3. PICK p \in ToSet(ExtractPathMatch(m)) :
        \E h \in ToSet(Hosts(c.of.route)) : f = InjectListenerHostname(Entry(p, h, m, c))
  BY <1>2
<1>4. PICK h \in ToSet(Hosts(c.of.route)) : f = InjectListenerHostname(Entry(p, h, m, c))
  BY <1>3
<1>5. ProperRule(c.rule) /\ c.of.route \in RouteSpecs
  BY CollectedRulesProper
<1>6. ProperMatch(m)
  BY <1>5, MatchesProper
<1>7. /\ f.exact = p.exact /\ f.path = p.path /\ f.header = ExtractHeaders(m)
      /\ h # None => f.host = h
  BY <1>4, Injected
<1>8. /\ FitsPath(p, q) /\ (ExtractHeaders(m) => q.header)
      /\ h = None \/ HostnameMatches(q.host, h)
  BY <1>7 DEF Fits, FitsPath
<1>9. Covers(m, q)
  BY <1>6, <1>8, FittingIsCovered
<1> DEFINE d == Claim(c, m)
<1>10. d.of = c.of /\ d.rule = c.rule /\ d.match = m
  BY DEF Claim
<1>11. d \in Claims(q)
  BY <1>1, <1>9, ClaimsElements
<1>12. \E l \in ToSet(Group(port)) : Targets(c.of.sections, l)
  <2>1. /\ Group(port) # <<>> /\ IsSeq(Group(port))
        /\ PraxisListeners[port].name = Group(port)[1].name
    BY PortNamed, GroupElements
  <2>2. Group(port)[1] \in ToSet(Group(port))
    BY <2>1, IsSeqFacts
  <2>3. Targets(c.of.sections, Group(port)[1])
    BY <1>1, <2>1 DEF Targets
  <2> QED BY <2>2, <2>3
<1>13. Admits(h, q.host)
  BY <1>8 DEF Admits
<1>14. Entry(p, h, d.match, d) = Entry(p, h, m, c)
  BY <1>10 DEF Entry
<1> HIDE DEF d
<1>15. d \in MayServe(port, q)
  BY <1>4, <1>10, <1>11, <1>12, <1>13 DEF MayServe
<1>16. EntryOf(f, d, q)
  BY <1>3, <1>4, <1>5, <1>6, <1>8, <1>10, <1>14 DEF EntryOf
<1> QED BY <1>15, <1>16

\* A claim that a port must serve has an entry that fits, by the exact path
\* of its match if that is one that does.
LEMMA ClaimFits ==
  ASSUME Snapshot, NEW port \in DOMAIN PraxisListeners, NEW q \in Requests,
         NEW c \in MustServe(port, q)
  PROVE  /\ ProperMatch(c.match) /\ ProperRule(c.rule) /\ c.of.route \in RouteSpecs
         /\ Covers(c.match, q)
         /\ \E p \in ToSet(ExtractPathMatch(c.match)) :
              \E h \in ToSet(Hosts(c.of.route)) :
                /\ FitsPath(p, q)
                /\ \A o \in ToSet(ExtractPathMatch(c.match)) : FitsPath(o, q) /\ o.exact => p.exact
                /\ InjectListenerHostname(Entry(p, h, c.match, c)) \in ToSet(FilterChain(port))
                /\ Fits(InjectListenerHostname(Entry(p, h, c.match, c)), q)
<1>1. /\ c \in Claims(q) /\ Targets(c.of.sections, PraxisListeners[port])
      /\ \E h \in ToSet(Hosts(c.of.route)) : Admits(h, q.host)
      /\ \/ c.of.route.hosts # <<>>
         \/ \A s \in ToSet(c.of.sections) \ {None} : Admits(HostnameOf(s), q.host)
  BY DEF MustServe, MayServe
<1>2. PICK r \in ToSet(CollectedRules) :
        /\ r.rule.backends # <<>>
        /\ \E m \in ToSet(Matches(r.rule)) : Covers(m, q) /\ c = Claim(r, m)
  BY <1>1, ClaimsElements
<1>3. PICK m \in ToSet(Matches(r.rule)) : Covers(m, q) /\ c = Claim(r, m)
  BY <1>2
<1>4. c.of = r.of /\ c.rule = r.rule /\ c.match = m
  BY <1>3 DEF Claim
<1>5. ProperRule(r.rule) /\ r.of.route \in RouteSpecs /\ r.of.sections = SectionNames(r.of.route)
  BY CollectedRulesProper
<1>6. ProperMatch(m)
  BY <1>5, MatchesProper
<1>7. PICK p \in ToSet(ExtractPathMatch(m)) :
        /\ FitsPath(p, q)
        /\ \A o \in ToSet(ExtractPathMatch(m)) : FitsPath(o, q) /\ o.exact => p.exact
  BY <1>3, <1>6, CoveredFits
<1>8. PICK h \in ToSet(Hosts(r.of.route)) : Admits(h, q.host)
  BY <1>1, <1>4
<1> DEFINE e == Entry(p, h, m, r)
           f == InjectListenerHostname(e)
<1>9. Entry(p, h, c.match, c) = e
  BY <1>4 DEF Entry
<1>10. /\ f.exact = p.exact /\ f.path = p.path /\ f.header = ExtractHeaders(m)
       /\ f.host = IF h = None THEN ResolveRouteHostname(e) ELSE h
  BY Injected
<1>11. f \in ToSet(FilterChain(port))
  BY <1>1, <1>2, <1>4, ChainElements
<1>12. f.host = None \/ HostnameMatches(q.host, f.host)
  <2>1. CASE h # None
    BY <1>8, <1>10, <2>1 DEF Admits
  <2>2. CASE h = None
    <3>1. r.of.route.hosts = <<>>
      BY <1>5, <2>2, HostsElements
    <3>2. \A s \in ToSet(r.of.sections) \ {None} : Admits(HostnameOf(s), q.host)
      BY <1>1, <1>4, <3>1
    <3> DEFINE T    == {s \in ToSet(e.sections) : s # None /\ HostnameOf(s) # None}
               held == Only(e.sections, T)
    <3>3. e.sections = r.of.sections
      BY DEF Entry
    <3>4. IsSeq(e.sections)
      BY <1>5, <3>3, SectionNamesSeq
    <3>5. IsSeq(held) /\ ToSet(held) = ToSet(e.sections) \cap T
      <4> HIDE DEF T
      <4> QED BY <3>4, OnlyElements
    <3>6. ResolveRouteHostname(e) = IF held = <<>> THEN None ELSE HostnameOf(held[1])
      BY DEF ResolveRouteHostname
    <3> HIDE DEF held, e, f
    <3>7. CASE held = <<>>
      BY <1>10, <2>2, <3>6, <3>7
    <3>8. CASE held # <<>>
      <4>1. held[1] \in ToSet(held)
        BY <3>5, <3>8, IsSeqFacts
      <4>2. held[1] \in ToSet(r.of.sections) \ {None}
        BY <4>1, <3>3, <3>5
      <4>3. Admits(HostnameOf(held[1]), q.host)
        BY <3>2, <4>2
      <4> QED BY <1>10, <2>2, <3>6, <3>8, <4>3 DEF Admits
    <3> QED BY <3>7, <3>8
  <2> QED BY <2>1, <2>2
<1>13. ExtractHeaders(m) => q.header
  BY <1>3 DEF Covers, ExtractHeaders
<1> HIDE DEF e
<1>14. Fits(f, q)
  <2> HIDE DEF f
  <2> QED BY <1>7, <1>10, <1>12, <1>13 DEF Fits, FitsPath
<1> QED BY <1>3, <1>4, <1>5, <1>6, <1>7, <1>8, <1>9, <1>11, <1>14

LEMMA SnapshotRouted == Snapshot => RoutedOnlyToAttached
<1> SUFFICES ASSUME Snapshot, NEW port \in DOMAIN PraxisListeners, NEW q \in Requests
             PROVE  RoutedTo(FilterChain(port), q)
                      \in {None} \cup {MergedClusterName(c.rule) : c \in MayServe(port, q)}
  BY DEF RoutedOnlyToAttached
<1> DEFINE chain == FilterChain(port)
<1>1. IsSeq(chain)
  BY ChainElements
<1>2. \A i \in 1..Len(chain) : chain[i] \in ToSet(chain)
  BY <1>1, IsSeqFacts
<1>3. CASE RoutedTo(chain, q) = None
  BY <1>3
<1>4. ASSUME NEW i \in 1..Len(chain), Fits(chain[i], q), RoutedTo(chain, q) = chain[i].cluster
      PROVE  \E c \in MayServe(port, q) : RoutedTo(chain, q) = MergedClusterName(c.rule)
  <2>1. PICK d \in MayServe(port, q) : EntryOf(chain[i], d, q)
    BY <1>2, <1>4, FittingIsClaimed
  <2>2. chain[i].cluster = MergedClusterName(d.rule)
    BY <2>1, Injected DEF EntryOf
  <2> QED BY <1>4, <2>2
<1> HIDE DEF chain
<1>5. \/ RoutedTo(chain, q) = None
      \/ \E c \in MayServe(port, q) : RoutedTo(chain, q) = MergedClusterName(c.rule)
  BY <1>1, <1>3, <1>4, FirstFit
<1> QED BY <1>5 DEF chain

\* In every snapshot no request reaches a route that was not collected, that
\* targets no listener of the port or that does not admit the request.
THEOREM RoutedAlwaysToAttached == Spec => []RoutedOnlyToAttached
<1> QED BY SnapshotHolds, SnapshotRouted, PTL

LEMMA SnapshotMatched == Snapshot => RoutedWhenMatched
<1> SUFFICES ASSUME Snapshot, NEW port \in DOMAIN PraxisListeners, NEW q \in Requests,
                    NEW c \in MustServe(port, q)
             PROVE  RoutedTo(FilterChain(port), q) # None
  BY DEF RoutedWhenMatched
<1> DEFINE chain == FilterChain(port)
<1>1. IsSeq(chain)
  BY ChainElements
<1>2. \A i \in 1..Len(chain) : chain[i] \in ToSet(chain)
  BY <1>1, IsSeqFacts
<1>3. \E f \in ToSet(chain) : Fits(f, q)
  BY ClaimFits
<1>4. ASSUME NEW i \in 1..Len(chain), Fits(chain[i], q), RoutedTo(chain, q) = chain[i].cluster
      PROVE  RoutedTo(chain, q) # None
  <2>1. PICK d \in MayServe(port, q) : EntryOf(chain[i], d, q)
    BY <1>2, <1>4, FittingIsClaimed
  <2>2. chain[i].cluster = MergedClusterName(d.rule) /\ ProperRule(d.rule)
    BY <2>1, Injected DEF EntryOf
  <2> QED BY <1>4, <2>2 DEF ProperRule
<1> HIDE DEF chain
<1> QED BY <1>1, <1>3, <1>4, FirstFit DEF chain

\* In every snapshot a request that a route of the port's first listener
\* covers is routed.
THEOREM MatchedAlwaysRouted == Spec => []RoutedWhenMatched
<1> QED BY SnapshotHolds, SnapshotMatched, PTL

-----------------------------------------------------------------------------
(* The most specific route.                                                *)

\* The length of a match is that of its prefix entry less the final slash.
LEMMA LengthOf ==
  ASSUME NEW m, ProperMatch(m), NEW p \in ToSet(ExtractPathMatch(m)), ~p.exact
  PROVE  PathLength(m) = Len(p.path) - 1
<1>1. CASE m.type \in {None, "Regex"}
  <2>1. p = Prefixing(Root)
    BY <1>1, PathsOfMatch
  <2>2. p.path = Root
    BY <2>1, PathFields
  <2>3. Len(p.path) - 1 = 0
    BY <2>2, RootFacts
  <2>4. PathLength(m) = 0
    BY <1>1 DEF PathLength
  <2> QED BY <2>3, <2>4
<1>2. CASE m.type = "Exact"
  <2>1. p = Exactly(m.path)
    BY <1>2, PathsOfMatch
  <2>2. p.exact = TRUE
    BY <2>1, PathFields
  <2> QED BY <2>2
<1>3. CASE m.type = "Prefix"
  <2>0. /\ IsSeq(m.path) /\ Len(m.path) \in Nat /\ m.type \notin {None, "Regex"}
    BY <1>3, ProperPath, NoneAssumption
  <2>1. CASE EndsWithSlash(m.path)
    <3>1. p = Prefixing(m.path)
      BY <1>3, <2>1, PathsOfMatch
    <3>2. p.path = m.path
      BY <3>1, PathFields
    <3>3. CASE m.path = Root
      BY <3>2, <3>3, RootFacts DEF PathLength
    <3>4. CASE m.path # Root
      <4>1. PathLength(m) = Len(m.path) - 1
        BY <2>0, <2>1, <3>4 DEF PathLength
      <4> QED BY <3>2, <4>1
    <3> QED BY <3>3, <3>4
  <2>2. CASE ~EndsWithSlash(m.path)
    <3>1. p \in {Exactly(m.path), Prefixing(Append(m.path, "/"))}
      BY <1>3, <2>2, PathsOfMatch
    <3>2. p # Exactly(m.path)
      <4>1. Exactly(m.path).exact = TRUE
        BY PathFields
      <4> QED BY <4>1
    <3>3. p.path = Append(m.path, "/")
      BY <3>1, <3>2, PathFields
    <3>4. Len(p.path) = Len(m.path) + 1
      BY <2>0, <3>3, Appended
    <3>5. m.path # Root
      BY <2>2, RootFacts
    <3>6. PathLength(m) = Len(m.path) - 0
      BY <2>0, <2>2, <3>5 DEF PathLength
    <3> QED BY <2>0, <3>4, <3>6
  <2> QED BY <2>1, <2>2
<1> QED BY <1>1, <1>2, <1>3 DEF ProperMatch

LEMMA LengthBounds ==
  ASSUME NEW m, ProperMatch(m), m.type \in {"Prefix", "Exact"}
  PROVE  /\ PathLength(m) \in Nat
         /\ Len(m.path) - 1 <= PathLength(m) /\ PathLength(m) <= Len(m.path)
<1>1. Len(m.path) \in Nat /\ Len(m.path) >= 1
  BY ProperPath
<1>2. PathLength(m) = IF m.path = Root THEN 0
                      ELSE Len(m.path) - (IF EndsWithSlash(m.path) THEN 1 ELSE 0)
  BY NoneAssumption DEF PathLength
<1>3. CASE m.path = Root
  <2>1. Len(m.path) = 1 /\ PathLength(m) = 0
    BY <1>2, <1>3, RootFacts
  <2> QED BY <2>1
<1>4. CASE m.path # Root
  <2>1. CASE EndsWithSlash(m.path)
    BY <1>1, <1>2, <1>4, <2>1
  <2>2. CASE ~EndsWithSlash(m.path)
    BY <1>1, <1>2, <1>4, <2>2
  <2> QED BY <2>1, <2>2
<1> QED BY <1>3, <1>4

\* An exact path that fits is the request's own, and no match that covers
\* the request is longer.
LEMMA LengthCovered ==
  ASSUME NEW q \in Requests,
         NEW m, ProperMatch(m), Covers(m, q),
         NEW n, ProperMatch(n), NEW p \in ToSet(ExtractPathMatch(n)), p.exact, FitsPath(p, q)
  PROVE  PathLength(m) <= PathLength(n)
<1>1. n.type \in {"Prefix", "Exact"} /\ p = Exactly(n.path)
  <2>1. \A v : Prefixing(v).exact = FALSE
    BY PathFields
  <2>2. \A v : p # Prefixing(v)
    BY <2>1
  <2>3. CASE n.type \in {None, "Regex"}
    BY <2>2, <2>3, PathsOfMatch
  <2>4. CASE n.type = "Exact"
    BY <2>4, PathsOfMatch
  <2>5. CASE n.type = "Prefix"
    BY <2>2, <2>5, PathsOfMatch
  <2> QED BY <2>3, <2>4, <2>5 DEF ProperMatch
<1>2. n.path = q.path
  BY <1>1, PathFields DEF FitsPath
<1>3. PathLength(n) \in Nat /\ Len(n.path) - 1 <= PathLength(n) /\ Len(n.path) \in Nat
  BY <1>1, LengthBounds, ProperPath
<1>4. CASE m.type \in {None, "Regex"}
  BY <1>3, <1>4 DEF PathLength
<1>5. CASE m.type \in {"Prefix", "Exact"}
  <2>1. IsPrefix(m.path, q.path)
    <3>1. CASE m.type = "Prefix"
      BY <3>1 DEF Covers, ElementPrefix
    <3>2. CASE m.type = "Exact"
      <4>1. m.path = q.path
        BY <3>2 DEF Covers
      <4> QED BY <4>1, RequestPath, PrefixOfItself
    <3> QED BY <1>5, <3>1, <3>2
  <2>2. IsSeq(m.path) /\ IsSeq(q.path) /\ Len(m.path) \in Nat /\ Len(q.path) \in Nat
    BY <1>5, ProperPath, RequestPath
  <2>3. Len(m.path) <= Len(q.path)
    BY <2>1 DEF IsPrefix
  <2>4. PathLength(m) \in Nat /\ PathLength(m) <= Len(m.path)
    BY <1>5, LengthBounds
  <2>5. CASE Len(m.path) = Len(q.path)
    <3>1. m.path = n.path
      BY <1>2, <2>1, <2>2, <2>5, FullPrefix
    <3>2. m.type \notin {None, "Regex"} /\ n.type \notin {None, "Regex"}
      BY <1>1, <1>5, NoneAssumption
    <3>3. PathLength(m) = PathLength(n)
      BY <3>1, <3>2 DEF PathLength
    <3> QED BY <1>3, <3>3
  <2>6. CASE Len(m.path) # Len(q.path)
    BY <1>2, <1>3, <2>2, <2>3, <2>4, <2>6
  <2> QED BY <2>5, <2>6
<1> QED BY <1>4, <1>5 DEF ProperMatch

\* Of two entries a request fits, one the sort does not put behind the other
\* is not beaten by it.
LEMMA NotBeaten ==
  ASSUME NEW q \in Requests,
         NEW c, ProperMatch(c.match), Covers(c.match, q), c.of.route \in RouteSpecs,
         NEW p \in ToSet(ExtractPathMatch(c.match)), FitsPath(p, q),
         \A o \in ToSet(ExtractPathMatch(c.match)) : FitsPath(o, q) /\ o.exact => p.exact,
         NEW h \in ToSet(Hosts(c.of.route)),
         NEW d, NEW g, EntryOf(g, d, q),
         ~Precedes(InjectListenerHostname(Entry(p, h, c.match, c)), g)
  PROVE  ~Beats(c, d)
<1> DEFINE f == InjectListenerHostname(Entry(p, h, c.match, c))
           mc == c.match
           md == d.match
<1>0. ProperMatch(md) /\ d.of.route \in RouteSpecs
  BY DEF EntryOf
<1>1. PICK o \in ToSet(ExtractPathMatch(md)) :
        \E k \in ToSet(Hosts(d.of.route)) :
          FitsPath(o, q) /\ g = InjectListenerHostname(Entry(o, k, md, d))
  BY DEF EntryOf
<1>2. PICK k \in ToSet(Hosts(d.of.route)) :
        FitsPath(o, q) /\ g = InjectListenerHostname(Entry(o, k, md, d))
  BY <1>1
<1>3. /\ f.exact = p.exact /\ f.path = p.path /\ (f.header <=> mc.header = "exact")
      /\ h # None => f.host = h
      /\ g.exact = o.exact /\ g.path = o.path /\ (g.header <=> md.header = "exact")
      /\ k # None => g.host = k
  <2>1. /\ f.exact = p.exact /\ f.path = p.path /\ f.header = ExtractHeaders(mc)
        /\ h # None => f.host = h
        /\ g.exact = o.exact /\ g.path = o.path /\ g.header = ExtractHeaders(md)
        /\ k # None => g.host = k
    BY <1>2, Injected
  <2>2. /\ ExtractHeaders(mc) <=> mc.header = "exact"
        /\ ExtractHeaders(md) <=> md.header = "exact"
    BY DEF ExtractHeaders
  <2>3. /\ f.header <=> mc.header = "exact"
        /\ g.header <=> md.header = "exact"
    BY <2>1, <2>2
  <2> QED BY <2>1, <2>3
<1>4. /\ Len(p.path) \in Nat /\ p.exact \in BOOLEAN
      /\ Len(o.path) \in Nat /\ o.exact \in BOOLEAN
  BY <1>0, <1>1, PathsProper
<1>5. ~Precedes(f, g)
  OBVIOUS
<1> HIDE DEF f
<1>6. /\ ~(p.exact /\ ~o.exact)
      /\ (p.exact <=> o.exact) => Len(p.path) <= Len(o.path)
      /\ (p.exact <=> o.exact) /\ Len(p.path) = Len(o.path) /\ f.host # None /\ g.host # None
           => ~(mc.header = "exact" /\ md.header # "exact")
  <2>1. Len(f.path) \in Nat /\ Len(g.path) \in Nat
    BY <1>3, <1>4
  <2>2. /\ ~(f.exact /\ ~g.exact)
        /\ (f.exact <=> g.exact) => ~(Len(f.path) > Len(g.path))
        /\ (f.exact <=> g.exact) /\ Len(f.path) = Len(g.path) /\ f.host # None /\ g.host # None
             => ~(f.header /\ ~g.header)
    BY <2>1, <1>5, PrecedesMeans
  <2>3. ~(Len(p.path) > Len(o.path)) <=> Len(p.path) <= Len(o.path)
    BY <1>4
  <2> QED BY <1>3, <2>2, <2>3
<1>7. PathLength(mc) <= PathLength(md)
  <2>1. CASE o.exact
    BY <1>0, <1>1, <2>1, LengthCovered
  <2>2. CASE ~o.exact
    <3>1. ~p.exact /\ Len(p.path) <= Len(o.path)
      BY <1>6, <2>2
    <3>2. PathLength(mc) = Len(p.path) - 1 /\ PathLength(md) = Len(o.path) - 1
      BY <1>0, <1>1, <2>2, <3>1, LengthOf
    <3> QED BY <1>4, <3>1, <3>2
  <2> QED BY <2>1, <2>2
<1>8. PathLength(mc) \in Int /\ PathLength(md) \in Int
  <2>1. ASSUME NEW m, ProperMatch(m) PROVE PathLength(m) \in Int
    <3>1. CASE m.type \in {None, "Regex"}
      BY <3>1 DEF PathLength
    <3>2. CASE m.type \in {"Prefix", "Exact"}
      BY <2>1, <3>2, LengthBounds
    <3> QED BY <2>1, <3>1, <3>2 DEF ProperMatch
  <2> QED BY <1>0, <2>1
<1>9. ASSUME mc.type = md.type, mc.path = md.path,
             c.of.route.hosts # <<>>, d.of.route.hosts # <<>>,
             mc.header = "exact", md.header # "exact"
      PROVE  FALSE
  <2>1. ToSet(ExtractPathMatch(mc)) = ToSet(ExtractPathMatch(md))
    BY <1>9 DEF ExtractPathMatch
  <2>2. PathLength(mc) = PathLength(md)
    BY <1>9 DEF PathLength
  <2>3. o.exact => p.exact
    BY <1>1, <1>2, <2>1
  <2>4. p.exact <=> o.exact
    BY <1>6, <2>3
  <2>5. h # None /\ k # None
    BY <1>0, <1>9, HostsElements
  <2>6. f.host # None /\ g.host # None
    BY <1>3, <2>5
  <2>7. Len(p.path) = Len(o.path)
    <3>1. CASE p.exact
      BY <1>2, <2>4, <3>1 DEF FitsPath
    <3>2. CASE ~p.exact
      <4>1. PathLength(mc) = Len(p.path) - 1 /\ PathLength(md) = Len(o.path) - 1
        BY <1>0, <1>1, <2>4, <3>2, LengthOf
      <4>2. Len(p.path) - 1 = Len(o.path) - 1
        BY <2>2, <4>1
      <4>3. Len(p.path) \in Nat /\ Len(o.path) \in Nat
        BY <1>4
      <4> QED BY <4>2, <4>3
    <3> QED BY <3>1, <3>2
  <2> QED BY <1>6, <1>9, <2>4, <2>6, <2>7
<1> QED BY <1>7, <1>8, <1>9 DEF Beats

LEMMA SnapshotSpecific == Snapshot => MostSpecificServes
<1> SUFFICES ASSUME Snapshot, NEW port \in DOMAIN PraxisListeners, NEW q \in Requests,
                    NEW c \in MustServe(port, q)
             PROVE  \E d \in MayServe(port, q) :
                      /\ MergedClusterName(d.rule) = RoutedTo(FilterChain(port), q)
                      /\ ~Beats(c, d)
  BY DEF MostSpecificServes
<1> DEFINE chain == FilterChain(port)
<1>1. IsSeq(chain) /\ Sorted(chain)
  BY ChainElements
<1>2. /\ Len(chain) \in Nat
      /\ \A f : f \in ToSet(chain) <=> \E i \in 1..Len(chain) : chain[i] = f
  BY <1>1, IsSeqFacts
<1>3. /\ ProperMatch(c.match) /\ c.of.route \in RouteSpecs /\ Covers(c.match, q)
      /\ \E p \in ToSet(ExtractPathMatch(c.match)) : \E h \in ToSet(Hosts(c.of.route)) :
           /\ FitsPath(p, q)
           /\ \A o \in ToSet(ExtractPathMatch(c.match)) : FitsPath(o, q) /\ o.exact => p.exact
           /\ InjectListenerHostname(Entry(p, h, c.match, c)) \in ToSet(chain)
           /\ Fits(InjectListenerHostname(Entry(p, h, c.match, c)), q)
  BY ClaimFits
<1>4. PICK p \in ToSet(ExtractPathMatch(c.match)) : \E h \in ToSet(Hosts(c.of.route)) :
        /\ FitsPath(p, q)
        /\ \A o \in ToSet(ExtractPathMatch(c.match)) : FitsPath(o, q) /\ o.exact => p.exact
        /\ InjectListenerHostname(Entry(p, h, c.match, c)) \in ToSet(chain)
        /\ Fits(InjectListenerHostname(Entry(p, h, c.match, c)), q)
  BY <1>3
<1>5. PICK h \in ToSet(Hosts(c.of.route)) :
        /\ FitsPath(p, q)
        /\ \A o \in ToSet(ExtractPathMatch(c.match)) : FitsPath(o, q) /\ o.exact => p.exact
        /\ InjectListenerHostname(Entry(p, h, c.match, c)) \in ToSet(chain)
        /\ Fits(InjectListenerHostname(Entry(p, h, c.match, c)), q)
  BY <1>4
<1> DEFINE f == InjectListenerHostname(Entry(p, h, c.match, c))
<1>6. PICK j \in 1..Len(chain) : chain[j] = f /\ Fits(chain[j], q)
  BY <1>2, <1>5
<1>7. PICK i \in 1..Len(chain) :
        /\ Fits(chain[i], q) /\ RoutedTo(chain, q) = chain[i].cluster
        /\ \A l \in 1..Len(chain) : Fits(chain[l], q) => i <= l
  BY <1>1, <1>5, FirstFit
<1>8. ~Precedes(f, chain[i])
  <2>1. i <= j
    BY <1>6, <1>7
  <2>2. CASE i < j
    BY <1>1, <1>6, <1>7, <2>2 DEF Sorted
  <2>3. CASE i = j
    <3>1. Len(f.path) \in Nat
      BY <1>3, Injected, PathsProper
    <3>2. ~Precedes(f, f)
      BY <3>1, PrecedesIsAnOrder
    <3> QED BY <1>6, <2>3, <3>2
  <2> QED BY <1>6, <1>7, <2>1, <2>2, <2>3
<1>9. PICK d \in MayServe(port, q) : EntryOf(chain[i], d, q)
  BY <1>2, <1>7, FittingIsClaimed
<1>10. chain[i].cluster = MergedClusterName(d.rule)
  BY <1>9, Injected DEF EntryOf
<1>11. ~Beats(c, d)
  BY <1>3, <1>5, <1>8, <1>9, NotBeaten
<1> QED BY <1>7, <1>10, <1>11

\* In every snapshot the rule that serves a request is beaten by no rule that
\* must serve it.
THEOREM MostSpecificAlwaysServes == Spec => []MostSpecificServes
<1> QED BY SnapshotHolds, SnapshotSpecific, PTL

-----------------------------------------------------------------------------
(* The addresses of a Service.                                             *)

Backed(backing) ==
  backing # None =>
    /\ backing.listable \in BOOLEAN
    /\ IsSeq(backing.slices)
    /\ \A slice \in ToSet(backing.slices) : IsSeq(slice.endpoints)
    /\ backing.subsets # None =>
         /\ IsSeq(backing.subsets)
         /\ \A subset \in ToSet(backing.subsets) : IsSeq(subset.ready)

LEMMA SliceElements ==
  ASSUME NEW slice, IsSeq(slice.endpoints), NEW target
  PROVE  /\ IsSeq(SliceAddresses(slice, target))
         /\ \A a : a \in ToSet(SliceAddresses(slice, target)) <=>
              \E e \in ToSet(slice.endpoints) :
                e.ready # FALSE /\ a = Address(e.ip, PortIn(slice.ports, target))
<1> DEFINE T     == {e \in ToSet(slice.endpoints) : EndpointReady(e)}
           ready == Only(slice.endpoints, T)
           as    == SliceAddresses(slice, target)
<1>1. as = [i \in DOMAIN ready |-> Address(ready[i].ip, PortIn(slice.ports, target))]
  BY DEF SliceAddresses
<1>2. \A e : e \in T <=> e \in ToSet(slice.endpoints) /\ e.ready # FALSE
  BY DEF EndpointReady
<1> HIDE DEF T, as
<1>3. IsSeq(ready) /\ ToSet(ready) = ToSet(slice.endpoints) \cap T
  BY OnlyElements
<1> HIDE DEF ready
<1>4. /\ Len(ready) \in Nat /\ DOMAIN ready = 1..Len(ready)
      /\ \A e : e \in ToSet(ready) <=> \E i \in 1..Len(ready) : ready[i] = e
  BY <1>3, IsSeqFacts
<1>5. \A i \in 1..Len(ready) : as[i] = Address(ready[i].ip, PortIn(slice.ports, target))
  BY <1>1, <1>4
<1>6. IsSeq(as) /\ DOMAIN as = 1..Len(ready)
  <2>1. as = [i \in 1..Len(ready) |-> as[i]]
    BY <1>1, <1>4, <1>5
  <2> QED BY <2>1, <1>4, Tabulated
<1>7. \A a : a \in ToSet(as) <=> \E i \in 1..Len(ready) : as[i] = a
  BY <1>6 DEF ToSet
<1>8. \A a : a \in ToSet(as) <=>
        \E e \in ToSet(ready) : a = Address(e.ip, PortIn(slice.ports, target))
  <2> DEFINE of(e) == Address(e.ip, PortIn(slice.ports, target))
  <2>1. \A i \in 1..Len(ready) : as[i] = of(ready[i])
    BY <1>5
  <2>2. SUFFICES \A a : a \in ToSet(as) <=> \E e \in ToSet(ready) : a = of(e)
    OBVIOUS
  <2> HIDE DEF of
  <2>3. ASSUME NEW a \in ToSet(as) PROVE \E e \in ToSet(ready) : a = of(e)
    <3>1. PICK i \in 1..Len(ready) : as[i] = a
      BY <1>7
    <3>2. ready[i] \in ToSet(ready)
      BY <1>4
    <3> QED BY <2>1, <3>1, <3>2
  <2>4. ASSUME NEW e \in ToSet(ready) PROVE of(e) \in ToSet(as)
    <3>1. PICK i \in 1..Len(ready) : ready[i] = e
      BY <1>4
    <3> QED BY <2>1, <3>1, <1>7
  <2> QED BY <2>3, <2>4
<1> QED BY <1>2, <1>3, <1>6, <1>8 DEF as

LEMMA ViaSlicesElements ==
  ASSUME NEW backing, Backed(backing), backing # None, NEW target
  PROVE  /\ IsSeq(ViaEndpointSlices(backing, target))
         /\ \A a : a \in ToSet(ViaEndpointSlices(backing, target)) <=>
              \E i \in DOMAIN backing.slices : \E e \in ToSet(backing.slices[i].endpoints) :
                e.ready # FALSE /\ a = Address(e.ip, PortIn(backing.slices[i].ports, target))
<1> DEFINE slices == backing.slices
           all    == [i \in DOMAIN slices |-> SliceAddresses(slices[i], target)]
<1>1. /\ Len(slices) \in Nat /\ DOMAIN slices = 1..Len(slices)
      /\ \A i \in 1..Len(slices) : IsSeq(slices[i].endpoints)
  BY IsSeqFacts DEF Backed
<1>2. ViaEndpointSlices(backing, target) = FlattenSeq(all)
  BY DEF ViaEndpointSlices
<1>3. /\ all = [i \in 1..Len(slices) |-> all[i]]
      /\ \A i \in 1..Len(slices) : all[i] = SliceAddresses(slices[i], target)
  BY <1>1
<1> HIDE DEF all
<1>4. IsSeq(all) /\ Len(all) = Len(slices)
  BY <1>1, <1>3, Tabulated
<1>5. \A i \in 1..Len(all) :
        /\ IsSeq(all[i])
        /\ \A a : a \in ToSet(all[i]) <=>
             \E e \in ToSet(slices[i].endpoints) :
               e.ready # FALSE /\ a = Address(e.ip, PortIn(slices[i].ports, target))
  <2> TAKE i \in 1..Len(all)
  <2>1. all[i] = SliceAddresses(slices[i], target) /\ IsSeq(slices[i].endpoints)
    BY <1>1, <1>3, <1>4
  <2> HIDE DEF slices
  <2> QED BY <2>1, SliceElements
<1>6. /\ IsSeq(FlattenSeq(all))
      /\ \A a : a \in ToSet(FlattenSeq(all)) <=> \E i \in 1..Len(all) : a \in ToSet(all[i])
  BY <1>4, <1>5, FlattenElements
<1> DEFINE From(a, i) == \E e \in ToSet(slices[i].endpoints) :
             e.ready # FALSE /\ a = Address(e.ip, PortIn(slices[i].ports, target))
<1>7. \A i \in 1..Len(all) : \A a : a \in ToSet(all[i]) <=> From(a, i)
  BY <1>5
<1>8. SUFFICES /\ IsSeq(FlattenSeq(all))
               /\ \A a : a \in ToSet(FlattenSeq(all)) <=> \E i \in DOMAIN slices : From(a, i)
  BY <1>2
<1> HIDE DEF From, slices
<1> QED BY <1>1, <1>4, <1>6, <1>7

LEMMA SubsetElements ==
  ASSUME NEW subset, IsSeq(subset.ready), NEW target
  PROVE  /\ IsSeq(SubsetAddresses(subset, target))
         /\ \A a : a \in ToSet(SubsetAddresses(subset, target)) <=>
              \E ip \in ToSet(subset.ready) : a = Address(ip, PortIn(subset.ports, target))
<1> DEFINE ready == subset.ready
           as    == SubsetAddresses(subset, target)
<1>1. /\ Len(ready) \in Nat /\ DOMAIN ready = 1..Len(ready)
      /\ \A e : e \in ToSet(ready) <=> \E i \in 1..Len(ready) : ready[i] = e
  BY IsSeqFacts
<1>2. as = [i \in 1..Len(ready) |-> Address(ready[i], PortIn(subset.ports, target))]
  BY <1>1 DEF SubsetAddresses
<1> HIDE DEF as
<1>3. \A i \in 1..Len(ready) : as[i] = Address(ready[i], PortIn(subset.ports, target))
  BY <1>2
<1>4. IsSeq(as) /\ DOMAIN as = 1..Len(ready)
  <2>1. as = [i \in 1..Len(ready) |-> as[i]]
    BY <1>2, <1>3
  <2> QED BY <2>1, <1>1, Tabulated
<1>5. \A a : a \in ToSet(as) <=> \E i \in 1..Len(ready) : as[i] = a
  BY <1>4 DEF ToSet
<1>6. \A a : a \in ToSet(as) <=>
        \E ip \in ToSet(ready) : a = Address(ip, PortIn(subset.ports, target))
  <2> DEFINE of(ip) == Address(ip, PortIn(subset.ports, target))
  <2>1. \A i \in 1..Len(ready) : as[i] = of(ready[i])
    BY <1>3
  <2>2. SUFFICES \A a : a \in ToSet(as) <=> \E ip \in ToSet(ready) : a = of(ip)
    OBVIOUS
  <2> HIDE DEF of
  <2>3. ASSUME NEW a \in ToSet(as) PROVE \E ip \in ToSet(ready) : a = of(ip)
    <3>1. PICK i \in 1..Len(ready) : as[i] = a
      BY <1>5
    <3>2. ready[i] \in ToSet(ready)
      BY <1>1
    <3> QED BY <2>1, <3>1, <3>2
  <2>4. ASSUME NEW ip \in ToSet(ready) PROVE of(ip) \in ToSet(as)
    <3>1. PICK i \in 1..Len(ready) : ready[i] = ip
      BY <1>1
    <3> QED BY <2>1, <3>1, <1>5
  <2> QED BY <2>3, <2>4
<1> QED BY <1>4, <1>6 DEF as

LEMMA ViaEndpointsElements ==
  ASSUME NEW backing, Backed(backing), backing # None, NEW target
  PROVE  /\ IsSeq(ViaEndpoints(backing, target))
         /\ backing.subsets = None => ToSet(ViaEndpoints(backing, target)) = {}
         /\ backing.subsets # None =>
              \A a : a \in ToSet(ViaEndpoints(backing, target)) <=>
                \E i \in DOMAIN backing.subsets : \E ip \in ToSet(backing.subsets[i].ready) :
                  a = Address(ip, PortIn(backing.subsets[i].ports, target))
<1>1. CASE backing.subsets = None
  <2>1. ViaEndpoints(backing, target) = <<>>
    BY <1>1 DEF ViaEndpoints
  <2> QED BY <1>1, <2>1, NoElements
<1>2. CASE backing.subsets # None
  <2> DEFINE subsets == backing.subsets
             all     == [i \in DOMAIN subsets |-> SubsetAddresses(subsets[i], target)]
  <2>1. /\ Len(subsets) \in Nat /\ DOMAIN subsets = 1..Len(subsets)
        /\ \A i \in 1..Len(subsets) : IsSeq(subsets[i].ready)
    BY <1>2, IsSeqFacts DEF Backed
  <2>2. ViaEndpoints(backing, target) = FlattenSeq(all)
    BY <1>2 DEF ViaEndpoints
  <2>3. /\ all = [i \in 1..Len(subsets) |-> all[i]]
        /\ \A i \in 1..Len(subsets) : all[i] = SubsetAddresses(subsets[i], target)
    BY <2>1
  <2> HIDE DEF all
  <2>4. IsSeq(all) /\ Len(all) = Len(subsets)
    BY <2>1, <2>3, Tabulated
  <2>5. \A i \in 1..Len(all) :
          /\ IsSeq(all[i])
          /\ \A a : a \in ToSet(all[i]) <=>
               \E ip \in ToSet(subsets[i].ready) : a = Address(ip, PortIn(subsets[i].ports, target))
    <3> TAKE i \in 1..Len(all)
    <3>1. all[i] = SubsetAddresses(subsets[i], target) /\ IsSeq(subsets[i].ready)
      BY <2>1, <2>3, <2>4
    <3> HIDE DEF subsets
    <3> QED BY <3>1, SubsetElements
  <2>6. /\ IsSeq(FlattenSeq(all))
        /\ \A a : a \in ToSet(FlattenSeq(all)) <=> \E i \in 1..Len(all) : a \in ToSet(all[i])
    BY <2>4, <2>5, FlattenElements
  <2> DEFINE From(a, i) == \E ip \in ToSet(subsets[i].ready) :
               a = Address(ip, PortIn(subsets[i].ports, target))
  <2>7. \A i \in 1..Len(all) : \A a : a \in ToSet(all[i]) <=> From(a, i)
    BY <2>5
  <2>8. SUFFICES /\ IsSeq(FlattenSeq(all))
                 /\ \A a : a \in ToSet(FlattenSeq(all)) <=> \E i \in DOMAIN subsets : From(a, i)
    BY <1>2, <2>2
  <2> HIDE DEF From, subsets
  <2> QED BY <2>1, <2>4, <2>6, <2>7
<1> QED BY <1>1, <1>2

\* What the resolution finds is what is ready, by whichever way it is found.
LEMMA ResolvedAddresses ==
  ASSUME NEW backing, Backed(backing), NEW port
  PROVE  /\ IsSeq(ResolveEndpoints(backing, port))
         /\ \A ip : ip \in ReadyIPs(backing) <=>
              \E a \in ToSet(ResolveEndpoints(backing, port)) : a.ip = ip
<1>1. CASE backing = None
  <2>1. ResolveEndpoints(backing, port) = <<>> /\ ReadyIPs(backing) = {}
    BY <1>1 DEF ResolveEndpoints, ReadyIPs
  <2> QED BY <2>1, NoElements
<1>2. CASE backing # None
  <2> DEFINE target == TargetPort(backing.targets, port)
             via    == ViaEndpointSlices(backing, target)
             old    == ViaEndpoints(backing, target)
             sliced == {e \in UNION {ToSet(backing.slices[i].endpoints) :
                                       i \in DOMAIN backing.slices} : e.ready # FALSE}
  <2>0. \A x, p : Address(x, p).ip = x
    BY DEF Address
  <2>1. /\ IsSeq(via)
        /\ \A a : a \in ToSet(via) <=>
             \E i \in DOMAIN backing.slices : \E e \in ToSet(backing.slices[i].endpoints) :
               e.ready # FALSE /\ a = Address(e.ip, PortIn(backing.slices[i].ports, target))
    BY <1>2, ViaSlicesElements
  <2>2. /\ IsSeq(old)
        /\ backing.subsets = None => ToSet(old) = {}
        /\ backing.subsets # None =>
             \A a : a \in ToSet(old) <=>
               \E i \in DOMAIN backing.subsets : \E ip \in ToSet(backing.subsets[i].ready) :
                 a = Address(ip, PortIn(backing.subsets[i].ports, target))
    BY <1>2, ViaEndpointsElements
  <2>3. ResolveEndpoints(backing, port) = IF backing.listable /\ via # <<>> THEN via ELSE old
    BY <1>2 DEF ResolveEndpoints
  <2>4. \A e : e \in sliced <=>
          \E i \in DOMAIN backing.slices : e \in ToSet(backing.slices[i].endpoints) /\ e.ready # FALSE
    OBVIOUS
  <2>5. ReadyIPs(backing) =
          IF backing.listable /\ sliced # {} THEN {e.ip : e \in sliced}
          ELSE IF backing.subsets = None THEN {}
          ELSE UNION {ToSet(backing.subsets[i].ready) : i \in DOMAIN backing.subsets}
    BY <1>2 DEF ReadyIPs
  <2> HIDE DEF via, old, sliced
  <2>6. \A ip : (\E e \in sliced : e.ip = ip) <=> \E a \in ToSet(via) : a.ip = ip
    <3>1. ASSUME NEW e \in sliced PROVE \E a \in ToSet(via) : a.ip = e.ip
      <4>1. PICK i \in DOMAIN backing.slices :
              e \in ToSet(backing.slices[i].endpoints) /\ e.ready # FALSE
        BY <2>4
      <4>2. Address(e.ip, PortIn(backing.slices[i].ports, target)) \in ToSet(via)
        BY <2>1, <4>1
      <4> QED BY <2>0, <4>2
    <3>2. ASSUME NEW a \in ToSet(via) PROVE \E e \in sliced : e.ip = a.ip
      <4>1. PICK i \in DOMAIN backing.slices : \E e \in ToSet(backing.slices[i].endpoints) :
              e.ready # FALSE /\ a = Address(e.ip, PortIn(backing.slices[i].ports, target))
        BY <2>1
      <4>2. PICK e \in ToSet(backing.slices[i].endpoints) :
              e.ready # FALSE /\ a = Address(e.ip, PortIn(backing.slices[i].ports, target))
        BY <4>1
      <4>3. e \in sliced
        BY <2>4, <4>2
      <4>4. a.ip = e.ip
        BY <2>0, <4>2
      <4> QED BY <4>3, <4>4
    <3> QED BY <3>1, <3>2
  <2>7. sliced # {} <=> via # <<>>
    <3>1. via # <<>> <=> ToSet(via) # {}
      BY <2>1, IsSeqFacts
    <3> QED BY <2>6, <3>1
  <2>8. CASE backing.listable /\ via # <<>>
    BY <2>1, <2>3, <2>5, <2>6, <2>7, <2>8
  <2>9. CASE ~(backing.listable /\ via # <<>>)
    <3>1. ResolveEndpoints(backing, port) = old
      BY <2>3, <2>9
    <3>2. ReadyIPs(backing) =
            IF backing.subsets = None THEN {}
            ELSE UNION {ToSet(backing.subsets[i].ready) : i \in DOMAIN backing.subsets}
      BY <2>5, <2>7, <2>9
    <3>3. CASE backing.subsets = None
      BY <2>2, <3>1, <3>2, <3>3
    <3>4. CASE backing.subsets # None
      <4>1. \A ip : ip \in ReadyIPs(backing) <=>
              \E i \in DOMAIN backing.subsets : ip \in ToSet(backing.subsets[i].ready)
        BY <3>2, <3>4
      <4>2. \A a : a \in ToSet(old) <=>
              \E i \in DOMAIN backing.subsets : \E ip \in ToSet(backing.subsets[i].ready) :
                a = Address(ip, PortIn(backing.subsets[i].ports, target))
        BY <2>2, <3>4
      <4>3. ASSUME NEW ip \in ReadyIPs(backing) PROVE \E a \in ToSet(old) : a.ip = ip
        <5>1. PICK i \in DOMAIN backing.subsets : ip \in ToSet(backing.subsets[i].ready)
          BY <4>1
        <5>2. Address(ip, PortIn(backing.subsets[i].ports, target)) \in ToSet(old)
          BY <4>2, <5>1
        <5> QED BY <2>0, <5>2
      <4>4. ASSUME NEW a \in ToSet(old) PROVE a.ip \in ReadyIPs(backing)
        <5>1. PICK i \in DOMAIN backing.subsets : \E ip \in ToSet(backing.subsets[i].ready) :
                a = Address(ip, PortIn(backing.subsets[i].ports, target))
          BY <4>2
        <5> QED BY <2>0, <4>1, <5>1
      <4> QED BY <2>2, <3>1, <4>3, <4>4
    <3> QED BY <3>3, <3>4
  <2> QED BY <2>8, <2>9
<1> QED BY <1>1, <1>2

-----------------------------------------------------------------------------
(* The backends of the rules and the clusters.                             *)

\* A backend of a collected rule, in the rule's cluster.
BackendOf(b, c) ==
  \E d \in ToSet(c.rule.backends) : b = InCluster(d, MergedClusterName(c.rule))

LEMMA BackendFields ==
  ASSUME NEW d, NEW name
  PROVE  LET b == InCluster(d, name)
         IN  /\ b.kind = d.kind /\ b.service = d.service /\ b.port = d.port
             /\ b.weight = d.weight /\ b.cluster = name
BY DEF InCluster

LEMMA RuleBackendsElements ==
  ASSUME NEW c, IsSeq(c.rule.backends)
  PROVE  /\ IsSeq(RuleBackends(c.rule))
         /\ \A b : b \in ToSet(RuleBackends(c.rule)) <=> BackendOf(b, c)
<1> DEFINE bs    == c.rule.backends
           of(d) == InCluster(d, MergedClusterName(c.rule))
           rs    == RuleBackends(c.rule)
<1>1. /\ Len(bs) \in Nat /\ DOMAIN bs = 1..Len(bs)
      /\ \A d : d \in ToSet(bs) <=> \E i \in 1..Len(bs) : bs[i] = d
  BY IsSeqFacts
<1>2. rs = [i \in DOMAIN bs |-> of(bs[i])]
  BY DEF RuleBackends
<1>3. \A b : BackendOf(b, c) <=> \E d \in ToSet(bs) : b = of(d)
  BY DEF BackendOf
<1> HIDE DEF of, rs, bs
<1>4. /\ rs = [i \in 1..Len(bs) |-> rs[i]]
      /\ \A i \in 1..Len(bs) : rs[i] = of(bs[i])
  BY <1>1, <1>2
<1>5. IsSeq(rs) /\ DOMAIN rs = 1..Len(bs)
  BY <1>1, <1>4, Tabulated
<1>6. \A b : b \in ToSet(rs) <=> \E i \in 1..Len(bs) : rs[i] = b
  BY <1>5 DEF ToSet
<1>7. ASSUME NEW b \in ToSet(rs) PROVE BackendOf(b, c)
  <2>1. PICK i \in 1..Len(bs) : rs[i] = b
    BY <1>6
  <2>2. bs[i] \in ToSet(bs)
    BY <1>1
  <2> QED BY <1>3, <1>4, <2>1, <2>2
<1>8. ASSUME NEW b, BackendOf(b, c) PROVE b \in ToSet(rs)
  <2>1. PICK d \in ToSet(bs) : b = of(d)
    BY <1>3, <1>8
  <2>2. PICK i \in 1..Len(bs) : bs[i] = d
    BY <1>1
  <2> QED BY <1>4, <1>6, <2>1, <2>2
<1> QED BY <1>5, <1>7, <1>8 DEF rs

LEMMA AllBackendsElements ==
  ASSUME Snapshot
  PROVE  /\ IsSeq(AllBackends)
         /\ \A b : b \in ToSet(AllBackends) <=> \E c \in ToSet(CollectedRules) : BackendOf(b, c)
<1> DEFINE rules == CollectedRules
           all   == [i \in DOMAIN rules |-> RuleBackends(rules[i].rule)]
<1>1. /\ Len(rules) \in Nat /\ DOMAIN rules = 1..Len(rules)
      /\ \A c : c \in ToSet(rules) <=> \E i \in 1..Len(rules) : rules[i] = c
  BY CollectedRulesElements, IsSeqFacts
<1>2. AllBackends = FlattenSeq(all)
  BY DEF AllBackends
<1>3. \A i \in 1..Len(rules) : IsSeq(rules[i].rule.backends)
  <2> TAKE i \in 1..Len(rules)
  <2>1. rules[i] \in ToSet(CollectedRules)
    BY <1>1
  <2>2. /\ rules[i].of.route \in RouteSpecs
        /\ rules[i].rule \in ToSet(rules[i].of.route.rules)
    BY <2>1, CollectedRulesProper
  <2> QED BY <2>2, RoutesAssumption
<1> HIDE DEF rules
<1>4. /\ all = [i \in 1..Len(rules) |-> all[i]]
      /\ \A i \in 1..Len(rules) : all[i] = RuleBackends(rules[i].rule)
  BY <1>1
<1> HIDE DEF all
<1>5. IsSeq(all) /\ Len(all) = Len(rules)
  BY <1>1, <1>4, Tabulated
<1>6. \A i \in 1..Len(all) :
        /\ IsSeq(all[i])
        /\ \A b : b \in ToSet(all[i]) <=> BackendOf(b, rules[i])
  BY <1>3, <1>4, <1>5, RuleBackendsElements
<1>7. /\ IsSeq(FlattenSeq(all))
      /\ \A b : b \in ToSet(FlattenSeq(all)) <=> \E i \in 1..Len(all) : b \in ToSet(all[i])
  BY <1>5, <1>6, FlattenElements
<1>8. \A b : b \in ToSet(FlattenSeq(all)) <=> \E c \in ToSet(rules) : BackendOf(b, c)
  BY <1>1, <1>5, <1>6, <1>7
<1> QED BY <1>2, <1>7, <1>8 DEF rules

\* Only Services are referred to, and of every Service in a cluster one entry.
LEMMA BackendRefsElements ==
  ASSUME Snapshot
  PROVE  /\ IsSeq(BackendRefs)
         /\ \A r \in ToSet(BackendRefs) : r.kind = "Service" /\ r \in ToSet(AllBackends)
         /\ \A b \in ToSet(AllBackends) : b.kind = "Service" =>
              \E r \in ToSet(BackendRefs) : SameBackend(r, b)
         /\ \A k, l \in 1..Len(BackendRefs) : SameBackend(BackendRefs[k], BackendRefs[l]) => k = l
<1> DEFINE named    == AllBackends
           services == Only(named, {b \in ToSet(named) : b.kind = "Service"})
           F        == {i \in DOMAIN services :
                          \A j \in 1..(i - 1) : ~SameBackend(services[j], services[i])}
           places   == [i \in DOMAIN services |-> i]
           firsts   == Only(places, F)
           refs     == [i \in DOMAIN firsts |-> services[firsts[i]]]
<1>1. BackendRefs = refs
  BY DEF BackendRefs, FirstOfEach, OfServices
<1>2. IsSeq(named)
  BY AllBackendsElements
<1> HIDE DEF named
<1>3. /\ IsSeq(services)
      /\ \A b : b \in ToSet(services) <=> b \in ToSet(named) /\ b.kind = "Service"
  BY <1>2, OnlyElements
<1> HIDE DEF services
<1>4. /\ Len(services) \in Nat /\ DOMAIN services = 1..Len(services)
      /\ \A b : b \in ToSet(services) <=> \E i \in 1..Len(services) : services[i] = b
  BY <1>3, IsSeqFacts
<1>5. \A i : i \in F <=> i \in 1..Len(services) /\
               \A j \in 1..(i - 1) : ~SameBackend(services[j], services[i])
  BY <1>4
<1>6. /\ places = [i \in 1..Len(services) |-> places[i]]
      /\ \A i \in 1..Len(services) : places[i] = i
  BY <1>4
<1> HIDE DEF F, places
<1>7. IsSeq(places) /\ DOMAIN places = 1..Len(services)
  BY <1>4, <1>6, Tabulated
<1>8. \A i : i \in ToSet(places) <=> i \in 1..Len(services)
  BY <1>6, <1>7 DEF ToSet
<1>9. IsSeq(firsts) /\ ToSet(firsts) = ToSet(places) \cap F
  BY <1>7, OnlyElements
<1>order. ASSUME NEW k \in 1..Len(firsts), NEW l \in 1..Len(firsts), k < l
          PROVE  ~SameBackend(services[firsts[k]], services[firsts[l]])
  <2>1. PICK i, j \in 1..Len(places) : i < j /\ firsts[k] = places[i] /\ firsts[l] = places[j]
    BY <1>7, <1>order, OnlyOrder
  <2>2. i \in 1..Len(services) /\ j \in 1..Len(services)
    BY <1>7, IsSeqFacts
  <2>3. firsts[k] = i /\ firsts[l] = j
    BY <1>6, <2>1, <2>2
  <2>4. i \in 1..(j - 1)
    BY <1>4, <2>1, <2>2
  <2>5. firsts[l] \in ToSet(firsts)
    BY <1>9, IsSeqFacts
  <2>6. j \in F
    BY <1>9, <2>3, <2>5
  <2> QED BY <1>5, <2>3, <2>4, <2>6
<1> HIDE DEF firsts
<1>10. /\ Len(firsts) \in Nat /\ DOMAIN firsts = 1..Len(firsts)
       /\ \A i : i \in ToSet(firsts) <=> \E k \in 1..Len(firsts) : firsts[k] = i
  BY <1>9, IsSeqFacts
<1>11. /\ refs = [k \in 1..Len(firsts) |-> refs[k]]
       /\ \A k \in 1..Len(firsts) : refs[k] = services[firsts[k]]
  BY <1>10
<1> HIDE DEF refs
<1>12. IsSeq(refs) /\ DOMAIN refs = 1..Len(firsts)
  BY <1>10, <1>11, Tabulated
<1>13. \A r : r \in ToSet(refs) <=> \E k \in 1..Len(firsts) : refs[k] = r
  BY <1>12 DEF ToSet
<1>14. ASSUME NEW r \in ToSet(refs) PROVE r.kind = "Service" /\ r \in ToSet(named)
  <2>1. PICK k \in 1..Len(firsts) : refs[k] = r
    BY <1>13
  <2>2. firsts[k] \in 1..Len(services)
    BY <1>5, <1>8, <1>9, <1>10
  <2>3. r \in ToSet(services)
    BY <1>4, <1>11, <2>1, <2>2
  <2> QED BY <1>3, <2>3
<1>15. ASSUME NEW b \in ToSet(named), b.kind = "Service"
       PROVE  \E r \in ToSet(refs) : SameBackend(r, b)
  <2> DEFINE S == {i \in 1..Len(services) : SameBackend(services[i], b)}
  <2>1. PICK k \in 1..Len(services) : services[k] = b
    BY <1>3, <1>4, <1>15
  <2>2. k \in S
    BY <2>1 DEF SameBackend
  <2>3. S \in SUBSET Nat
    BY <1>4
  <2>4. Min(S) \in S /\ \A x \in S : Min(S) <= x
    BY <2>2, <2>3, Least
  <2>5. PICK i \in S : \A x \in S : i <= x
    BY <2>4
  <2>6. \A j \in 1..(i - 1) : ~SameBackend(services[j], services[i])
    <3> TAKE j \in 1..(i - 1)
    <3>1. j \in 1..Len(services) /\ ~(i <= j)
      BY <1>4, <2>5
    <3>2. ~SameBackend(services[j], b)
      BY <2>5, <3>1
    <3> QED BY <2>5, <3>2 DEF SameBackend
  <2>7. i \in ToSet(firsts)
    BY <1>5, <1>8, <1>9, <2>5, <2>6
  <2>8. PICK n \in 1..Len(firsts) : firsts[n] = i
    BY <1>10, <2>7
  <2>9. services[i] \in ToSet(refs)
    BY <1>11, <1>13, <2>8
  <2> QED BY <2>5, <2>9
<1>16. \A k, l \in 1..Len(refs) : SameBackend(refs[k], refs[l]) => k = l
  <2>1. Len(refs) = Len(firsts)
    BY <1>10, <1>11, Tabulated
  <2>2. ASSUME NEW k \in 1..Len(firsts), NEW l \in 1..Len(firsts), SameBackend(refs[k], refs[l])
        PROVE  k = l
    <3>1. SameBackend(services[firsts[k]], services[firsts[l]])
      BY <1>11, <2>2
    <3>2. SameBackend(services[firsts[l]], services[firsts[k]])
      BY <3>1 DEF SameBackend
    <3>3. ~(k < l) /\ ~(l < k)
      BY <1>order, <3>1, <3>2
    <3> QED BY <1>10, <3>3
  <2> QED BY <2>1, <2>2
<1> QED BY <1>1, <1>12, <1>14, <1>15, <1>16 DEF named

\* A Service some collected rule names is one whose endpoints are lists.
LEMMA RefsBacked ==
  ASSUME Snapshot, NEW c \in ToSet(CollectedRules), NEW d \in ToSet(c.rule.backends)
  PROVE  Backed(Backing[d.service])
<1>1. c.of.route \in RouteSpecs /\ c.rule \in ToSet(c.of.route.rules)
  BY CollectedRulesProper
<1> QED BY <1>1, BackingAssumption DEF Backed

LEMMA WeightedElements ==
  ASSUME NEW b, Backed(Backing[b.service])
  PROVE  /\ IsSeq(WeightedEndpoints(b))
         /\ \A ip : (\E e \in ToSet(WeightedEndpoints(b)) : e.address.ip = ip)
                      <=> ip \in ReadyIPs(Backing[b.service])
<1> DEFINE as    == ResolveEndpoints(Backing[b.service], b.port)
           of(a) == [address |-> a, weight |-> Weight(b)]
           es    == WeightedEndpoints(b)
<1>1. /\ IsSeq(as)
      /\ \A ip : ip \in ReadyIPs(Backing[b.service]) <=> \E a \in ToSet(as) : a.ip = ip
  BY ResolvedAddresses
<1>2. es = [i \in DOMAIN as |-> of(as[i])]
  BY DEF WeightedEndpoints
<1>3. \A a : of(a).address = a
  OBVIOUS
<1> HIDE DEF as, of, es
<1>4. /\ Len(as) \in Nat /\ DOMAIN as = 1..Len(as)
      /\ \A a : a \in ToSet(as) <=> \E i \in 1..Len(as) : as[i] = a
  BY <1>1, IsSeqFacts
<1>5. /\ es = [i \in 1..Len(as) |-> es[i]]
      /\ \A i \in 1..Len(as) : es[i] = of(as[i])
  BY <1>2, <1>4
<1>6. IsSeq(es) /\ DOMAIN es = 1..Len(as)
  BY <1>4, <1>5, Tabulated
<1>7. \A e : e \in ToSet(es) <=> \E i \in 1..Len(as) : es[i] = e
  BY <1>6 DEF ToSet
<1>8. ASSUME NEW e \in ToSet(es) PROVE e.address \in ToSet(as)
  <2>1. PICK i \in 1..Len(as) : es[i] = e
    BY <1>7
  <2>2. e.address = as[i]
    BY <1>3, <1>5, <2>1
  <2> QED BY <1>4, <2>2
<1>9. ASSUME NEW a \in ToSet(as) PROVE \E e \in ToSet(es) : e.address = a
  BY <1>3, <1>4, <1>5, <1>7
<1> QED BY <1>1, <1>6, <1>8, <1>9 DEF es

\* The addresses of a cluster are those of the backends it was made of.
LEMMA ClusterElements ==
  ASSUME Snapshot, NEW name, \E r \in ToSet(BackendRefs) : r.cluster = name
  PROVE  \A ip : ip \in Addresses(ResolveClusters[name]) <=>
           \E r \in ToSet(BackendRefs) :
             r.cluster = name /\ ip \in ReadyIPs(Backing[r.service])
<1> DEFINE refs == BackendRefs
           T    == {b \in ToSet(refs) : b.cluster = name}
           mine == Only(refs, T)
           all  == [i \in DOMAIN mine |-> WeightedEndpoints(mine[i])]
<1>1. IsSeq(refs) /\ \A r \in ToSet(refs) : Backed(Backing[r.service])
  <2>1. IsSeq(refs) /\ \A r \in ToSet(refs) : r \in ToSet(AllBackends)
    BY BackendRefsElements
  <2>2. ASSUME NEW r \in ToSet(refs) PROVE Backed(Backing[r.service])
    <3>1. PICK c \in ToSet(CollectedRules) : BackendOf(r, c)
      BY <2>1, AllBackendsElements
    <3>2. PICK d \in ToSet(c.rule.backends) : r = InCluster(d, MergedClusterName(c.rule))
      BY <3>1 DEF BackendOf
    <3>3. r.service = d.service
      BY <3>2, BackendFields
    <3> QED BY <3>3, RefsBacked
  <2> QED BY <2>1, <2>2
<1>2. DOMAIN refs = 1..Len(refs) /\ \A r : r \in ToSet(refs) <=> \E i \in 1..Len(refs) : refs[i] = r
  BY <1>1, IsSeqFacts
<1>3. ResolveClusters[name] = FlattenSeq(all)
  <2>1. name \in {refs[i].cluster : i \in DOMAIN refs}
    <3>1. PICK r \in ToSet(refs) : r.cluster = name
      OBVIOUS
    <3> HIDE DEF refs
    <3> QED BY <1>2, <3>1
  <2> QED BY <2>1 DEF ResolveClusters, ClustersOf
<1> HIDE DEF refs
<1>4. \A r : r \in T <=> r \in ToSet(refs) /\ r.cluster = name
  OBVIOUS
<1> HIDE DEF T
<1>5. IsSeq(mine) /\ \A r : r \in ToSet(mine) <=> r \in ToSet(refs) /\ r.cluster = name
  BY <1>1, <1>4, OnlyElements
<1> HIDE DEF mine
<1>6. /\ Len(mine) \in Nat /\ DOMAIN mine = 1..Len(mine)
      /\ \A r : r \in ToSet(mine) <=> \E i \in 1..Len(mine) : mine[i] = r
  BY <1>5, IsSeqFacts
<1>7. /\ all = [i \in 1..Len(mine) |-> all[i]]
      /\ \A i \in 1..Len(mine) : all[i] = WeightedEndpoints(mine[i])
  BY <1>6
<1> HIDE DEF all
<1>8. IsSeq(all) /\ Len(all) = Len(mine)
  BY <1>6, <1>7, Tabulated
<1>9. \A i \in 1..Len(all) :
        /\ IsSeq(all[i])
        /\ \A ip : (\E e \in ToSet(all[i]) : e.address.ip = ip)
                     <=> ip \in ReadyIPs(Backing[mine[i].service])
  <2> TAKE i \in 1..Len(all)
  <2>1. Backed(Backing[mine[i].service])
    BY <1>1, <1>5, <1>6, <1>8
  <2>2. all[i] = WeightedEndpoints(mine[i])
    BY <1>7, <1>8
  <2>3. /\ IsSeq(WeightedEndpoints(mine[i]))
        /\ \A ip : (\E e \in ToSet(WeightedEndpoints(mine[i])) : e.address.ip = ip)
                     <=> ip \in ReadyIPs(Backing[mine[i].service])
    BY <2>1, WeightedElements
  <2> QED BY <2>2, <2>3
<1>10. \A e : e \in ToSet(FlattenSeq(all)) <=> \E i \in 1..Len(all) : e \in ToSet(all[i])
  BY <1>8, <1>9, FlattenElements
<1>11. \A ip : ip \in Addresses(ResolveClusters[name]) <=>
         \E i \in 1..Len(all) : ip \in ReadyIPs(Backing[mine[i].service])
  <2>1. \A ip : ip \in Addresses(ResolveClusters[name])
                  <=> \E e \in ToSet(FlattenSeq(all)) : e.address.ip = ip
    BY <1>3 DEF Addresses
  <2>2. ASSUME NEW e \in ToSet(FlattenSeq(all))
        PROVE  \E i \in 1..Len(all) : e.address.ip \in ReadyIPs(Backing[mine[i].service])
    BY <1>9, <1>10
  <2>3. ASSUME NEW i \in 1..Len(all), NEW ip \in ReadyIPs(Backing[mine[i].service])
        PROVE  \E e \in ToSet(FlattenSeq(all)) : e.address.ip = ip
    <3>1. PICK e \in ToSet(all[i]) : e.address.ip = ip
      BY <1>9
    <3> QED BY <1>10, <3>1
  <2>4. ASSUME NEW ip, ip \in Addresses(ResolveClusters[name])
        PROVE  \E i \in 1..Len(all) : ip \in ReadyIPs(Backing[mine[i].service])
    <3>1. PICK e \in ToSet(FlattenSeq(all)) : e.address.ip = ip
      BY <2>1, <2>4
    <3> QED BY <2>2, <3>1
  <2>5. ASSUME NEW ip, NEW i \in 1..Len(all), ip \in ReadyIPs(Backing[mine[i].service])
        PROVE  ip \in Addresses(ResolveClusters[name])
    BY <2>1, <2>3, <2>5
  <2> QED BY <2>4, <2>5
<1> QED BY <1>5, <1>6, <1>8, <1>11 DEF refs

\* Rules with one cluster name have the same Services on the same ports.
LEMMA SameNameSameServices ==
  ASSUME NEW rule, NEW other, MergedClusterName(rule) = MergedClusterName(other),
         IsSeq(rule.backends), IsSeq(other.backends), NEW d \in ToSet(other.backends)
  PROVE  \E b \in ToSet(rule.backends) : b.service = d.service /\ b.port = d.port
<1> DEFINE n(r) == MergedClusterName(r)
<1>1. /\ DOMAIN n(rule) = DOMAIN rule.backends /\ DOMAIN n(other) = DOMAIN other.backends
      /\ \A i \in DOMAIN rule.backends :
           n(rule)[i] = <<rule.backends[i].service, rule.backends[i].port>>
      /\ \A i \in DOMAIN other.backends :
           n(other)[i] = <<other.backends[i].service, other.backends[i].port>>
  BY DEF MergedClusterName
<1>2. PICK i \in DOMAIN other.backends : other.backends[i] = d
  BY DEF ToSet
<1>3. i \in DOMAIN rule.backends /\ n(rule)[i] = n(other)[i]
  BY <1>1, <1>2
<1>4. rule.backends[i] \in ToSet(rule.backends)
  BY <1>3 DEF ToSet
<1>5. <<rule.backends[i].service, rule.backends[i].port>> = <<d.service, d.port>>
  BY <1>1, <1>2, <1>3
<1> QED BY <1>4, <1>5

\* A Service of a collected rule is referred to in the rule's cluster, and
\* what the cluster refers to is among the backends of the rule.
LEMMA ServiceReferred ==
  ASSUME Snapshot, NEW c \in ToSet(CollectedRules), NEW b \in ServiceBackends(c.rule)
  PROVE  \E r \in ToSet(BackendRefs) :
           r.cluster = MergedClusterName(c.rule) /\ r.service = b.service
<1> DEFINE name == MergedClusterName(c.rule)
           n    == InCluster(b, name)
<1>0. b \in ToSet(c.rule.backends) /\ b.kind = "Service"
  BY DEF ServiceBackends
<1>1. n.kind = "Service" /\ n.service = b.service /\ n.cluster = name
  BY <1>0, BackendFields
<1>2. BackendOf(n, c)
  BY <1>0 DEF BackendOf
<1>3. n \in ToSet(AllBackends)
  BY <1>2, AllBackendsElements
<1> HIDE DEF n
<1>4. PICK r \in ToSet(BackendRefs) : SameBackend(r, n)
  BY <1>1, <1>3, BackendRefsElements
<1>5. r.cluster = n.cluster /\ r.service = n.service
  BY <1>4 DEF SameBackend
<1> QED BY <1>1, <1>5

LEMMA ReferredNamed ==
  ASSUME Snapshot, NEW c \in ToSet(CollectedRules), NEW r \in ToSet(BackendRefs),
         r.cluster = MergedClusterName(c.rule)
  PROVE  \E b \in ToSet(c.rule.backends) : b.service = r.service /\ b.port = r.port
<1>1. PICK o \in ToSet(CollectedRules) : BackendOf(r, o)
  BY BackendRefsElements, AllBackendsElements
<1>2. PICK d \in ToSet(o.rule.backends) : r = InCluster(d, MergedClusterName(o.rule))
  BY <1>1 DEF BackendOf
<1>3. MergedClusterName(o.rule) = MergedClusterName(c.rule) /\ r.service = d.service /\ r.port = d.port
  BY <1>2, BackendFields
<1>4. IsSeq(c.rule.backends) /\ IsSeq(o.rule.backends)
  BY CollectedRulesProper DEF ProperRule
<1> QED BY <1>3, <1>4, SameNameSameServices

LEMMA SnapshotClusters == Snapshot => ClusterHoldsItsBackends
<1> SUFFICES ASSUME Snapshot, NEW c \in ToSet(CollectedRules), ServiceBackends(c.rule) # {}
             PROVE  LET held == Addresses(ResolveClusters[MergedClusterName(c.rule)])
                    IN  /\ UNION {ReadyIPs(Backing[b.service]) : b \in ServiceBackends(c.rule)}
                             \subseteq held
                        /\ held \subseteq
                             UNION {ReadyIPs(Backing[b.service]) : b \in ToSet(c.rule.backends)}
  BY DEF ClusterHoldsItsBackends
<1> DEFINE name == MergedClusterName(c.rule)
           held == Addresses(ResolveClusters[name])
<1>1. \A b \in ServiceBackends(c.rule) : b \in ToSet(c.rule.backends) /\ b.kind = "Service"
  BY DEF ServiceBackends
<1>2. ASSUME NEW b \in ServiceBackends(c.rule)
      PROVE  \E r \in ToSet(BackendRefs) : r.cluster = name /\ r.service = b.service
  BY ServiceReferred
<1>3. \E r \in ToSet(BackendRefs) : r.cluster = name
  BY <1>2
<1>4. \A ip : ip \in held <=>
        \E r \in ToSet(BackendRefs) : r.cluster = name /\ ip \in ReadyIPs(Backing[r.service])
  BY <1>3, ClusterElements
<1>5. ASSUME NEW r \in ToSet(BackendRefs), r.cluster = name
      PROVE  \E b \in ToSet(c.rule.backends) : b.service = r.service
  BY <1>5, ReferredNamed
<1> HIDE DEF held
<1>6. ASSUME NEW b \in ServiceBackends(c.rule), NEW ip \in ReadyIPs(Backing[b.service])
      PROVE  ip \in held
  BY <1>2, <1>4
<1>7. ASSUME NEW ip \in held
      PROVE  \E b \in ToSet(c.rule.backends) : ip \in ReadyIPs(Backing[b.service])
  BY <1>4, <1>5
<1> QED BY <1>6, <1>7 DEF held

\* In every snapshot the cluster of a rule has the ready addresses of the
\* Services the rule names, all of them and no others.
THEOREM ClustersAlwaysHold == Spec => []ClusterHoldsItsBackends
<1> QED BY SnapshotHolds, SnapshotClusters, PTL

\* No Service and port resolves to one address twice.
AddressesListedOnce ==
  \A r \in RouteSpecs : \A rule \in ToSet(r.rules) : \A b \in ToSet(rule.backends) :
    LET as == ResolveEndpoints(Backing[b.service], b.port)
    IN  \A i, j \in DOMAIN as : as[i].ip = as[j].ip => i = j

LEMMA WeightedPlaces ==
  ASSUME NEW b, Backed(Backing[b.service])
  PROVE  LET as == ResolveEndpoints(Backing[b.service], b.port)
             es == WeightedEndpoints(b)
         IN  /\ Len(es) \in Nat /\ Len(es) = Len(as) /\ DOMAIN as = 1..Len(as)
             /\ \A i \in 1..Len(es) :
                  /\ es[i].address.ip = as[i].ip
                  /\ as[i].ip \in ReadyIPs(Backing[b.service])
<1> DEFINE as    == ResolveEndpoints(Backing[b.service], b.port)
           of(a) == [address |-> a, weight |-> Weight(b)]
           es    == WeightedEndpoints(b)
<1>1. /\ IsSeq(as)
      /\ \A ip : ip \in ReadyIPs(Backing[b.service]) <=> \E a \in ToSet(as) : a.ip = ip
  BY ResolvedAddresses
<1>2. es = [i \in DOMAIN as |-> of(as[i])]
  BY DEF WeightedEndpoints
<1>3. \A a : of(a).address = a
  OBVIOUS
<1> HIDE DEF as, of, es
<1>4. /\ Len(as) \in Nat /\ DOMAIN as = 1..Len(as)
      /\ \A a : a \in ToSet(as) <=> \E i \in 1..Len(as) : as[i] = a
  BY <1>1, IsSeqFacts
<1>5. /\ es = [i \in 1..Len(as) |-> es[i]]
      /\ \A i \in 1..Len(as) : es[i] = of(as[i])
  BY <1>2, <1>4
<1>6. Len(es) = Len(as)
  BY <1>4, <1>5, Tabulated
<1>7. \A i \in 1..Len(as) :
        /\ es[i].address.ip = as[i].ip
        /\ as[i].ip \in ReadyIPs(Backing[b.service])
  BY <1>1, <1>3, <1>4, <1>5
<1> QED BY <1>4, <1>6, <1>7 DEF as, es

\* Every place of a cluster is that of an address of one of the backends, and
\* no two places are for the same.
LEMMA ClusterPlaces ==
  ASSUME Snapshot, AddressesListedOnce, NEW name,
         \E r \in ToSet(BackendRefs) : r.cluster = name
  PROVE  LET held == ResolveClusters[name]
         IN  /\ Len(held) \in Nat /\ DOMAIN held = 1..Len(held)
             /\ \E of \in [1..Len(held) -> {r \in ToSet(BackendRefs) : r.cluster = name}] :
                  /\ \A k \in 1..Len(held) : held[k].address.ip \in ReadyIPs(Backing[of[k].service])
                  /\ \A k, l \in 1..Len(held) :
                       SameBackend(of[k], of[l]) /\ held[k].address.ip = held[l].address.ip => k = l
<1> DEFINE refs == BackendRefs
           T    == {b \in ToSet(refs) : b.cluster = name}
           mine == Only(refs, T)
           all  == [i \in DOMAIN mine |-> WeightedEndpoints(mine[i])]
           held == ResolveClusters[name]
<1>1. /\ IsSeq(refs)
      /\ \A k, l \in 1..Len(refs) : SameBackend(refs[k], refs[l]) => k = l
      /\ \A r \in ToSet(refs) :
           /\ Backed(Backing[r.service])
           /\ LET as == ResolveEndpoints(Backing[r.service], r.port)
              IN  \A i, j \in DOMAIN as : as[i].ip = as[j].ip => i = j
  <2>1. /\ IsSeq(refs) /\ \A r \in ToSet(refs) : r \in ToSet(AllBackends)
        /\ \A k, l \in 1..Len(refs) : SameBackend(refs[k], refs[l]) => k = l
    BY BackendRefsElements
  <2>2. ASSUME NEW r \in ToSet(refs)
        PROVE  /\ Backed(Backing[r.service])
               /\ LET as == ResolveEndpoints(Backing[r.service], r.port)
                  IN  \A i, j \in DOMAIN as : as[i].ip = as[j].ip => i = j
    <3>1. PICK c \in ToSet(CollectedRules) : BackendOf(r, c)
      BY <2>1, AllBackendsElements
    <3>2. PICK d \in ToSet(c.rule.backends) : r = InCluster(d, MergedClusterName(c.rule))
      BY <3>1 DEF BackendOf
    <3>3. r.service = d.service /\ r.port = d.port
      BY <3>2, BackendFields
    <3>4. c.of.route \in RouteSpecs /\ c.rule \in ToSet(c.of.route.rules)
      BY CollectedRulesProper
    <3> QED BY <3>3, <3>4, RefsBacked DEF AddressesListedOnce
  <2> QED BY <2>1, <2>2
<1>2. DOMAIN refs = 1..Len(refs) /\ \A r : r \in ToSet(refs) <=> \E i \in 1..Len(refs) : refs[i] = r
  BY <1>1, IsSeqFacts
<1>3. held = FlattenSeq(all)
  <2>1. name \in {refs[i].cluster : i \in DOMAIN refs}
    <3>1. PICK r \in ToSet(refs) : r.cluster = name
      OBVIOUS
    <3> HIDE DEF refs
    <3> QED BY <1>2, <3>1
  <2> QED BY <2>1 DEF ResolveClusters, ClustersOf
<1> HIDE DEF refs, held
<1>4. \A r : r \in T <=> r \in ToSet(refs) /\ r.cluster = name
  OBVIOUS
<1> HIDE DEF T
<1>5. IsSeq(mine) /\ \A r : r \in ToSet(mine) <=> r \in T
  BY <1>1, <1>4, OnlyElements
<1>6. \A i, j \in 1..Len(mine) : SameBackend(mine[i], mine[j]) => i = j
  <2>0. Len(mine) \in Nat /\ Len(refs) \in Nat
    BY <1>1, <1>5, IsSeqFacts
  <2>1. ASSUME NEW i \in 1..Len(mine), NEW j \in 1..Len(mine), i < j
        PROVE  ~SameBackend(mine[i], mine[j]) /\ ~SameBackend(mine[j], mine[i])
    <3>1. PICK a, b \in 1..Len(refs) : a < b /\ mine[i] = refs[a] /\ mine[j] = refs[b]
      BY <1>1, <2>1, OnlyOrder
    <3>2. a # b
      BY <2>0, <3>1
    <3> QED BY <1>1, <3>1, <3>2
  <2>2. \A i, j \in 1..Len(mine) : i < j \/ j < i \/ i = j
    BY <2>0
  <2> QED BY <2>1, <2>2
<1> HIDE DEF mine
<1>7. /\ Len(mine) \in Nat /\ DOMAIN mine = 1..Len(mine)
      /\ \A i \in 1..Len(mine) : mine[i] \in T
  BY <1>5, IsSeqFacts
<1>8. /\ all = [i \in 1..Len(mine) |-> all[i]]
      /\ \A i \in 1..Len(mine) : all[i] = WeightedEndpoints(mine[i])
  BY <1>7
<1> HIDE DEF all
<1>9. IsSeq(all) /\ Len(all) = Len(mine)
  BY <1>7, <1>8, Tabulated
<1>10. \A i \in 1..Len(mine) :
         /\ IsSeq(all[i])
         /\ \A k \in 1..Len(all[i]) :
              all[i][k].address.ip \in ReadyIPs(Backing[mine[i].service])
         /\ \A k, l \in 1..Len(all[i]) :
              all[i][k].address.ip = all[i][l].address.ip => k = l
  <2> TAKE i \in 1..Len(mine)
  <2> DEFINE as == ResolveEndpoints(Backing[mine[i].service], mine[i].port)
             es == WeightedEndpoints(mine[i])
  <2>1. /\ Backed(Backing[mine[i].service])
        /\ \A k, l \in DOMAIN as : as[k].ip = as[l].ip => k = l
    BY <1>1, <1>4, <1>7
  <2>2. /\ Len(es) = Len(as) /\ DOMAIN as = 1..Len(as)
        /\ \A k \in 1..Len(es) :
             /\ es[k].address.ip = as[k].ip
             /\ as[k].ip \in ReadyIPs(Backing[mine[i].service])
    BY <2>1, WeightedPlaces
  <2>3. IsSeq(es)
    BY <2>1, WeightedElements
  <2> HIDE DEF as, es
  <2>4. \A k \in 1..Len(es) : es[k].address.ip \in ReadyIPs(Backing[mine[i].service])
    BY <2>2
  <2>5. \A k, l \in 1..Len(es) : es[k].address.ip = es[l].address.ip => k = l
    BY <2>1, <2>2
  <2>6. all[i] = es
    BY <1>8 DEF es
  <2> QED BY <2>3, <2>4, <2>5, <2>6
<1>11. PICK b, o : FlatPlaces(b, o, held, all, Len(all))
  BY <1>3, <1>9, <1>10, FlattenPlaces
<1>12. IsSeq(held)
  BY <1>3, <1>9, <1>10, FlattenElements
<1>13. Len(held) \in Nat /\ DOMAIN held = 1..Len(held)
  BY <1>12, IsSeqFacts
<1>14. /\ \A k \in 1..Len(held) :
            /\ b[k] \in 1..Len(mine) /\ o[k] \in 1..Len(all[b[k]])
            /\ held[k] = all[b[k]][o[k]]
       /\ \A k, l \in 1..Len(held) : b[k] = b[l] /\ o[k] = o[l] => k = l
  BY <1>9, <1>11 DEF FlatPlaces
<1> DEFINE of == [k \in 1..Len(held) |-> mine[b[k]]]
<1>15. of \in [1..Len(held) -> T] /\ \A k \in 1..Len(held) : of[k] = mine[b[k]]
  BY <1>7, <1>14
<1> HIDE DEF of
<1>16. ASSUME NEW k \in 1..Len(held)
       PROVE  held[k].address.ip \in ReadyIPs(Backing[of[k].service])
  <2>1. held[k] = all[b[k]][o[k]] /\ of[k] = mine[b[k]]
    BY <1>14, <1>15
  <2>2. b[k] \in 1..Len(mine) /\ o[k] \in 1..Len(all[b[k]])
    BY <1>14
  <2>3. all[b[k]][o[k]].address.ip \in ReadyIPs(Backing[mine[b[k]].service])
    BY <1>10, <2>2
  <2> QED BY <2>1, <2>3
<1>17. ASSUME NEW k \in 1..Len(held), NEW l \in 1..Len(held), SameBackend(of[k], of[l]),
              held[k].address.ip = held[l].address.ip
       PROVE  k = l
  <2>1. b[k] = b[l]
    BY <1>6, <1>14, <1>15, <1>17
  <2>2. /\ o[k] \in 1..Len(all[b[k]]) /\ o[l] \in 1..Len(all[b[k]])
        /\ all[b[k]][o[k]].address.ip = all[b[k]][o[l]].address.ip
    BY <1>14, <1>17, <2>1
  <2>3. o[k] = o[l]
    BY <1>10, <1>14, <2>2
  <2> QED BY <1>14, <2>1, <2>3
<1> QED BY <1>13, <1>15, <1>16, <1>17 DEF T, held, refs

LEMMA NamesFinite ==
  ASSUME NEW rule, IsSeq(rule.backends)
  PROVE  IsFiniteSet(ToSet(MergedClusterName(rule)))
<1> DEFINE n == MergedClusterName(rule)
           D == 1..Len(rule.backends)
<1>1. Len(rule.backends) \in Nat /\ DOMAIN rule.backends = D
  BY IsSeqFacts
<1>2. n = [i \in D |-> <<rule.backends[i].service, rule.backends[i].port>>]
  BY <1>1 DEF MergedClusterName
<1> HIDE DEF n
<1>3. n \in Surjection(D, ToSet(n))
  BY <1>2 DEF Surjection, ToSet
<1>4. IsFiniteSet(D)
  BY <1>1, FS_Interval
<1>5. IsFiniteSet(ToSet(n))
  BY <1>3, <1>4, FS_Surjection
<1> QED BY <1>5 DEF n

LEMMA SnapshotOnce == Snapshot /\ AddressesListedOnce => AddressesHeldOnce
<1> SUFFICES ASSUME Snapshot, AddressesListedOnce,
                    NEW c \in ToSet(CollectedRules), ServiceBackends(c.rule) # {},
                    NEW ip \in Addresses(ResolveClusters[MergedClusterName(c.rule)])
             PROVE  LET held == ResolveClusters[MergedClusterName(c.rule)]
                    IN  Cardinality({i \in DOMAIN held : held[i].address.ip = ip})
                          <= Cardinality({s \in ToSet(MergedClusterName(c.rule)) :
                                            ip \in ReadyIPs(Backing[s[1]])})
  BY DEF AddressesHeldOnce
<1> DEFINE name == MergedClusterName(c.rule)
           held == ResolveClusters[name]
           I    == {i \in DOMAIN held : held[i].address.ip = ip}
           S    == {s \in ToSet(name) : ip \in ReadyIPs(Backing[s[1]])}
           R    == {r \in ToSet(BackendRefs) : r.cluster = name}
<1>1. \E r \in ToSet(BackendRefs) : r.cluster = name
  BY ServiceReferred
<1>2. /\ Len(held) \in Nat /\ DOMAIN held = 1..Len(held)
      /\ \E of \in [1..Len(held) -> R] :
           /\ \A k \in 1..Len(held) : held[k].address.ip \in ReadyIPs(Backing[of[k].service])
           /\ \A k, l \in 1..Len(held) :
                SameBackend(of[k], of[l]) /\ held[k].address.ip = held[l].address.ip => k = l
  BY <1>1, ClusterPlaces
<1>3. PICK of \in [1..Len(held) -> R] :
        /\ \A k \in 1..Len(held) : held[k].address.ip \in ReadyIPs(Backing[of[k].service])
        /\ \A k, l \in 1..Len(held) :
             SameBackend(of[k], of[l]) /\ held[k].address.ip = held[l].address.ip => k = l
  BY <1>2
<1>4. \A r \in R : <<r.service, r.port>> \in ToSet(name)
  <2> TAKE r \in R
  <2>1. PICK b \in ToSet(c.rule.backends) : b.service = r.service /\ b.port = r.port
    BY ReferredNamed
  <2>2. PICK i \in DOMAIN c.rule.backends : c.rule.backends[i] = b
    BY DEF ToSet
  <2>3. i \in DOMAIN name /\ name[i] = <<b.service, b.port>>
    BY <2>2 DEF MergedClusterName
  <2> HIDE DEF name
  <2> QED BY <2>1, <2>3 DEF ToSet
<1>5. \A k \in I : k \in 1..Len(held) /\ held[k].address.ip = ip
  BY <1>2
<1>6. \A r \in R : r.cluster = name
  OBVIOUS
<1>7. IsFiniteSet(ToSet(name))
  <2>1. IsSeq(c.rule.backends)
    BY CollectedRulesProper DEF ProperRule
  <2> QED BY <2>1, NamesFinite
<1> DEFINE g == [k \in I |-> <<of[k].service, of[k].port>>]
<1> HIDE DEF name, held, I, R
<1>8. \A s : s \in S <=> s \in ToSet(name) /\ ip \in ReadyIPs(Backing[s[1]])
  OBVIOUS
<1>9. IsFiniteSet(S)
  <2>1. S \in SUBSET ToSet(name)
    OBVIOUS
  <2> HIDE DEF S
  <2> QED BY <1>7, <2>1, FS_Subset
<1> HIDE DEF S
<1>10. \A k \in I : g[k] \in S
  <2> TAKE k \in I
  <2>1. of[k] \in R /\ ip \in ReadyIPs(Backing[of[k].service])
    BY <1>3, <1>5
  <2>2. <<of[k].service, of[k].port>>[1] = of[k].service
    OBVIOUS
  <2> QED BY <1>4, <1>8, <2>1, <2>2
<1>11. ASSUME NEW k \in I, NEW l \in I, g[k] = g[l] PROVE k = l
  <2>1. of[k].service = of[l].service /\ of[k].port = of[l].port
    BY <1>11
  <2>2. of[k].cluster = of[l].cluster
    BY <1>3, <1>5, <1>6
  <2>3. SameBackend(of[k], of[l])
    BY <2>1, <2>2 DEF SameBackend
  <2> QED BY <1>3, <1>5, <2>3
<1>12. g \in Injection(I, S)
  <2>1. g \in [I -> S]
    BY <1>10
  <2> HIDE DEF g
  <2> QED BY <1>11, <2>1 DEF Injection, IsInjective
<1>13. Cardinality(I) <= Cardinality(S)
  BY <1>9, <1>12, FS_Injection
<1> QED BY <1>13 DEF I, S, held, name

\* In every snapshot, if no Service and port resolves to one address twice, a
\* cluster has an address once for each of its Services and ports that has it.
THEOREM AddressesAlwaysOnce == AddressesListedOnce => (Spec => []AddressesHeldOnce)
<1> SUFFICES ASSUME AddressesListedOnce PROVE Spec => []AddressesHeldOnce
  OBVIOUS
<1>1. Snapshot => AddressesHeldOnce
  BY SnapshotOnce
<1> QED BY <1>1, SnapshotHolds, PTL
=============================================================================
