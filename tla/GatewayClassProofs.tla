------------------------- MODULE GatewayClassProofs -------------------------
(***************************************************************************)
(* The GatewayClass controller is well typed, and accepts no class of      *)
(* another controller but one that took the name of a class of its own,    *)
(* for every number of incarnations, edits and faults.                     *)
(***************************************************************************)
EXTENDS GatewayClassStatus, TLAPS

\* A copy of the object is of the incarnation there is, and then agrees with
\* it on whose it is, or of an earlier one.
Copy(c) == c.life <= lives /\ (c.life = class.life => c.ours = class.ours)

\* The store and the reconciliation hold copies; a reconciliation that goes
\* on to the patch has found its copy to be this controller's.
Lineage ==
  /\ class.life \in {0, lives}
  /\ Copy(cache) /\ Copy(snap)
  /\ pc = "patch" => snap.ours

-----------------------------------------------------------------------------
LEMMA TypeInit == Init => TypeOK
<1> SUFFICES ASSUME Init PROVE TypeOK
  OBVIOUS
<1>1. event \in BOOLEAN
  BY Zenon DEF Init
<1>2. NoClass \in Classes
  BY DEF Classes
<1>3. lives \in 0..MaxLives /\ accepted \in 0..MaxGeneration /\ faults \in 0..MaxFaults
  BY BoundsAssumption DEF Init
<1> QED BY <1>1, <1>2, <1>3 DEF Init, TypeOK

LEMMA OperatorType == ASSUME TypeOK, Operator PROVE TypeOK'
<1>1. CASE Watch
  BY <1>1 DEF Watch, TypeOK
<1>2. CASE Start
  BY <1>2 DEF Start, TypeOK
<1>3. CASE AcceptGatewayClass
  <2>1. accepted' \in 0..MaxGeneration
    BY <1>3, BoundsAssumption DEF AcceptGatewayClass, Applied, TypeOK, Classes, NoClass
  <2>4. event' \in BOOLEAN
    BY <1>3, Zenon DEF AcceptGatewayClass, Applied, TypeOK
  <2>2. faults' \in 0..MaxFaults
    BY <1>3, BoundsAssumption DEF AcceptGatewayClass, TypeOK
  <2>3. queue' \in {"idle", "now", "in30"}
    BY <1>3 DEF AcceptGatewayClass, ErrorPolicy, TypeOK
  <2> QED BY <1>3, <2>1, <2>2, <2>3, <2>4 DEF AcceptGatewayClass, TypeOK
<1> QED BY <1>1, <1>2, <1>3 DEF Operator

LEMMA UserType ==
  ASSUME TypeOK, Crash \/ CreateClass \/ EditClass \/ DeleteClass PROVE TypeOK'
<1>1. CASE Crash
  BY <1>1, BoundsAssumption DEF Crash, TypeOK, Classes
<1>2. CASE CreateClass
  <2>1. lives' \in 1..MaxLives
    BY <1>2, BoundsAssumption DEF CreateClass, TypeOK
  <2>2. class' \in Classes
    BY <1>2, <2>1, BoundsAssumption DEF CreateClass, Classes
  <2> QED BY <1>2, <2>1, <2>2, BoundsAssumption DEF CreateClass, Own, TypeOK
<1>3. CASE EditClass
  <2>1. class \in [life : 1..MaxLives, gen : 1..MaxGeneration, ours : BOOLEAN]
    BY <1>3 DEF EditClass, TypeOK, Classes, NoClass
  <2>2. class' \in Classes
    BY <1>3, <2>1, BoundsAssumption DEF EditClass, Classes
  <2> QED BY <1>3, <2>2 DEF EditClass, Own, TypeOK
<1>4. CASE DeleteClass
  BY <1>4, BoundsAssumption DEF DeleteClass, Own, TypeOK, Classes
<1> QED BY <1>1, <1>2, <1>3, <1>4

LEMMA TypeStep == TypeOK /\ [Next]_vars => TypeOK'
<1>1. ASSUME TypeOK, UNCHANGED vars PROVE TypeOK'
  BY <1>1 DEF vars, TypeOK
<1> QED BY <1>1, OperatorType, UserType DEF Next

\* TypeOK of GatewayClassStatus holds in every state: the runner, the patch
\* and the users keep the class, its status and the queue well formed.
THEOREM TypeCorrect == Spec => []TypeOK
  BY TypeInit, TypeStep, PTL DEF Spec

-----------------------------------------------------------------------------
LEMMA LineageInit == Init => Lineage
  BY DEF Init, Lineage, Copy, NoClass

LEMMA Numbers ==
  ASSUME TypeOK
  PROVE  /\ lives \in Nat /\ class.life \in Nat /\ cache.life \in Nat /\ snap.life \in Nat
         /\ class.life = 0 => class = NoClass
         /\ cache.life = 0 => cache = NoClass
         /\ snap.life = 0 => snap = NoClass
  BY BoundsAssumption DEF TypeOK, Classes, NoClass

LEMMA LineageStep == TypeOK /\ Lineage /\ [Next]_vars => Lineage'
<1> SUFFICES ASSUME TypeOK, Lineage, [Next]_vars PROVE Lineage'
  OBVIOUS
<1> USE Numbers
<1>1. CASE Watch
  BY <1>1 DEF Watch, Lineage, Copy
<1>2. CASE Start
  BY <1>2 DEF Start, IsOurController, Lineage, Copy
<1>3. CASE AcceptGatewayClass
  <2>1. pc' = "idle" /\ UNCHANGED <<class, lives, cache, snap>>
    BY <1>3, Zenon DEF AcceptGatewayClass
  <2> QED BY <2>1 DEF Lineage, Copy
<1>4. CASE Crash
  <2>1. pc' = "idle" /\ UNCHANGED <<class, lives, snap>> /\ cache' = NoClass
    BY <1>4, Zenon DEF Crash
  <2>2. cache'.life = 0 /\ cache'.ours = FALSE
    BY <2>1 DEF NoClass
  <2>3. class.life = 0 => class.ours = FALSE
    BY Numbers DEF NoClass
  <2> QED BY <2>1, <2>2, <2>3 DEF Lineage, Copy
<1>5. CASE CreateClass
  BY <1>5 DEF CreateClass, Own, Lineage, Copy
<1>6. CASE EditClass
  <2>1. class'.life = class.life /\ class'.ours = class.ours
    BY <1>6 DEF EditClass, TypeOK, Classes, NoClass
  <2> QED BY <1>6, <2>1 DEF EditClass, Own, Lineage, Copy
<1>7. CASE DeleteClass
  BY <1>7 DEF DeleteClass, Own, Lineage, Copy, NoClass
<1>8. CASE UNCHANGED vars
  BY <1>8 DEF vars, Lineage, Copy
<1> QED BY <1>1, <1>2, <1>3, <1>4, <1>5, <1>6, <1>7, <1>8 DEF Next, Operator

LEMMA PatchHitsOwnOrSuccessor ==
  ASSUME TypeOK, Lineage, [Next]_vars, ~class.ours, accepted' \notin {accepted, 0}
  PROVE  snap.ours /\ snap.life < class.life
<1>1. AcceptGatewayClass /\ Applied
  BY DEF Next, Operator, Watch, Start, AcceptGatewayClass, Crash, CreateClass, EditClass,
         DeleteClass, Own, vars
<1>2. snap.ours /\ class.life # 0 /\ class.life = lives
  BY <1>1 DEF AcceptGatewayClass, Applied, Lineage
<1>3. snap.life # class.life /\ snap.life <= lives
  BY <1>2 DEF Lineage, Copy
<1> QED BY <1>2, <1>3, Numbers

\* ForeignAcceptedOnlyByName of GatewayClassStatus: accept_gateway_class
\* reaches a class of another controller only from a copy, stale already in the
\* store or since, of an earlier class of this controller under the same name.
THEOREM ForeignLeftAlone == Spec => ForeignAcceptedOnlyByName
<1>1. TypeOK /\ Lineage /\ [Next]_vars =>
        [~class.ours /\ accepted' \notin {accepted, 0} => snap.ours /\ snap.life < class.life]_vars
  BY PatchHitsOwnOrSuccessor
<1>2. Init => TypeOK /\ Lineage
  BY TypeInit, LineageInit
<1> QED BY <1>1, <1>2, TypeStep, LineageStep, PTL DEF Spec, ForeignAcceptedOnlyByName
=============================================================================
