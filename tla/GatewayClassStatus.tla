------------------------- MODULE GatewayClassStatus -------------------------
(***************************************************************************)
(* The GatewayClass controller (gateway_class.rs) on one name: it accepts  *)
(* the classes of this controller, and leaves the others alone, by a patch *)
(* that names the class and no incarnation of it.  A class is the          *)
(* controller's or not for as long as it lives; it may be deleted, and     *)
(* another one created under its name, at any moment.                      *)
(***************************************************************************)
EXTENDS Naturals

CONSTANTS MaxLives, MaxGeneration, MaxFaults   \* bounds

\* An object has a generation from the start.
ASSUME BoundsAssumption ==
  MaxLives \in Nat /\ MaxGeneration \in Nat \ {0} /\ MaxFaults \in Nat

VARIABLES
  class,    \* the object: [life, gen, ours], life 0 when there is none
  lives,    \* incarnations so far
  accepted, \* generation the class's status accepts, 0 for none
  faults,
  event,    \* the object changed and the watch has not delivered it yet
  cache,    \* the store's copy of the object
  queue,    \* "idle", "now", or "in30" after a failed reconciliation
  pc, snap  \* where the reconciliation is, and the object it works on

vars == <<class, lives, accepted, faults, event, cache, queue, pc, snap>>

NoClass == [life |-> 0, gen |-> 0, ours |-> FALSE]

Init ==
  /\ class = NoClass /\ lives = 0 /\ accepted = 0 /\ faults = 0
  /\ event = FALSE /\ cache = NoClass /\ queue = "idle"
  /\ pc = "idle" /\ snap = NoClass

-----------------------------------------------------------------------------
(* The runner and the reconciliation.                                      *)

Watch ==
  /\ event
  /\ event' = FALSE /\ cache' = class
  /\ queue' = IF class.life = 0 THEN queue ELSE "now"
  /\ UNCHANGED <<class, lives, accepted, faults, pc, snap>>

\* A mistake the runs must notice: whose the class is is not asked.
IsOurControllerAlways(c) == c.life # 0

IsOurController(c) == c.life # 0 /\ c.ours

\* A key whose object is gone from the store is dropped.
Start ==
  /\ pc = "idle" /\ queue # "idle"
  /\ queue' = "idle" /\ snap' = cache
  /\ pc' = IF IsOurController(cache) THEN "patch" ELSE "idle"
  /\ UNCHANGED <<class, lives, accepted, faults, event, cache>>

\* A mistake the runs must notice: a delay no timer knows.
ErrorPolicyMistaken == queue' = "in60"

\* A mistake the runs must notice: a failed patch is not tried again.
ErrorPolicyForgets == UNCHANGED queue

\* Again in 30 seconds, unless something is due sooner.
ErrorPolicy == queue' = IF queue = "now" THEN "now" ELSE "in30"

\* The condition carries the time, so the same status may be an event again.
Applied ==
  /\ class.life # 0
  /\ accepted' = snap.gen
  /\ event' = TRUE \/ (accepted' = accepted /\ UNCHANGED event)

AcceptGatewayClass ==
  /\ pc = "patch" /\ pc' = "idle"
  /\ \/ Applied /\ UNCHANGED <<queue, faults>>
     \/ class.life = 0 /\ ErrorPolicy /\ UNCHANGED <<accepted, event, faults>>
     \/ /\ faults < MaxFaults /\ faults' = faults + 1
        /\ (Applied \/ UNCHANGED <<accepted, event>>)
        /\ ErrorPolicy
  /\ UNCHANGED <<class, lives, cache, snap>>

\* The process dies and starts again with an empty store.
Crash ==
  /\ faults < MaxFaults /\ faults' = faults + 1
  /\ pc' = "idle" /\ queue' = "idle" /\ cache' = NoClass
  /\ event' = (class.life # 0)
  /\ UNCHANGED <<class, lives, accepted, snap>>

Operator == Watch \/ Start \/ AcceptGatewayClass

-----------------------------------------------------------------------------
(* Users.                                                                  *)

Own == <<faults, cache, queue, pc, snap>>

CreateClass ==
  /\ class.life = 0 /\ lives < MaxLives
  /\ lives' = lives + 1
  /\ \E ours \in BOOLEAN : class' = [life |-> lives', gen |-> 1, ours |-> ours]
  /\ accepted' = 0 /\ event' = TRUE
  /\ UNCHANGED Own

EditClass ==
  /\ class.life # 0 /\ class.gen < MaxGeneration
  /\ class' = [class EXCEPT !.gen = @ + 1]
  /\ event' = TRUE
  /\ UNCHANGED <<lives, accepted, Own>>

DeleteClass ==
  /\ class.life # 0
  /\ class' = NoClass /\ accepted' = 0 /\ event' = TRUE
  /\ UNCHANGED <<lives, Own>>

Next == Operator \/ Crash \/ CreateClass \/ EditClass \/ DeleteClass

\* The watch delivers and the worker of the key goes on.
Fairness == WF_vars(Operator) /\ WF_vars(Watch)

Spec == Init /\ [][Next]_vars /\ Fairness

-----------------------------------------------------------------------------
(* Properties.                                                             *)

Classes == {NoClass} \cup [life : 1..MaxLives, gen : 1..MaxGeneration, ours : BOOLEAN]

TypeOK ==
  /\ class \in Classes /\ cache \in Classes /\ snap \in Classes
  /\ lives \in 0..MaxLives /\ accepted \in 0..MaxGeneration
  /\ faults \in 0..MaxFaults /\ event \in BOOLEAN
  /\ queue \in {"idle", "now", "in30"} /\ pc \in {"idle", "patch"}

\* Another controller's class is accepted in one case only: the
\* reconciliation works on a copy of an earlier class of that name which was
\* this controller's, and its patch by name hits the successor (reconcile).
\* The copy may have been out of date when the reconciliation began, if the
\* deletion had not been delivered, or have become so since.
ForeignAcceptedOnlyByName ==
  [][~class.ours /\ accepted' \notin {accepted, 0} => snap.ours /\ snap.life < class.life]_vars

\* Every class of this controller is in the end, and for good, accepted for
\* its newest generation, although patches fail, lose their reply or hit
\* another incarnation, and the process may die.
EveryClassAccepted ==
  <>[](class.life # 0 /\ class.ours => accepted = class.gen)
=============================================================================
