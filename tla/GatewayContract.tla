---------------------------- MODULE GatewayContract ----------------------------
(***************************************************************************)
(* What a user of one Gateway key is promised, whatever the processes, the *)
(* caches and the faults behind it: what runs and what is acknowledged     *)
(* belongs to the Gateway that is there, generations only move forward,    *)
(* and nothing is called programmed before it is.                          *)
(***************************************************************************)
EXTENDS Naturals

CONSTANT Parts   \* what a Gateway is made of in the cluster

VARIABLES
    last,     \* uid of the latest incarnation
    live,     \* uid of the Gateway that is there, or 0
    want,     \* generation of its spec
    applied,  \* [Parts -> owner and generation that was applied]
    ack       \* the generation its status speaks of, and what it says

vars == <<last, live, want, applied, ack>>

Unapplied == [uid |-> 0, gen |-> 0]
Unacknowledged == [uid |-> 0, gen |-> 0, verdict |-> "none"]

Init ==
    /\ last = 0 /\ live = 0 /\ want = 0
    /\ applied = [p \in Parts |-> Unapplied]
    /\ ack = Unacknowledged

Create ==
    /\ live = 0
    /\ last' = last + 1 /\ live' = last' /\ want' = 1
    /\ UNCHANGED <<applied, ack>>

Edit ==
    /\ live > 0
    /\ want' = want + 1
    /\ UNCHANGED <<last, live, applied, ack>>

\* The status goes with the object; the parts are collected later.
Vanish ==
    /\ live' = 0 /\ want' = 0 /\ ack' = Unacknowledged
    /\ UNCHANGED <<last, applied>>

\* A part is only ever applied for the Gateway that is there, from a spec it
\* has or had, and never from an older one than before.
Apply(p) ==
    /\ live > 0
    /\ applied' = [applied EXCEPT ![p] = applied'[p]]
    /\ applied'[p].uid = live
    /\ applied'[p].gen <= want
    /\ applied[p].uid = live => applied[p].gen <= applied'[p].gen
    /\ UNCHANGED <<last, live, want, ack>>

Drop(p) ==
    /\ applied' = [applied EXCEPT ![p] = Unapplied]
    /\ UNCHANGED <<last, live, want, ack>>

\* An acknowledgement is of the Gateway that is there, never of an older spec
\* than the last one; the verdict on a spec is final; and a spec is called
\* programmed only when no part is there from an older one or another owner.
Acknowledge ==
    /\ live > 0
    /\ ack'.uid = live
    /\ ack.gen <= ack'.gen /\ ack'.gen <= want
    /\ ack'.gen = ack.gen => ack'.verdict = ack.verdict
    /\ ack'.verdict = "programmed" =>
          \A p \in Parts : \/ applied[p] = Unapplied
                           \/ applied[p].uid = live /\ applied[p].gen >= ack'.gen
    /\ UNCHANGED <<last, live, want, applied>>

Next ==
    \/ Create \/ Edit \/ Vanish \/ Acknowledge
    \/ \E p \in Parts : Apply(p) \/ Drop(p)

Spec == Init /\ [][Next]_vars
================================================================================
