--------------------------- MODULE GatewayInvariant ---------------------------
(***************************************************************************)
(* The inductive invariant behind the safety properties of one Gateway     *)
(* controller process, in four layers, each resting on those before it:    *)
(* how the copies a process holds of the Gateway relate to the one in the  *)
(* API server; how what was written relates to those copies; how it        *)
(* relates to what was read; and which wake-ups are due.                   *)
(***************************************************************************)
EXTENDS GatewayController

\* One process at a time.
SoleOperator == \A p, q \in Operators : p = q

\* A GatewayClass does not come back from another controller.
ClassesStayAway == \A class \in Classes : <<"foreign", class>> \notin ClassMoves

--------------------------------------------------------------------------------
(* The Gateway, its copy in the store and its copy being reconciled.       *)

\* old may be a copy of an earlier state of the incarnation new is a copy of.
Older(old, new) ==
    old.uid = new.uid =>
        /\ old.gen <= new.gen
        /\ old.gen = new.gen => old.kind = new.kind
        /\ old.deleting => new.deleting

\* A copy that carries our finalizer and is not deleted is of the live one.
Held(copy) ==
    copy.uid > 0 /\ copy.fin /\ ~copy.deleting => gw.uid = copy.uid /\ gw.fin

GatewayInv ==
    /\ gw.uid \in {0, births}
    /\ gw.uid = 0 => gw = Absent
    /\ gw.uid > 0 => gw.gen > 0
    /\ gw.deleting => gw.fin

CacheInv(o) ==
    /\ cache[o].uid <= births
    /\ cache[o].uid = 0 => cache[o] = Absent
    /\ cache[o].uid > 0 => cache[o].gen > 0
    /\ Older(cache[o], gw)
    /\ Held(cache[o])
    /\ cache[o].fin /\ gw.fin => gw.uid = cache[o].uid

SnapInv(o) ==
    /\ pc[o] # "idle" =>
          /\ snap[o].uid > 0 /\ snap[o].uid <= births /\ snap[o].gen > 0
          /\ Older(snap[o], gw) /\ Older(snap[o], cache[o])
    /\ pc[o] = "add" =>
          /\ ~snap[o].fin
          /\ cache[o].fin => gw.uid = cache[o].uid /\ gw.fin
    /\ pc[o] = "remove" =>
          /\ snap[o].fin /\ snap[o].deleting
          /\ gw.fin => gw.uid = snap[o].uid
    /\ pc[o] \in ApplyPhases =>
          snap[o].fin /\ ~snap[o].deleting /\ Held(snap[o])

Lifecycle == GatewayInv /\ \A o \in Operators : CacheInv(o) /\ SnapInv(o)

--------------------------------------------------------------------------------
(* What was written, against the Gateway and its copies.                   *)

VerdictOn(kind) == CASE kind = "served" -> "programmed"
                     [] kind = "unserved" -> "invalid"
                     [] kind = "params" -> "rejected"

\* What was written for the incarnation of a copy is not newer than the copy.
ChildBound(child, copy) == child.uid = copy.uid => child.gen <= copy.gen
StatusBound(copy) ==
    status.uid = copy.uid =>
        /\ status.gen <= copy.gen
        /\ status.gen = copy.gen /\ copy.gen > 0 =>
              status.verdict = VerdictOn(copy.kind)
Bounds(copy) ==
    /\ ChildBound(configMap, copy)
    /\ ChildBound(deployment, copy)
    /\ ChildBound(service, copy)
    /\ StatusBound(copy)

ObjectsInv ==
    /\ status.uid \in {0, gw.uid}
    /\ status.uid = 0 => status = NoStatus
    /\ configMap.uid <= births /\ deployment.uid <= births /\ service.uid <= births
    /\ configMap.uid = 0 => configMap = NoConfig
    /\ deployment.uid = 0 => deployment = NoConfig
    /\ service.uid = 0 => service = NoService
    /\ Bounds(gw)

CopiesInv(o) ==
    /\ Bounds(cache[o])
    /\ pc[o] # "idle" => Bounds(snap[o])
    /\ pc[o] = "reject" => snap[o].kind = "params"
    /\ pc[o] \in ApplyPhases \ {"class", "reject"} => snap[o].kind # "params"
    /\ pc[o] \in {"endpoints", "configMap", "deployment", "service"} =>
          snap[o].kind = "served"

Writes == ObjectsInv /\ \A o \in Operators : CopiesInv(o)

--------------------------------------------------------------------------------
(* What was written, against what was read.                                *)

AfterRoutes == ApplyPhases \ {"class", "reject", "routes"}
AfterEndpoints == {"configMap", "deployment", "service"}
AfterConfigMap == {"deployment", "service", "address", "status"}
AfterDeployment == {"service", "address", "status"}
AfterService == {"address", "status"}

\* Reads only move forward, and what was written is not ahead of them.
ReadInv(o, i) ==
    /\ seen[o].ep[i] <= eps
    /\ configMap.ep[i] <= seen[o].ep[i] /\ deployment.ep[i] <= seen[o].ep[i]
ReadsInv(o) ==
    /\ pc[o] \in AfterRoutes =>
          /\ seen[o].rt <= routes
          /\ configMap.rt <= seen[o].rt /\ deployment.rt <= seen[o].rt
          /\ status.rt <= seen[o].rt
    /\ pc[o] = "namespaces" => seen[o].done = 0
    /\ pc[o] = "endpoints" => \A i \in Reading : i <= seen[o].done => ReadInv(o, i)
    /\ pc[o] \in AfterEndpoints => \A i \in Reading : ReadInv(o, i)

\* A child the current reconciliation has applied is as it was applied.
Current(child, o) == child.uid > 0 => child.uid = snap[o].uid /\ child.gen = snap[o].gen
AppliedInv(o) ==
    snap[o].kind = "served" =>
        /\ pc[o] \in AfterConfigMap =>
              /\ Current(configMap, o)
              /\ configMap.uid > 0 => configMap.rt = seen[o].rt
        /\ pc[o] = "deployment" /\ configMap.uid > 0 => configMap.ep = seen[o].ep
        /\ pc[o] \in AfterDeployment =>
              /\ Current(deployment, o)
              /\ deployment.uid > 0 => deployment.rt = seen[o].rt
        /\ pc[o] \in AfterService => Current(service, o)

VersionsInv ==
    /\ configMap.rt <= routes /\ deployment.rt <= routes /\ status.rt <= routes
    /\ \A i \in Reading : configMap.ep[i] <= eps /\ deployment.ep[i] <= eps

Reads ==
    /\ VersionsInv /\ StatusIsBacked /\ HashNeverAhead
    /\ \A o \in Operators : ReadsInv(o) /\ AppliedInv(o)

--------------------------------------------------------------------------------
(* Wake-ups.                                                               *)

\* Unless an event is still due, what is reconciled is the present Gateway.
Wakes ==
    \A o \in Operators :
        pc[o] # "idle" /\ queue[o] = "idle" /\ cache[o] = gw /\ Exists(gw) =>
            snap[o] = gw

--------------------------------------------------------------------------------
(* With any number of processes.                                           *)

\* However many processes race, whatever bears the living Gateway's uid is of
\* a generation it has had, and a status of its newest generation is the
\* verdict on the listeners of that generation.
KeepsToSpec == Bounds(gw)

\* The copies a process holds are of the past, and it is where their listeners
\* lead it.
Past(o) ==
    /\ cache[o].uid <= births
    /\ cache[o].uid = 0 => cache[o] = Absent
    /\ Older(cache[o], gw)
    /\ pc[o] # "idle" => snap[o].uid \in 1..births /\ Older(snap[o], gw)
    /\ pc[o] = "reject" => snap[o].kind = "params"
    /\ pc[o] \in ApplyPhases \ {"class", "reject"} => snap[o].kind # "params"

Shared ==
    /\ GatewayInv /\ KeepsToSpec
    /\ status.uid <= births
    /\ configMap.uid <= births /\ deployment.uid <= births /\ service.uid <= births
    /\ status.uid = 0 => status = NoStatus
    /\ configMap.uid = 0 => configMap = NoConfig
    /\ deployment.uid = 0 => deployment = NoConfig
    /\ service.uid = 0 => service = NoService
    /\ \A o \in Operators : Past(o)

--------------------------------------------------------------------------------

\* Together with the properties it is there for, inductive for one process.
Inductive == Lifecycle /\ Writes /\ Reads /\ Wakes
================================================================================
