------------------------- MODULE EndpointResolution -------------------------
(***************************************************************************)
(* The addresses of a backend Service (endpoints.rs): EndpointSlices       *)
(* first, the classic Endpoints object when they give nothing.             *)
(*                                                                         *)
(* What the API server holds for one Service name is a record:             *)
(*   targets    the targetPort of each service port: a number, Named for a *)
(*              port name, None when unset; None instead of the record     *)
(*              when there is no Service                                   *)
(*   slices     a sequence of [ports, endpoints], each port a number or    *)
(*              None, each endpoint [ip, ready] with ready TRUE, FALSE or  *)
(*              None for an absent condition                               *)
(*   subsets    the Endpoints object: a sequence of [ports, ready], the    *)
(*              ready addresses only; None when there is no object         *)
(*   listable   whether the list of the slices succeeds                    *)
(***************************************************************************)
EXTENDS Selection, SequencesExt

CONSTANTS None,    \* an absent optional field
          Named    \* a targetPort given by name

\* A port name is not looked up: the service port stands in for it.
TargetPort(targets, port) ==
  IF port \in DOMAIN targets /\ targets[port] \notin {None, Named}
    THEN targets[port] ELSE port

\* The port of a slice or subset: the target if listed, else the first one.
PortIn(ports, target) ==
  IF target \in ToSet(ports) \/ ports = <<>> \/ ports[1] = None
    THEN target ELSE ports[1]

EndpointReady(endpoint) == endpoint.ready # FALSE

Address(ip, port) == [ip |-> ip, port |-> port]

SliceAddresses(slice, target) ==
  LET ready == Only(slice.endpoints, {e \in ToSet(slice.endpoints) : EndpointReady(e)})
  IN  [i \in DOMAIN ready |-> Address(ready[i].ip, PortIn(slice.ports, target))]

ViaEndpointSlices(backing, target) ==
  FlattenSeq([i \in DOMAIN backing.slices |-> SliceAddresses(backing.slices[i], target)])

SubsetAddresses(subset, target) ==
  [i \in DOMAIN subset.ready |-> Address(subset.ready[i], PortIn(subset.ports, target))]

ViaEndpoints(backing, target) ==
  IF backing.subsets = None THEN <<>>
  ELSE FlattenSeq([i \in DOMAIN backing.subsets |->
                     SubsetAddresses(backing.subsets[i], target)])

\* A failed list of the slices is no error of the resolution: it falls back.
ResolveEndpoints(backing, port) ==
  IF backing = None THEN <<>>
  ELSE LET target == TargetPort(backing.targets, port)
           slices == IF backing.listable THEN ViaEndpointSlices(backing, target) ELSE <<>>
       IN  IF slices # <<>> THEN slices ELSE ViaEndpoints(backing, target)
=============================================================================
