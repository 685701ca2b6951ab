-------------------------- MODULE ReferenceGrants ---------------------------
(***************************************************************************)
(* Whether ReferenceGrants permit a reference (reference_grant.rs).  A     *)
(* grant has a namespace, a set `from` of [kind, ns] and a set `to` of     *)
(* [kind, name], the name None for any; a group and a kind are one value.  *)
(***************************************************************************)
CONSTANT None

IsReferenceAllowed(fromNs, fromKind, toNs, toKind, toName, grants) ==
  \/ fromNs = toNs
  \/ \E g \in grants :
       /\ g.ns = toNs
       /\ [kind |-> fromKind, ns |-> fromNs] \in g.from
       /\ \E to \in g.to : to.kind = toKind /\ to.name \in {None, toName}
=============================================================================
