------------------------------ MODULE Selection ------------------------------
(***************************************************************************)
(* The elements of a sequence that a filter keeps, in their order: what    *)
(* Iterator::filter and filter_map do.  The filter is given as a set.      *)
(***************************************************************************)
EXTENDS Naturals, Sequences

\* What is kept of the first n elements, for every n.
Kept(s, T) ==
  LET kept[n \in 0..Len(s)] ==
        IF n = 0 THEN <<>>
        ELSE IF s[n] \in T THEN Append(kept[n - 1], s[n]) ELSE kept[n - 1]
  IN  kept

Only(s, T) == Kept(s, T)[Len(s)]

\* A sequence, whatever its elements are.
IsSeq(s) == s \in Seq({s[i] : i \in DOMAIN s})
=============================================================================
