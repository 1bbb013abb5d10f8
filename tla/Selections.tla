---------------------------- MODULE Selections -----------------------------
(* A loop over a vector that takes some of its members, in order.          *)
EXTENDS Integers, SequencesExt

Picked(q, wanted) == FlattenSeq([k \in 1..Len(q) |-> IF k \in wanted THEN <<q[k]>> ELSE <<>>])
=============================================================================
