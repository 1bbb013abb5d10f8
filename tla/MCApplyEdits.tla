---------------------------- MODULE MCApplyEdits ----------------------------
(* Up to three edits over a file of three bytes, a file of one byte and a  *)
(* file that is not in the store.  Untied sets have no two edits that      *)
(* begin at one offset; the others are what an insertion next to a         *)
(* replacement, or two insertions at one place, give.                      *)
EXTENDS ApplyEdits

MCFiles == 1..3
MCText == <<<<1, 2, 3>>, <<4>>>>
MCBytes == 1..9
MCRules == {"r"}

E(f, b, e, t) == [file |-> f, begin |-> b, end |-> e, replacement |-> t, rule |-> "r"]

\* Insertions, deletions, and texts longer than the range they replace.
Candidates ==
  {E(1, b, e, IF b = e THEN <<7>> ELSE IF b + e = 3 THEN <<>> ELSE <<8, 9>>) :
     b \in 0..3, e \in 0..3}
    \cup {E(1, 2, 4, <<7>>), E(2, 0, 1, <<7, 7>>), E(2, 0, 2, <<7>>), E(3, 0, 0, <<7>>)}

Ordered == {e \in Candidates : e.begin <= e.end}

Small == {{a, b, c} : a \in Ordered, b \in Ordered, c \in Ordered}

MCAll == {S \in Small : Acceptable(S)}

MCUntied ==
  {S \in MCAll : \A a, b \in S : a # b => a.file # b.file \/ a.begin # b.begin}
=============================================================================
