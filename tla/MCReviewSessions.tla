-------------------------- MODULE MCReviewSessions --------------------------
(* Two terminals in one directory, with a plan and a slice of it.          *)
EXTENDS ReviewSessions, TLC

CONSTANTS s1, s2, e1, e2, w1, w2, c1, d1

MCSessions == {s1, s2}
Whole ==
  [edits |-> <<e1>>, findings |-> <<[id |-> w1, planned |-> TRUE], [id |-> w2, planned |-> FALSE]>>,
   conflicts |-> <<c1>>, diagnostics |-> <<>>]
OneEdit == [edits |-> <<e2>>, findings |-> <<>>, conflicts |-> <<>>, diagnostics |-> <<d1>>]
MCPlans == {Whole, OneEdit}
Alike == Permutations(MCSessions)
=============================================================================
