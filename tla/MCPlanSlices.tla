--------------------------- MODULE MCPlanSlices ---------------------------
(* A plan of three edits by two rules in two files, with findings of their *)
(* own and of the edits, a conflict, diagnostics with and without a range, *)
(* shared facts and two groups.                                            *)
EXTENDS PlanSlices

CONSTANTS a, b, r1, r2, whole, s, d

MCBytes == 1..9
MCText == [f \in {a, b} |-> IF f = a THEN <<1, 2, 3>> ELSE <<4>>]

Edit(file, begin, end, text, rule, v) ==
  [file |-> file, begin |-> begin, end |-> end, replacement |-> text, rule |-> rule,
   evidence |-> v]
Finding(rule, file, v, planned) ==
  [rule |-> rule, file |-> file, evidence |-> v, planned |-> planned]

E1 == Edit(a, 0, 1, <<7, 8>>, r1, "v1")
E2 == Edit(a, 2, 3, <<9>>, r2, "v2")
E3 == Edit(b, 0, 0, <<7>>, r1, "v3")
W1 == Finding(r1, a, "v1", TRUE)
W2 == Finding(r2, b, "v4", FALSE)
W3 == Finding(r2, NoFile, "v5", FALSE)

MCPlan ==
  [edits |-> {E1, E2, E3}, findings |-> {W1, W2, W3},
   conflicts |-> {[file |-> a, proposed |-> "e4"]},
   diagnostics |-> {[code |-> "parse", file |-> b, severity |-> "error"],
                    [code |-> "flags", file |-> NoFile, severity |-> "warning"]},
   evidence |-> {[id |-> v, facts |-> IF v \in {"v1", "v2"} THEN {"c1"} ELSE {"c2", v}] :
                   v \in {"v1", "v2", "v3", "v4", "v5"}},
   facts |-> {"c1", "c2", "v3", "v4", "v5", "unused"},
   groups |-> {[id |-> "g1", edits |-> {E1}, findings |-> {W1}, requires |-> {}],
               [id |-> "g2", edits |-> {E2, E3}, findings |-> {}, requires |-> {"g1"}]},
   accepted_edit_count |-> 3, conflict_count |-> 1, has_errors |-> TRUE]

MCDirectory == [f \in {a, b} |-> IF f = a THEN d ELSE Here]

MCPlans == {MCPlan}
MCNames == {whole, s}
Filter(rules, files) == [rules |-> rules, files |-> files]
MCFilters ==
  {Filter({r1, "parse"}, Unfiltered), Filter({r2}, Unfiltered), Filter(Unfiltered, {a}),
   Filter(Unfiltered, {b}), Filter({r1, r2}, {b}), Filter({r1, r2}, {a, b})}
=============================================================================
