----------------------------- MODULE PlanErrors -----------------------------
(* Plan::has_errors (src/plan.cpp), of a plan with the strings of its      *)
(* diagnostics, name by name.                                              *)
EXTENDS SequencesExt

HasErrors(p) ==
  p.conflicts # <<>> \/ \E k \in DOMAIN p.diagnostics : <<"severity", <<"error">>>> \in ToSet(p.diagnostics[k].strings)
=============================================================================
