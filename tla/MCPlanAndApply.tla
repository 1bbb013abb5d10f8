--------------------------- MODULE MCPlanAndApply ---------------------------
(* Plans over two files, the second of them on a disk that reports write   *)
(* errors late, and an output directory with two of the four outputs, of   *)
(* which the second is.                                                    *)
EXTENDS PlanAndApply

MCPaths == 1..2
MCFiles == 1..2
MCOneEach == [p \in MCPaths |-> p]
MCLossy == {2}
MCUserTexts == [f \in MCFiles |-> IF f = 1 THEN {10} ELSE {}]
MCName == <<<<"a", "bs", "b">>, <<"b", " ", "dq">>>>

MCOutputs == <<"plan.json", "findings.sarif">>

MCRange(path) == [file |-> MCName[path], begin |-> 9, end |-> 12]

MCEdit(id, path, replacement) ==
  [id |-> <<"e", id>>, rule_id |-> <<"r">>, evidence_id |-> <<>>, confidence |-> <<"high">>,
   replacement |-> replacement, range |-> MCRange(path), attributes |-> <<>>]

MCItem(strings) == [strings |-> strings, range |-> <<>>, attributes |-> <<>>]

MCNone ==
  [target |-> <<>>, action |-> <<"plan">>, edits |-> <<>>, conflicts |-> <<>>, findings |-> <<>>, evidence |-> <<>>,
   groups |-> <<>>, diagnostics |-> <<MCItem(<<<<"severity", <<"error">>>>, <<"message", <<"]", "}">>>>>>)>>,
   facts |-> <<>>]

\* Every kind of item, and an edit for each file, of which one has a control character.
MCBoth ==
  [MCNone EXCEPT
     !.edits = <<[MCEdit("1", 1, <<"dq", "bs", "u", "nl">>) EXCEPT !.attributes = <<<<"name", <<"{">>>>>>],
                 MCEdit("2", 2, <<"a", "ctl">>)>>,
     !.findings = <<[strings |-> <<<<"title", <<"tab">>>>>>, range |-> <<MCRange(2)>>,
                     evidence_id |-> <<<<"evidence_id", <<"v">>>>>>, attributes |-> <<>>]>>,
     !.evidence = <<[strings |-> <<<<"id", <<"v">>>>>>, range |-> <<>>, fact_ids |-> <<<<"f">>, <<"g">>>>,
                     guards |-> <<MCItem(<<<<"status", <<"passed">>>>>>)>>, attributes |-> <<>>]>>,
     !.groups = <<[strings |-> <<>>, edit_ids |-> <<<<"e", "1">>>>, finding_ids |-> <<>>, requires_ids |-> <<>>,
                   attributes |-> <<>>]>>,
     !.diagnostics = <<>>,
     !.facts = <<<<MCItem(<<<<"object", <<"edits", "cr">>>>>>)>>>>]

\* An edit beside one that is in conflict with it.
MCConflict ==
  [MCNone EXCEPT
     !.edits = <<MCEdit("3", 1, <<>>)>>,
     !.conflicts = <<[existing |-> MCEdit("3", 1, <<>>), proposed |-> MCEdit("4", 1, <<>>), message |-> <<"ff">>]>>,
     !.diagnostics = <<>>]

MCMade == {MCNone, MCBoth, MCConflict}
=============================================================================
