---------------------------- MODULE PlanAndApply ----------------------------
(***************************************************************************)
(* `moult plan`, `moult slice` and `moult apply` over one directory of     *)
(* outputs (WriteOutputs.tla): apply reads what it then finds in           *)
(* plan.json.  The plan goes through its JSON text (JsonText.tla).         *)
(***************************************************************************)
EXTENDS WriteOutputs, JsonText

CONSTANT Name       \* Name[p]: path p as a string

VARIABLE read       \* observer: the plan.json that the latest apply read, and the edits in it

allVars == <<vars, writing, read>>

Forms == {"plan", "slice"}

InitAll == WriteInit /\ read = [output |-> outputs["plan.json"], edits |-> <<>>]

-----------------------------------------------------------------------------
(* moult apply *)

Text(m, form) == IF form = "plan" THEN PlanText(m) ELSE ValueText(Parse(PlanText(m)).value)

\* What the parser may find in a file, by the plan and the form of it.
WholeReading == [m \in Made, form \in Forms |-> EditsFromPlan(Text(m, form))]

TornReadings ==
  [m \in Made, form \in Forms |->
     LET text == Text(m, form) IN {EditsFromPlan(SubSeq(text, 1, k)) : k \in 0..(Len(text) - 1)}]

Readings(o) ==
  CASE o.part = "absent" -> {Failed}
    [] o.part = "whole" -> {WholeReading[made[o.by], o.form]}
    [] o.part = "torn" -> TornReadings[made[o.by], o.form]

(* The plan as ApplyPlan.tla has it.  Its edits are apart, but may not be  *)
(* in range of the files as they now are.                                  *)
PlanFiles(edits) ==
  {file \in Plans : file.whole /\ file.paths = {p \in Paths : \E k \in DOMAIN edits : edits[k].range.file = Name[p]}}

NoPlan == [paths |-> {}, whole |-> FALSE, clean |-> TRUE]

InvokeApply(dry_run, backup) ==
  \E reading \in Readings(outputs["plan.json"]) :
    /\ \E file \in IF reading.ok THEN PlanFiles(reading.value) ELSE {NoPlan} : InvokeWith(file, dry_run, backup)
    /\ read' = [output |-> outputs["plan.json"], edits |-> IF reading.ok THEN reading.value ELSE <<>>]

\* The steps of WriteNext, with what apply finds in the file.
NextAll ==
  \/ pc = "idle" /\ PlanOrSlice /\ UNCHANGED read
  \/ \E dry_run, backup \in BOOLEAN : InvokeApply(dry_run, backup)
  \/ Step /\ UNCHANGED <<writing, read>>

SpecAll == InitAll /\ [][NextAll]_allVars

-----------------------------------------------------------------------------
\* A control character without an escape of its own is written \u001b, which the reader cannot read.
HasControl(string) == "ctl" \in ToSet(string)

(* "`apply` ... applies accepted, conflict-free edits to disk" (README.md):*)
(* apply works on exactly the accepted edits of one run of `moult plan`,   *)
(* after their way through JSON, or on none: a plan.json that is only      *)
(* partly there, or is being written, is not taken for a plan, and what    *)
(* was in conflict does not come back as an edit.  Strings with a control  *)
(* character (HasControl) are left out: with one in its replacement, apply *)
(* puts in another text than was planned, and without this exclusion the   *)
(* property is violated.                                                   *)
AppliesWhatWasPlanned ==
  runs > 0 /\ plan.whole =>
    /\ read.output.part = "whole"
    /\ LET planned == made[read.output.by].edits
       IN /\ DOMAIN read.edits = DOMAIN planned
          /\ \A k \in DOMAIN planned :
               /\ HasControl(planned[k].range.file) \/ read.edits[k].range = planned[k].range
               /\ \A member \in {"id", "rule_id", "evidence_id", "confidence", "replacement"} :
                    HasControl(planned[k][member]) \/ read.edits[k][member] = planned[k][member]
=============================================================================
