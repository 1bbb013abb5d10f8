------------------------------ MODULE Engine ------------------------------
(***************************************************************************)
(* Engine::run (src/engine.cpp): an adapter fills the FactStore, then the  *)
(* rules of the enabled capsules turn facts into evidence, findings and    *)
(* edits, one fact at a time.  Two adapters and two capsules ship with     *)
(* Moult: the C++ modernisation scan and its rules, and the transpilers,   *)
(* whose proposals pass a TranspilerSink and then TranspilerProposalRule.  *)
(* The plan's EditSet is EditSet.tla's; only PlanBuilder::add_edit touches *)
(* it.                                                                     *)
(*                                                                         *)
(* A fact's attributes are fields here.  Its digest is "same" or "other"   *)
(* as the sources do or do not say what the fact was made from (the        *)
(* transpiler's digest, the scan's token).  Titles, messages, severities   *)
(* and rationales are left out: the fact's kind stands for them.           *)
(***************************************************************************)
EXTENDS TextEdits, Selections

CONSTANTS
  Files, Replacements, Rules, NoFile, Loaded, SizeOf,   \* as in EditSet.tla
  Capsules,         \* the engine's capsules in order: [id, targets, rules]
  Options,          \* RunOptions a caller may pass: [target, enabled, minimum]
  NoTarget,         \* the empty target
  Transpilers,      \* how many transpilers a TranspilerAdapter runs
  Offers,           \* what a transpiler may hand to its sink
  AdapterFacts,     \* facts another adapter may add, but those of kinds no rule asks for
  NoRange, NoAttr,  \* a range or an attribute that is not there
  Garbled,          \* a confidence that does not parse
  MaxFacts          \* bound: facts in the store

Levels == {25, 50, 75, 100}

\* The rules of all the capsules.
RuleRecords ==
  UNION {{Capsules[c].rules[k] : k \in DOMAIN Capsules[c].rules} : c \in DOMAIN Capsules}

ASSUME EngineAssumption ==
  /\ SizeOf \in [Loaded -> Nat]
  /\ NoAttr \notin Replacements \cup {"planned"} /\ Garbled \notin Levels
  /\ \A o \in Options : o.minimum \in Levels
  /\ MaxFacts \in Nat /\ Transpilers \in Nat
  /\ Len(Capsules) \in Nat /\ DOMAIN Capsules = 1..Len(Capsules)
  /\ \A c \in DOMAIN Capsules : Capsules[c].rules \in Seq(RuleRecords)
  /\ \A r \in RuleRecords : r.id \in Rules
  /\ \A p \in AdapterFacts \cup Offers : p.rule \in Rules
  /\ \A f \in AdapterFacts : f.kind = "opportunity" => f.replacement # NoAttr
  /\ \A f \in AdapterFacts : IF f.object = NoAttr THEN f.kind \in {"edit", "finding"} ELSE f.kind = "opportunity"
  /\ \A o \in Offers : o.kind \in {"edit", "finding"}

VARIABLES
  options,          \* the options of this run
  phase,            \* "analyzing", "ruling" or "done"
  turn,             \* the transpiler that runs; 0 for another adapter
  facts,            \* the FactStore, in the order facts were added
  diagnostics,      \* severities in the DiagnosticSink
  failed,           \* observer: an adapter reported an error, or a transpiler threw
  registered,       \* how many capsules have been asked for their rules
  rules,            \* the rules of the registry that are still to run, in order
  rule,             \* the rule that runs
  todo,             \* the facts it has still to look at, by position
  evidence,         \* the EvidenceRecords: [id, guards]; their order is of no account
  findings,         \* the Findings: [rule, fact, evidence, status]; likewise
  grounds,          \* per accepted edit, in order: [fact, evidence]
  planDiagnostics,  \* the severities copied into the plan
  edits, conflicts, last, proposed   \* the plan's EditSet

editVars == <<edits, conflicts, last, proposed>>
adapterVars == <<turn, facts, diagnostics, failed>>
ruleVars == <<registered, rules, rule, todo>>
planVars == <<evidence, findings, grounds>>
vars == <<options, phase, adapterVars, ruleVars, planVars, planDiagnostics, editVars>>

-----------------------------------------------------------------------------
\* PlanBuilder::make_edit: the edit a fact asks for, on behalf of a rule.
EditOf(f, by) ==
  [file |-> f.range.file, begin |-> f.range.begin, end |-> f.range.end,
   replacement |-> f.replacement, rule |-> by]

\* TranspilerSink::propose_edit takes the digest from the sources themselves.
FactOfOffer(o, range) ==
  [kind |-> o.kind, object |-> NoAttr, subject |-> o.subject, range |-> range,
   replacement |-> o.replacement, rule |-> o.rule, confidence |-> o.confidence,
   guards |-> o.guards, digest |-> "same", edit_capable |-> TRUE]

Askable ==
  LET possible == AdapterFacts \cup {FactOfOffer(o, o.range) : o \in Offers}
      whole == {f \in possible : f.range # NoRange /\ f.replacement # NoAttr}
  IN {EditOf(f, r) : f \in whole, r \in Rules}

\* The run never asks for more edits than there are facts.
EditsOfPlan == INSTANCE EditSet WITH Proposals <- Askable, MaxConflicts <- MaxFacts

Init ==
  /\ options \in Options
  /\ phase = "analyzing"
  /\ turn \in {0, 1}
  /\ facts = <<>>
  /\ diagnostics = {}
  /\ failed = FALSE
  /\ registered = 0 /\ rules = <<>> /\ rule = NoAttr /\ todo = <<>>
  /\ evidence = {} /\ findings = {} /\ grounds = <<>>
  /\ planDiagnostics = {}
  /\ EditsOfPlan!Init

-----------------------------------------------------------------------------
(* Adapter *)

Transpiling == phase = "analyzing" /\ turn \in 1..Transpilers

InSources(range) == range # NoRange /\ EditsOfPlan!WellFormed(range, TRUE)

AddFact(f) == Len(facts) < MaxFacts /\ facts' = Append(facts, f)

Warn == diagnostics' = diagnostics \cup {"warning"}

\* A fact of an adapter of one's own.
AdapterAdds ==
  /\ phase = "analyzing" /\ turn = 0
  /\ \E f \in AdapterFacts : AddFact(f)
  /\ UNCHANGED <<options, phase, turn, diagnostics, failed, ruleVars, planVars,
                 planDiagnostics, editVars>>

\* The Clang adapter reports a file it cannot parse, and goes on.
AdapterReports ==
  /\ phase = "analyzing" /\ turn = 0
  /\ diagnostics' = diagnostics \cup {"error"}
  /\ failed' = TRUE
  /\ UNCHANGED <<options, phase, turn, facts, ruleVars, planVars, planDiagnostics, editVars>>

\* An edit outside the sources is turned down with a warning.
ProposeEdit(o) ==
  /\ Transpiling /\ o.kind = "edit"
  /\ \/ InSources(o.range) /\ AddFact(FactOfOffer(o, o.range)) /\ UNCHANGED diagnostics
     \/ ~InSources(o.range) /\ Warn /\ UNCHANGED facts
  /\ UNCHANGED <<options, phase, turn, failed, ruleVars, planVars, planDiagnostics, editVars>>

\* A finding outside the sources is kept, without its range.
ProposeFinding(o) ==
  /\ Transpiling /\ o.kind = "finding"
  /\ \/ /\ o.range = NoRange \/ InSources(o.range)
        /\ AddFact(FactOfOffer(o, o.range)) /\ UNCHANGED diagnostics
     \/ /\ o.range # NoRange /\ ~InSources(o.range)
        /\ AddFact(FactOfOffer(o, NoRange)) /\ Warn
  /\ UNCHANGED <<options, phase, turn, failed, ruleVars, planVars, planDiagnostics, editVars>>

TranspilerReturns ==
  /\ Transpiling
  /\ turn' = turn + 1
  /\ UNCHANGED <<options, phase, facts, diagnostics, failed, ruleVars, planVars,
                 planDiagnostics, editVars>>

\* Mutation: the exception is swallowed.
TranspilerSwallowed ==
  /\ Transpiling
  /\ turn' = turn + 1
  /\ failed' = TRUE
  /\ UNCHANGED <<options, phase, facts, diagnostics, ruleVars, planVars,
                 planDiagnostics, editVars>>

\* What a transpiler proposed before it threw stays; the next one runs.
TranspilerThrows ==
  /\ Transpiling
  /\ turn' = turn + 1
  /\ diagnostics' = diagnostics \cup {"error"}
  /\ failed' = TRUE
  /\ UNCHANGED <<options, phase, facts, ruleVars, planVars, planDiagnostics, editVars>>

-----------------------------------------------------------------------------
(* Rules *)

\* capsule_enabled: an explicit list of capsules overrides their targets.
CapsuleEnabled(c) ==
  \/ c.id \in options.enabled
  \/ options.enabled = {} /\ (options.target \in c.targets \cup {NoTarget} \/ c.targets = {})

\* rule_targets_target.
RuleTargeted(r) == options.target \in r.targets \cup {NoTarget} \/ r.targets = {}

StartRules ==
  /\ phase = "analyzing" /\ turn \notin 1..Transpilers
  /\ phase' = "ruling"
  /\ UNCHANGED <<options, adapterVars, ruleVars, planVars, planDiagnostics, editVars>>

RegisterCapsule ==
  /\ phase = "ruling" /\ registered < Len(Capsules)
  /\ registered' = registered + 1
  /\ rules' = IF CapsuleEnabled(Capsules[registered']) THEN rules \o Capsules[registered'].rules
                                                      ELSE rules
  /\ UNCHANGED <<options, phase, adapterVars, rule, todo, planVars, planDiagnostics, editVars>>

\* The positions of the facts of one kind (and object), in order.
Where(kind, object) ==
  Picked([i \in 1..Len(facts) |-> i], {i \in 1..Len(facts) : facts[i].kind = kind /\ facts[i].object = object})

\* A modernisation rule takes its opportunities; the transpiler rule all edits, then all findings.
WorkOf(r) ==
  IF r.object = NoAttr THEN Where("edit", NoAttr) \o Where("finding", NoAttr)
                       ELSE Where("opportunity", r.object)

NextRule ==
  /\ phase = "ruling" /\ registered = Len(Capsules) /\ todo = <<>> /\ rules # <<>>
  /\ rule' = Head(rules)
  /\ rules' = Tail(rules)
  /\ todo' = IF RuleTargeted(rule') THEN WorkOf(rule') ELSE <<>>
  /\ UNCHANGED <<options, phase, adapterVars, registered, planVars, planDiagnostics, editVars>>

\* result.plan.diagnostics is filled when every rule has run.
Finish ==
  /\ phase = "ruling" /\ registered = Len(Capsules) /\ todo = <<>> /\ rules = <<>>
  /\ phase' = "done"
  /\ planDiagnostics' = diagnostics
  /\ UNCHANGED <<options, adapterVars, ruleVars, planVars, editVars>>

Guard(name, holds) == [name |-> name, status |-> IF holds THEN "passed" ELSE "failed"]

\* Mutation: a guard nobody could decide does no harm.
NoneFailed(guards) == \A g \in guards : g.status # "failed"

\* all_guards_passed.
AllPassed(guards) == \A g \in guards : g.status \in {"passed", "not_applicable"}

ConfidenceOf(f) == IF f.confidence \in Levels THEN f.confidence ELSE 50

(* A proposal's guards, as a set: only whether all passed is ever asked.   *)
(* decode_guards keeps those that have a name.                             *)
Decode(guards) == {g \in guards : g.name # ""}

\* Mutation: a digest that differs is not looked at.
SourceGuardsUndigested(f) ==
  IF f.range = NoRange THEN {Guard("range_present", FALSE)}
                       ELSE {Guard("range_in_current_sources", InSources(f.range))}

\* append_current_source_guards.
SourceGuards(f) ==
  IF f.range = NoRange THEN {Guard("range_present", FALSE)}
  ELSE IF ~InSources(f.range) THEN {Guard("range_in_current_sources", FALSE)}
  ELSE { Guard("range_in_current_sources", TRUE),
         IF f.digest = NoAttr THEN [name |-> "source_digest_supplied", status |-> "unknown"]
                              ELSE Guard("source_digest_matches", f.digest = "same") }

\* What both kinds of proposal are asked first.
FindingGuards(f) ==
  Decode(f.guards)
    \cup (IF f.confidence = Garbled THEN {Guard("confidence_parse", FALSE)} ELSE {})

ProposalGuards(f) ==
  FindingGuards(f)
    \cup SourceGuards(f)
    \cup { Guard("replacement_present", f.replacement # NoAttr),
           Guard("minimum_confidence", ConfidenceOf(f) >= options.minimum) }

OpportunityGuards(f) ==
  { Guard("fact_has_source_range", f.range # NoRange),
    Guard("modernisation_scan", TRUE) }
    \cup (IF f.range = NoRange THEN {}
          ELSE {Guard("range_starts_with_expected_token", InSources(f.range) /\ f.digest = "same")})

\* PlanBuilder::add_evidence: what the record's id is made from.
EvidenceId(f, by) == [rule |-> by, subject |-> f.subject, kind |-> f.kind, range |-> f.range]

Explain(i, by, guards) ==
  evidence' = evidence \cup {[id |-> EvidenceId(facts[i], by), guards |-> guards]}

Report(i, by, status) ==
  findings' = findings \cup {[rule |-> by, fact |-> i, status |-> status,
                              evidence |-> EvidenceId(facts[i], by)]}

\* Mutation: the edit goes straight into the list of accepted edits.
PlanEditUnchecked(i, by) ==
  /\ edits' = Append(edits, EditOf(facts[i], by))
  /\ last' = [outcome |-> "Accepted", edit |-> EditOf(facts[i], by)]
  /\ proposed' = proposed \cup {EditOf(facts[i], by)}
  /\ UNCHANGED conflicts
  /\ grounds' = Append(grounds, [fact |-> i, evidence |-> EvidenceId(facts[i], by)])

\* PlanBuilder::add_edit; an accepted edit keeps the id of its evidence.
PlanEdit(i, by) ==
  /\ EditsOfPlan!Add(EditOf(facts[i], by), TRUE)
  /\ grounds' = IF last'.outcome # "Accepted" THEN grounds
                ELSE Append(grounds, [fact |-> i, evidence |-> EvidenceId(facts[i], by)])

\* The fact at the head of todo is of this kind, and done with after this step.
Take(i, kind) ==
  /\ phase = "ruling" /\ todo # <<>>
  /\ i = Head(todo) /\ facts[i].kind = kind
  /\ todo' = Tail(todo)
  /\ UNCHANGED <<options, phase, adapterVars, registered, rules, rule, planDiagnostics>>

\* TranspilerProposalRule::accept_edit.
PromoteEdit(i) ==
  LET f == facts[i]
  IN /\ Take(i, "edit")
     /\ AllPassed(ProposalGuards(f)) /\ f.range # NoRange /\ f.replacement # NoAttr
     /\ PlanEdit(i, f.rule)
     /\ Explain(i, f.rule, ProposalGuards(f))
     /\ UNCHANGED findings

\* Mutation: what is not safe to promote is left out of the plan.
ReviewEditSilent(i) ==
  /\ Take(i, "edit")
  /\ ~AllPassed(ProposalGuards(facts[i]))
  /\ Explain(i, facts[i].rule, ProposalGuards(facts[i]))
  /\ UNCHANGED <<findings, grounds, editVars>>

ReviewEdit(i) ==
  /\ Take(i, "edit")
  /\ ~AllPassed(ProposalGuards(facts[i]))
  /\ Explain(i, facts[i].rule, ProposalGuards(facts[i]))
  /\ Report(i, facts[i].rule, NoAttr)
  /\ UNCHANGED <<grounds, editVars>>

\* TranspilerProposalRule::accept_finding.
AcceptFinding(i) ==
  /\ Take(i, "finding")
  /\ Explain(i, facts[i].rule, FindingGuards(facts[i]))
  /\ Report(i, facts[i].rule, NoAttr)
  /\ UNCHANGED <<grounds, editVars>>

CanEdit(f) == f.edit_capable /\ f.range # NoRange /\ AllPassed(OpportunityGuards(f))

\* ModernizationRule::run, one opportunity: it is always reported, and edited if it can be.
ReviewOpportunity(i) ==
  LET f == facts[i]
  IN /\ Take(i, "opportunity")
     /\ ~CanEdit(f) \/ ConfidenceOf(f) < options.minimum
     /\ Explain(i, rule.id, OpportunityGuards(f))
     /\ Report(i, rule.id,
               IF ~CanEdit(f) THEN "manual_review" ELSE "below_minimum_confidence")
     /\ UNCHANGED <<grounds, editVars>>

\* Mutation: the status does not wait for the answer of add_edit.
PlanOpportunityAnyway(i) ==
  LET f == facts[i]
  IN /\ Take(i, "opportunity")
     /\ CanEdit(f) /\ ConfidenceOf(f) >= options.minimum
     /\ PlanEdit(i, rule.id)
     /\ Explain(i, rule.id, OpportunityGuards(f))
     /\ Report(i, rule.id, "planned")

PlanOpportunity(i) ==
  LET f == facts[i]
  IN /\ Take(i, "opportunity")
     /\ CanEdit(f) /\ ConfidenceOf(f) >= options.minimum
     /\ PlanEdit(i, rule.id)
     /\ Explain(i, rule.id, OpportunityGuards(f))
     /\ Report(i, rule.id, IF last'.outcome = "Accepted" THEN "planned" ELSE "not_planned")

Next ==
  \/ AdapterAdds \/ AdapterReports
  \/ \E o \in Offers : ProposeEdit(o) \/ ProposeFinding(o)
  \/ TranspilerReturns \/ TranspilerThrows
  \/ StartRules \/ RegisterCapsule \/ NextRule \/ Finish
  \/ \E i \in DOMAIN facts :
       \/ PromoteEdit(i) \/ ReviewEdit(i) \/ AcceptFinding(i)
       \/ ReviewOpportunity(i) \/ PlanOpportunity(i)

Spec == Init /\ [][Next]_vars

-----------------------------------------------------------------------------
Positions == 1..Len(facts)

(* "every migration edit should be explainable as a consequence of facts   *)
(* and guard results" (docs/architecture.md): an accepted edit is the one  *)
(* its fact asks for, the sources still say what the fact says, it meets   *)
(* the minimum confidence, and under its evidence id the plan holds a      *)
(* record whose guards all passed.                                         *)
EditsExplained ==
  \A j \in DOMAIN grounds :
    LET f == facts[grounds[j].fact]
    IN /\ f.range # NoRange /\ f.digest = "same"
       /\ edits[j] = EditOf(f, edits[j].rule)
       /\ ConfidenceOf(f) >= options.minimum
       /\ \E v \in evidence : v.id = grounds[j].evidence /\ AllPassed(v.guards)

(* "If a guard fails, the rule should usually emit a Finding rather than   *)
(* an edit" (docs/architecture.md): no edit is accepted on a proposal that *)
(* came with a guard that failed or is unknown, and has a name.            *)
GuardsHold(f) ==
  f.kind = "edit" =>
    \A g \in f.guards : g.name # "" => g.status \in {"passed", "not_applicable"}

NoEditAgainstGuard == \A j \in DOMAIN grounds : GuardsHold(facts[grounds[j].fact])

(* "Do not silently skip hard cases. A rule should classify each relevant  *)
(* site" (docs/building_engines.md): when the run is over, every fact that *)
(* a rule of an enabled capsule is for shows in the plan, as a finding, as *)
(* an accepted edit or in a conflict; and one that a transpiler proposed   *)
(* points into the sources or nowhere.                                     *)
Relevant(f) ==
  \E c \in DOMAIN Capsules : CapsuleEnabled(Capsules[c]) /\
    \E r \in DOMAIN Capsules[c].rules :
      f.object = Capsules[c].rules[r].object

Planned(f) ==
  /\ f.range # NoRange
  /\ f.replacement # NoAttr
  /\ \E j \in DOMAIN edits : SameEdit(edits[j], EditOf(f, edits[j].rule))

Conflicting(f) ==
  \E k \in DOMAIN conflicts :
    LET e == conflicts[k].proposed IN f.range # NoRange /\ e = EditOf(f, e.rule)

EverySiteClassified ==
  phase = "done" =>
    \A i \in Positions : Relevant(facts[i]) =>
      /\ \/ \E w \in findings : w.fact = i
         \/ facts[i].kind = "edit" /\ (Planned(facts[i]) \/ Conflicting(facts[i]))
      /\ turn > 0 => facts[i].range = NoRange \/ InSources(facts[i].range)

(* A finding that says its edit is planned is right: the edit is among the *)
(* accepted ones and rests on the very fact the finding reports.           *)
PlannedIsPlanned ==
  \A w \in findings : w.status = "planned" =>
    \E j \in DOMAIN grounds : grounds[j].fact = w.fact /\ edits[j].rule = w.rule

\* Plan::has_errors.
HasErrors == conflicts # <<>> \/ "error" \in planDiagnostics

(* A plan that was made without all of an adapter's work says so, however  *)
(* much of it was planned.                                                 *)
FailureVisible == phase = "done" => (HasErrors <=> failed \/ conflicts # <<>>)

\* Whatever the rules do, the plan's EditSet is only ever used through add().
ImplementsEditSet == EditsOfPlan!Spec
=============================================================================
