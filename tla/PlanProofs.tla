----------------------------- MODULE PlanProofs -----------------------------
(***************************************************************************)
(* Proofs about `moult plan`: about the engine (Engine.tla) and about the  *)
(* selection of its sources (InputSelection.tla with Glob.tla).            *)
(*                                                                         *)
(* Whatever facts the adapter found and whatever rules ran, the plan's     *)
(* edits came through EditSet::add, each of them is explained by its fact  *)
(* and by evidence whose guards passed, findings that say "planned" are    *)
(* right, and a failed adapter shows.                                      *)
(*                                                                         *)
(* Whatever lies on the disk and whatever the command was called with, a   *)
(* pattern takes the paths it means, a plan analyses exactly the C++ files *)
(* that were asked for and that the patterns leave, and each of them is    *)
(* parsed with what a command of the database for it tells a compiler.     *)
(***************************************************************************)
EXTENDS Engine, InputSelection, SubstitutionProofs

\* Every fact a run can hold.
Known ==
  AdapterFacts \cup {FactOfOffer(o, r) : o \in Offers, r \in {p.range : p \in Offers} \cup {NoRange}}

FactsKnown ==
  /\ facts \in Seq(Known)
  /\ \A i \in DOMAIN facts : facts[i].rule \in Rules
  /\ \A i \in DOMAIN facts :
       facts[i].kind = "edit" /\ facts[i].range # NoRange /\ facts[i].replacement # NoAttr =>
         \A r \in Rules : EditOf(facts[i], r) \in Askable
  /\ \A i \in DOMAIN facts :
       facts[i].kind = "opportunity" /\ facts[i].range # NoRange =>
         \A r \in Rules : EditOf(facts[i], r) \in Askable

RulesKnown ==
  /\ registered \in 0..Len(Capsules)
  /\ rules \in Seq(RuleRecords)
  /\ todo # <<>> => rule \in RuleRecords

Inv == FactsKnown /\ RulesKnown

\* A fact with a range and a replacement can be asked of add().
LEMMA AskableFact ==
  ASSUME NEW f \in AdapterFacts \cup {FactOfOffer(o, o.range) : o \in Offers},
         f.range # NoRange, f.replacement # NoAttr, NEW r \in Rules
  PROVE  EditOf(f, r) \in Askable
BY DEF Askable

-----------------------------------------------------------------------------
\* What an action does to the FactStore: it leaves it alone or adds one fact.
LEMMA AddKeepsKnown ==
  ASSUME FactsKnown, NEW f \in Known, f.rule \in Rules, AddFact(f),
         f.kind = "edit" /\ f.range # NoRange /\ f.replacement # NoAttr =>
           \A r \in Rules : EditOf(f, r) \in Askable,
         f.kind = "opportunity" /\ f.range # NoRange =>
           \A r \in Rules : EditOf(f, r) \in Askable
  PROVE  FactsKnown'
<1>1. facts' = Append(facts, f)
  BY DEF AddFact
<1>2. facts \in Seq(Known)
  BY DEF FactsKnown
<1>3. /\ facts' \in Seq(Known)
      /\ DOMAIN facts' = DOMAIN facts \cup {Len(facts) + 1}
      /\ \A i \in DOMAIN facts : facts'[i] = facts[i]
      /\ facts'[Len(facts) + 1] = f
  BY <1>1, <1>2, AppendProperties
<1> QED
  BY <1>3 DEF FactsKnown

\* An offer turned into a fact.
LEMMA OfferKnown ==
  ASSUME NEW o \in Offers, NEW range \in {o.range, NoRange}
  PROVE  /\ FactOfOffer(o, range) \in Known
         /\ FactOfOffer(o, range).rule = o.rule
         /\ FactOfOffer(o, range).kind = o.kind
         /\ FactOfOffer(o, range).range = range
<1>1. range \in {p.range : p \in Offers} \cup {NoRange}
  OBVIOUS
<1>2. FactOfOffer(o, range) \in Known
  BY <1>1 DEF Known
<1> QED
  BY <1>2 DEF FactOfOffer

\* The invariant holds in the beginning ...
LEMMA InvInit == Init => Inv
BY EngineAssumption DEF Init, Inv, FactsKnown, RulesKnown

\* ... and every step keeps it,
LEMMA InvStep == ASSUME Inv, [Next]_vars PROVE Inv'
<1>1. FactsKnown'
  <2>1. CASE UNCHANGED facts
    BY <2>1 DEF Inv, FactsKnown
  <2>2. CASE AdapterAdds
    <3>1. PICK f \in AdapterFacts : AddFact(f)
      BY <2>2 DEF AdapterAdds
    <3>2. f \in Known /\ f.rule \in Rules
      BY EngineAssumption DEF Known
    <3> QED
      BY <3>1, <3>2, AddKeepsKnown, AskableFact, EngineAssumption DEF Inv
  <2>3. ASSUME NEW o \in Offers, ProposeEdit(o), ~UNCHANGED facts PROVE FactsKnown'
    <3>1. AddFact(FactOfOffer(o, o.range)) /\ o.kind = "edit"
      BY <2>3 DEF ProposeEdit
    <3>2. o.rule \in Rules
      BY EngineAssumption
    <3> QED
      BY <3>1, <3>2, OfferKnown, AddKeepsKnown, AskableFact DEF Inv
  <2>4. ASSUME NEW o \in Offers, ProposeFinding(o) PROVE FactsKnown'
    <3>1. o.kind = "finding"
      BY <2>4 DEF ProposeFinding
    <3>2. PICK range \in {o.range, NoRange} : AddFact(FactOfOffer(o, range))
      BY <2>4 DEF ProposeFinding
    <3>3. o.rule \in Rules
      BY EngineAssumption
    <3> QED
      BY <3>1, <3>2, <3>3, OfferKnown, AddKeepsKnown DEF Inv
  <2>5. \/ UNCHANGED facts
        \/ AdapterAdds
        \/ \E o \in Offers : ProposeEdit(o) \/ ProposeFinding(o)
    BY DEF Next, vars, adapterVars, AdapterReports, TranspilerReturns, TranspilerThrows,
           StartRules, RegisterCapsule, NextRule, Finish, PromoteEdit, ReviewEdit,
           AcceptFinding, ReviewOpportunity, PlanOpportunity, Take
  <2> QED
    BY <2>1, <2>2, <2>3, <2>4, <2>5
<1>2. RulesKnown'
  <2>1. CASE UNCHANGED ruleVars
    BY <2>1 DEF Inv, RulesKnown, ruleVars
  <2>2. CASE RegisterCapsule
    <3>1. registered + 1 \in DOMAIN Capsules
      BY <2>2, EngineAssumption DEF RegisterCapsule, Inv, RulesKnown
    <3>2. rules \o Capsules[registered + 1].rules \in Seq(RuleRecords)
      BY <3>1, EngineAssumption, ConcatProperties DEF Inv, RulesKnown
    <3> QED
      BY <2>2, <3>2, EngineAssumption DEF RegisterCapsule, Inv, RulesKnown
  <2>3. CASE NextRule
    <3>1. rules \in Seq(RuleRecords) /\ rules # <<>>
      BY <2>3 DEF NextRule, Inv, RulesKnown
    <3>2. Head(rules) \in RuleRecords /\ Tail(rules) \in Seq(RuleRecords)
      BY <3>1, HeadTailProperties
    <3> QED
      BY <2>3, <3>2 DEF NextRule, Inv, RulesKnown
  <2>4. ASSUME NEW i, NEW kind, Take(i, kind) PROVE RulesKnown'
    BY <2>4 DEF Take, Inv, RulesKnown
  <2>5. \/ UNCHANGED ruleVars
        \/ RegisterCapsule \/ NextRule
        \/ \E i \in DOMAIN facts, kind \in {"edit", "finding", "opportunity"} : Take(i, kind)
    BY DEF Next, vars, AdapterAdds, AdapterReports, ProposeEdit, ProposeFinding,
           TranspilerReturns, TranspilerThrows, StartRules, Finish, PromoteEdit, ReviewEdit,
           AcceptFinding, ReviewOpportunity, PlanOpportunity
  <2> QED
    BY <2>1, <2>2, <2>3, <2>4, <2>5
<1> QED
  BY <1>1, <1>2 DEF Inv

-----------------------------------------------------------------------------
(* The plan's EditSet is only ever used through add(): seen through its    *)
(* variables alone, every run of the engine is a run of EditSet.tla.       *)
LEMMA PromoteAsks ==
  ASSUME Inv, NEW i \in DOMAIN facts, PromoteEdit(i)
  PROVE  EditOf(facts[i], facts[i].rule) \in Askable /\ PlanEdit(i, facts[i].rule)
BY DEF PromoteEdit, Take, Inv, FactsKnown

\* A planned opportunity gives add() an edit it can be asked for.
LEMMA OpportunityAsks ==
  ASSUME Inv, NEW i \in DOMAIN facts, PlanOpportunity(i)
  PROVE  EditOf(facts[i], rule.id) \in Askable /\ PlanEdit(i, rule.id)
<1>1. facts[i].kind = "opportunity" /\ facts[i].range # NoRange /\ todo # <<>>
  BY DEF PlanOpportunity, Take, CanEdit
<1>2. rule.id \in Rules
  BY <1>1, EngineAssumption DEF Inv, RulesKnown
<1> QED
  BY <1>1, <1>2 DEF PlanOpportunity, Inv, FactsKnown

\* What add() is asked is a step of EditSet.
LEMMA AddIsNext ==
  ASSUME NEW e \in Askable, EditsOfPlan!Add(e, TRUE)
  PROVE  EditsOfPlan!Next
<1>1. \E a \in Askable, w \in BOOLEAN : EditsOfPlan!Add(a, w)
  <2> WITNESS e \in Askable, TRUE \in BOOLEAN
  <2> QED
    OBVIOUS
<1> QED
  BY <1>1 DEF EditsOfPlan!Next

\* The actions that leave the edits alone.
Quiet == UNCHANGED <<grounds, editVars>>

\* Only the two promotions touch the edits of the plan.
LEMMA OnlyTwoPlan ==
  ASSUME [Next]_vars
  PROVE  \/ Quiet
         \/ \E i \in DOMAIN facts : PromoteEdit(i) \/ PlanOpportunity(i)
BY DEF Next, vars, planVars, Quiet, AdapterAdds, AdapterReports, ProposeEdit, ProposeFinding,
       TranspilerReturns, TranspilerThrows, StartRules, RegisterCapsule, NextRule, Finish,
       ReviewEdit, AcceptFinding, ReviewOpportunity

\* so it always holds.
LEMMA AlwaysInv == Spec => []Inv
BY InvInit, InvStep, PTL DEF Spec

\* Seen through its EditSet alone, every run of the engine is a run of EditSet.tla.
THEOREM EditsComeThroughAdd == Spec => ImplementsEditSet
<1>1. Init => EditsOfPlan!Init
  BY DEF Init
<1>2. ASSUME Inv, [Next]_vars PROVE [EditsOfPlan!Next]_(EditsOfPlan!vars)
  <2>1. CASE Quiet
    BY <2>1 DEF Quiet, editVars, EditsOfPlan!vars
  <2>2. ASSUME NEW i \in DOMAIN facts, PromoteEdit(i) PROVE EditsOfPlan!Next
    BY <1>2, <2>2, PromoteAsks, AddIsNext DEF PlanEdit
  <2>3. ASSUME NEW i \in DOMAIN facts, PlanOpportunity(i) PROVE EditsOfPlan!Next
    BY <1>2, <2>3, OpportunityAsks, AddIsNext DEF PlanEdit
  <2> QED
    BY <1>2, <2>1, <2>2, <2>3, OnlyTwoPlan
<1> QED
  BY <1>1, <1>2, AlwaysInv, PTL DEF Spec, ImplementsEditSet, EditsOfPlan!Spec

-----------------------------------------------------------------------------
(* Every accepted edit is explained, and no guard stood against it.        *)
GroundsOf(i, by) == [fact |-> i, evidence |-> EvidenceId(facts[i], by)]

Explained(j) ==
  LET f == facts[grounds[j].fact]
  IN /\ grounds[j].fact \in DOMAIN facts
     /\ f.range # NoRange /\ f.digest = "same"
     /\ edits[j] = EditOf(f, edits[j].rule)
     /\ ConfidenceOf(f) >= options.minimum
     /\ GuardsHold(f)
     /\ \E v \in evidence : v.id = grounds[j].evidence /\ AllPassed(v.guards)

ListsTyped ==
  /\ edits \in Seq(Askable)
  /\ grounds \in Seq({[fact |-> i, evidence |-> EvidenceId(f, r)] :
                        i \in Nat, f \in Known, r \in Rules})
  /\ Len(grounds) = Len(edits)

ExplainedInv ==
  /\ ListsTyped
  /\ \A j \in DOMAIN grounds : Explained(j)

\* An edit is planned and its grounds written down, or neither list changes.
LEMMA PlanEditCases ==
  ASSUME NEW i, NEW by, PlanEdit(i, by)
  PROVE  \/ UNCHANGED <<edits, grounds>>
         \/ /\ edits' = Append(edits, EditOf(facts[i], by))
            /\ grounds' = Append(grounds, GroundsOf(i, by))
<1> DEFINE e == EditOf(facts[i], by)
<1>1. CASE EditsOfPlan!AddAccepted(e, TRUE)
  <2>1. edits' = Append(edits, e) /\ last'.outcome = "Accepted"
    BY <1>1 DEF EditsOfPlan!AddAccepted, EditsOfPlan!Result
  <2> QED
    BY <2>1 DEF PlanEdit, GroundsOf
<1>2. CASE EditsOfPlan!AddInvalid(e, TRUE)
  <2>1. edits' = edits /\ last'.outcome = "Invalid"
    BY <1>2 DEF EditsOfPlan!AddInvalid, EditsOfPlan!Result
  <2> QED
    BY <2>1 DEF PlanEdit
<1>3. CASE EditsOfPlan!AddDuplicate(e, TRUE)
  <2>1. edits' = edits /\ last'.outcome = "Duplicate"
    BY <1>3 DEF EditsOfPlan!AddDuplicate, EditsOfPlan!Result
  <2> QED
    BY <2>1 DEF PlanEdit
<1>4. CASE EditsOfPlan!AddConflict(e, TRUE)
  <2>1. edits' = edits /\ last'.outcome = "Conflict"
    BY <1>4 DEF EditsOfPlan!AddConflict, EditsOfPlan!Result
  <2> QED
    BY <2>1 DEF PlanEdit
<1> QED
  BY <1>1, <1>2, <1>3, <1>4 DEF PlanEdit, EditsOfPlan!Add

\* What an accepting rule knows about its fact.
LEMMA PromoteKnows ==
  ASSUME Inv, NEW i \in DOMAIN facts, PromoteEdit(i)
  PROVE  /\ facts[i].range # NoRange /\ facts[i].digest = "same"
         /\ ConfidenceOf(facts[i]) >= options.minimum
         /\ GuardsHold(facts[i])
<1> DEFINE f == facts[i]
<1>1. f.range # NoRange /\ AllPassed(ProposalGuards(f))
  BY DEF PromoteEdit
<1>2. \A g \in SourceGuards(f) : g.status \in {"passed", "not_applicable"}
  BY <1>1 DEF AllPassed, ProposalGuards
<1>3. Guard("minimum_confidence", ConfidenceOf(f) >= options.minimum) \in ProposalGuards(f)
  BY DEF ProposalGuards
<1>4. ConfidenceOf(f) >= options.minimum
  BY <1>1, <1>3 DEF AllPassed, Guard
<1>5. InSources(f.range)
  BY <1>1, <1>2 DEF SourceGuards, Guard
<1>6. f.digest # NoAttr /\ f.digest = "same"
  BY <1>1, <1>2, <1>5 DEF SourceGuards, Guard
<1>7. GuardsHold(f)
  BY <1>1 DEF AllPassed, ProposalGuards, FindingGuards, Decode, GuardsHold
<1> QED
  BY <1>1, <1>4, <1>6, <1>7

\* A planned opportunity is in the sources, and its guards and its confidence allow the edit.
LEMMA OpportunityKnows ==
  ASSUME Inv, NEW i \in DOMAIN facts, PlanOpportunity(i)
  PROVE  /\ facts[i].range # NoRange /\ facts[i].digest = "same"
         /\ ConfidenceOf(facts[i]) >= options.minimum
         /\ GuardsHold(facts[i])
<1> DEFINE f == facts[i]
<1>1. /\ f.range # NoRange /\ AllPassed(OpportunityGuards(f))
      /\ ConfidenceOf(f) >= options.minimum
  BY DEF PlanOpportunity, CanEdit
<1>2. Guard("range_starts_with_expected_token", InSources(f.range) /\ f.digest = "same")
        \in OpportunityGuards(f)
  BY <1>1 DEF OpportunityGuards
<1>3. GuardsHold(f)
  BY DEF PlanOpportunity, Take, GuardsHold
<1> QED
  BY <1>1, <1>2, <1>3 DEF AllPassed, Guard

\* An edit that is accepted with its grounds and its evidence stays explained.
LEMMA PlanningExplains ==
  ASSUME Inv, ExplainedInv, NEW i \in DOMAIN facts, NEW by \in Rules, NEW guards,
         EditOf(facts[i], by) \in Askable, PlanEdit(i, by), AllPassed(guards),
         facts[i].range # NoRange, facts[i].digest = "same",
         ConfidenceOf(facts[i]) >= options.minimum, GuardsHold(facts[i]),
         Explain(i, by, guards), UNCHANGED <<facts, options>>
  PROVE  ExplainedInv'
<1> DEFINE e == EditOf(facts[i], by)
           g == GroundsOf(i, by)
<1>1. /\ evidence \subseteq evidence'
      /\ [id |-> g.evidence, guards |-> guards] \in evidence'
  BY DEF Explain, GroundsOf
<1>2. \A j \in DOMAIN grounds :
        grounds'[j] = grounds[j] /\ edits'[j] = edits[j] => Explained(j)'
  BY <1>1 DEF ExplainedInv, Explained, ConfidenceOf
<1>3. CASE UNCHANGED <<edits, grounds>>
  <2>1. \A j \in DOMAIN grounds' : Explained(j)'
    BY <1>2, <1>3
  <2>2. ListsTyped'
    BY <1>3 DEF ExplainedInv, ListsTyped
  <2> QED
    BY <2>1, <2>2 DEF ExplainedInv
<1>4. CASE edits' = Append(edits, e) /\ grounds' = Append(grounds, g)
  <2>1. i \in Nat /\ facts[i] \in Known
    BY ElementOfSeq DEF Inv, FactsKnown
  <2>2. ListsTyped
    BY DEF ExplainedInv
  <2> DEFINE Gs == {[fact |-> k, evidence |-> EvidenceId(f, r)] :
                        k \in Nat, f \in Known, r \in Rules}
  <2>3. g \in Gs
    BY <2>1 DEF GroundsOf
  <2>4. edits \in Seq(Askable) /\ grounds \in Seq(Gs) /\ Len(grounds) = Len(edits)
    BY <2>2 DEF ListsTyped
  <2> HIDE DEF Gs, e, g
  <2>5. /\ edits' \in Seq(Askable) /\ Len(edits') = Len(edits) + 1
        /\ edits'[Len(edits) + 1] = e
        /\ \A j \in 1..Len(edits) : edits'[j] = edits[j]
    BY <1>4, <2>4, AppendProperties DEF e
  <2>6. /\ grounds' \in Seq(Gs) /\ Len(grounds') = Len(grounds) + 1
        /\ grounds'[Len(grounds) + 1] = g
        /\ \A j \in 1..Len(grounds) : grounds'[j] = grounds[j]
    BY <1>4, <2>3, <2>4, AppendProperties
  <2>7. DOMAIN grounds = 1..Len(grounds) /\ DOMAIN grounds' = 1..(Len(grounds) + 1)
    BY <2>4, <2>6, LenProperties
  <2>8. Len(grounds) \in Nat
    BY <2>4, LenProperties
  <2>9. \A j \in DOMAIN grounds : Explained(j)'
    BY <1>2, <2>4, <2>5, <2>6, <2>7
  <2>10. ASSUME NEW n, n = Len(grounds) + 1 PROVE Explained(n)'
    <3>1. grounds'[n] = g /\ edits'[n] = e
      BY <2>4, <2>5, <2>6, <2>10
    <3>2. g.fact = i /\ e.rule = by
      BY DEF g, e, GroundsOf, EditOf
    <3>3. e = EditOf(facts'[i], e.rule)
      BY <3>2 DEF e
    <3>4. \E v \in evidence' : v.id = g.evidence /\ AllPassed(v.guards)
      BY <1>1 DEF g
    <3> QED
      BY <3>1, <3>2, <3>3, <3>4 DEF Explained, ConfidenceOf
  <2>11. ListsTyped'
    BY <2>4, <2>5, <2>6 DEF ListsTyped, Gs, EvidenceId
  <2> QED
    BY <2>7, <2>8, <2>9, <2>10, <2>11 DEF ExplainedInv
<1> QED
  BY <1>3, <1>4, PlanEditCases

\* No other step changes what an explanation rests on.
LEMMA QuietExplains ==
  ASSUME Inv, ExplainedInv, [Next]_vars, Quiet
  PROVE  ExplainedInv'
<1>1. ListsTyped'
  BY DEF Quiet, editVars, ExplainedInv, ListsTyped
<1>2. evidence \subseteq evidence' /\ UNCHANGED options
  BY DEF Next, vars, planVars, AdapterAdds, AdapterReports, ProposeEdit, ProposeFinding,
         TranspilerReturns, TranspilerThrows, StartRules, RegisterCapsule, NextRule, Finish,
         PromoteEdit, ReviewEdit, AcceptFinding, ReviewOpportunity, PlanOpportunity, Take,
         Explain
<1>3. UNCHANGED facts \/ \E f : AddFact(f)
  BY DEF Next, vars, adapterVars, AdapterAdds, AdapterReports, ProposeEdit, ProposeFinding,
         TranspilerReturns, TranspilerThrows, StartRules, RegisterCapsule, NextRule, Finish,
         PromoteEdit, ReviewEdit, AcceptFinding, ReviewOpportunity, PlanOpportunity, Take
<1>4. \A i \in DOMAIN facts : i \in DOMAIN facts' /\ facts'[i] = facts[i]
  BY <1>3, AppendProperties DEF AddFact, Inv, FactsKnown
<1>5. ASSUME NEW j \in DOMAIN grounds PROVE Explained(j)'
  <2>1. Explained(j)
    BY DEF ExplainedInv
  <2>2. grounds'[j] = grounds[j] /\ edits'[j] = edits[j]
    BY DEF Quiet, editVars
  <2> QED
    BY <1>2, <1>4, <2>1, <2>2 DEF Explained, ConfidenceOf
<1> QED
  BY <1>1, <1>5 DEF Quiet, ExplainedInv

\* Every accepted edit always has its explanation.
LEMMA AlwaysExplained == Spec => []ExplainedInv
<1>1. Init => ExplainedInv
  BY DEF Init, EditsOfPlan!Init, ExplainedInv, ListsTyped
<1>2. ASSUME Inv, ExplainedInv, [Next]_vars PROVE ExplainedInv'
  <2>1. CASE Quiet
    BY <1>2, <2>1, QuietExplains
  <2>2. ASSUME NEW i \in DOMAIN facts, PromoteEdit(i) PROVE ExplainedInv'
    <3>1. facts[i].rule \in Rules
      BY <1>2 DEF Inv, FactsKnown
    <3>2. /\ Explain(i, facts[i].rule, ProposalGuards(facts[i]))
          /\ AllPassed(ProposalGuards(facts[i]))
          /\ UNCHANGED <<facts, options>>
      BY <2>2 DEF PromoteEdit, Take, adapterVars
    <3> QED
      BY <1>2, <2>2, <3>1, <3>2, PromoteAsks, PromoteKnows, PlanningExplains
  <2>3. ASSUME NEW i \in DOMAIN facts, PlanOpportunity(i) PROVE ExplainedInv'
    <3>1. rule.id \in Rules
      BY <1>2, <2>3, EngineAssumption DEF Inv, RulesKnown, PlanOpportunity, Take
    <3>2. /\ Explain(i, rule.id, OpportunityGuards(facts[i]))
          /\ AllPassed(OpportunityGuards(facts[i]))
          /\ UNCHANGED <<facts, options>>
      BY <2>3 DEF PlanOpportunity, Take, CanEdit, adapterVars
    <3> QED
      BY <1>2, <2>3, <3>1, <3>2, OpportunityAsks, OpportunityKnows, PlanningExplains
  <2> QED
    BY <1>2, <2>1, <2>2, <2>3, OnlyTwoPlan
<1> QED
  BY <1>1, <1>2, InvInit, InvStep, PTL DEF Spec

\* An accepted edit is explained by its fact, and by evidence whose guards passed.
THEOREM EveryEditIsExplained == Spec => []EditsExplained
<1>1. ExplainedInv => EditsExplained
  BY DEF ExplainedInv, Explained, EditsExplained
<1> QED
  BY <1>1, AlwaysExplained, PTL

\* No edit is accepted against a guard its proposal came with.
THEOREM GuardsAreKept == Spec => []NoEditAgainstGuard
<1>1. ExplainedInv => NoEditAgainstGuard
  BY DEF ExplainedInv, Explained, NoEditAgainstGuard
<1> QED
  BY <1>1, AlwaysExplained, PTL

-----------------------------------------------------------------------------
(* A finding that says "planned" has its edit: the status waits for the    *)
(* answer of add(), and neither list ever loses an entry.                  *)
LEMMA AcceptedIsAppended ==
  ASSUME NEW i, NEW by, PlanEdit(i, by), last'.outcome = "Accepted"
  PROVE  /\ edits' = Append(edits, EditOf(facts[i], by))
         /\ grounds' = Append(grounds, GroundsOf(i, by))
<1> DEFINE e == EditOf(facts[i], by)
<1>1. EditsOfPlan!AddInvalid(e, TRUE) => last'.outcome = "Invalid"
  BY DEF EditsOfPlan!AddInvalid, EditsOfPlan!Result
<1>2. EditsOfPlan!AddDuplicate(e, TRUE) => last'.outcome = "Duplicate"
  BY DEF EditsOfPlan!AddDuplicate, EditsOfPlan!Result
<1>3. EditsOfPlan!AddConflict(e, TRUE) => last'.outcome = "Conflict"
  BY DEF EditsOfPlan!AddConflict, EditsOfPlan!Result
<1>4. EditsOfPlan!AddAccepted(e, TRUE)
  BY <1>1, <1>2, <1>3 DEF PlanEdit, EditsOfPlan!Add
<1> QED
  BY <1>4 DEF PlanEdit, GroundsOf, EditsOfPlan!AddAccepted

\* What is in the two lists stays where it is.
LEMMA PlannedStays ==
  ASSUME ListsTyped,
         \/ UNCHANGED <<edits, grounds>>
         \/ \E e, g : edits' = Append(edits, e) /\ grounds' = Append(grounds, g),
         NEW j \in DOMAIN grounds
  PROVE  j \in DOMAIN grounds' /\ grounds'[j] = grounds[j] /\ edits'[j] = edits[j]
<1>1. /\ edits \in Seq(Askable) /\ Len(grounds) = Len(edits)
      /\ \E S : grounds \in Seq(S)
  BY DEF ListsTyped
<1> QED
  BY <1>1, AppendProperties, LenProperties

\* The entry that was appended to both lists.
LEMMA AppendIsLast ==
  ASSUME NEW S, NEW R, edits \in Seq(S), grounds \in Seq(R), Len(grounds) = Len(edits),
         NEW e, NEW g, edits' = Append(edits, e), grounds' = Append(grounds, g)
  PROVE  /\ Len(grounds) + 1 \in DOMAIN grounds'
         /\ grounds'[Len(grounds) + 1] = g /\ edits'[Len(grounds) + 1] = e
<1>1. edits \in Seq(S \cup {e}) /\ grounds \in Seq(R \cup {g})
  OBVIOUS
<1> QED
  BY <1>1, AppendProperties

\* The only finding that says "planned".
LEMMA StatusPlanned ==
  ASSUME [Next]_vars, NEW w \in findings', w.status = "planned", w \notin findings,
         NoAttr # "planned"
  PROVE  \E i \in DOMAIN facts : PlanOpportunity(i)
BY DEF Next, vars, planVars, AdapterAdds, AdapterReports, ProposeEdit, ProposeFinding,
       TranspilerReturns, TranspilerThrows, StartRules, RegisterCapsule, NextRule, Finish,
       PromoteEdit, ReviewEdit, AcceptFinding, ReviewOpportunity, Report

\* A finding says planned only if add() took the edit of its fact.
THEOREM PlannedFindingsAreRight == Spec => []PlannedIsPlanned
<1>1. Init => PlannedIsPlanned
  BY DEF Init, PlannedIsPlanned
<1>2. ASSUME Inv, ExplainedInv, PlannedIsPlanned, [Next]_vars PROVE PlannedIsPlanned'
  <2> DEFINE Has(w) == \E j \in DOMAIN grounds : grounds[j].fact = w.fact /\ edits[j].rule = w.rule
  <2>1. ListsTyped
    BY <1>2 DEF ExplainedInv
  <2>2. \/ UNCHANGED <<edits, grounds>>
        \/ \E e, g : edits' = Append(edits, e) /\ grounds' = Append(grounds, g)
    BY <1>2, OnlyTwoPlan, PlanEditCases, PromoteAsks, OpportunityAsks DEF Quiet, editVars
  <2>3. ASSUME NEW w, Has(w) PROVE Has(w)'
    BY <2>1, <2>2, <2>3, PlannedStays
  <2>4. ASSUME NEW w \in findings', w.status = "planned", w \notin findings PROVE Has(w)'
    <3>1. PICK i \in DOMAIN facts : PlanOpportunity(i)
      BY <1>2, <2>4, StatusPlanned, EngineAssumption
    <3>2. w = [rule |-> rule.id, fact |-> i, status |-> "planned",
               evidence |-> EvidenceId(facts[i], rule.id)]
          /\ last'.outcome = "Accepted"
      BY <2>4, <3>1 DEF PlanOpportunity, Report
    <3>3. /\ edits' = Append(edits, EditOf(facts[i], rule.id))
          /\ grounds' = Append(grounds, GroundsOf(i, rule.id))
      BY <1>2, <3>1, <3>2, OpportunityAsks, AcceptedIsAppended
    <3>4. /\ Len(grounds) + 1 \in DOMAIN grounds'
          /\ grounds'[Len(grounds) + 1] = GroundsOf(i, rule.id)
          /\ edits'[Len(grounds) + 1] = EditOf(facts[i], rule.id)
      <4>1. /\ edits \in Seq(Askable) /\ Len(grounds) = Len(edits)
            /\ \E S : grounds \in Seq(S)
        BY <2>1 DEF ListsTyped
      <4> QED
        BY <3>3, <4>1, AppendIsLast
    <3> QED
      BY <3>2, <3>4 DEF GroundsOf, EditOf
  <2> QED
    BY <1>2, <2>3, <2>4 DEF PlannedIsPlanned
<1> QED
  BY <1>1, <1>2, InvInit, InvStep, AlwaysExplained, AlwaysInv, PTL DEF Spec

-----------------------------------------------------------------------------
(* What failed before the rules ran is an error in the sink, and Finish    *)
(* copies the sink into the plan when nothing is added any more.           *)
FailureInv ==
  /\ failed <=> "error" \in diagnostics
  /\ phase = "done" => planDiagnostics = diagnostics

\* A finished plan has errors exactly if an adapter failed or edits conflicted.
THEOREM FailuresAreVisible == Spec => []FailureVisible
<1>1. Init => FailureInv
  BY DEF Init, FailureInv
<1>2. FailureInv /\ [Next]_vars => FailureInv'
  <2> SUFFICES ASSUME FailureInv, [Next]_vars PROVE FailureInv'
    OBVIOUS
  <2>1. CASE UNCHANGED <<phase, failed, diagnostics, planDiagnostics>>
    BY <2>1 DEF FailureInv
  <2>2. CASE AdapterReports \/ TranspilerThrows
    BY <2>2 DEF FailureInv, AdapterReports, TranspilerThrows, Transpiling
  <2>3. ASSUME NEW o \in Offers, ProposeEdit(o) \/ ProposeFinding(o) PROVE FailureInv'
    BY <2>3 DEF FailureInv, ProposeEdit, ProposeFinding, Transpiling, Warn
  <2>4. CASE StartRules \/ Finish
    BY <2>4 DEF FailureInv, StartRules, Finish, adapterVars
  <2>5. \/ UNCHANGED <<phase, failed, diagnostics, planDiagnostics>>
        \/ AdapterReports \/ TranspilerThrows
        \/ \E o \in Offers : ProposeEdit(o) \/ ProposeFinding(o)
        \/ StartRules \/ Finish
    BY DEF Next, vars, adapterVars, AdapterAdds, TranspilerReturns, RegisterCapsule, NextRule,
           PromoteEdit, ReviewEdit, AcceptFinding, ReviewOpportunity, PlanOpportunity, Take
  <2> QED
    BY <2>1, <2>2, <2>3, <2>4, <2>5
<1>3. FailureInv => FailureVisible
  BY DEF FailureInv, FailureVisible, HasErrors
<1> QED
  BY <1>1, <1>2, <1>3, PTL DEF Spec

-----------------------------------------------------------------------------
(* A fact that an enabled rule is for is never lost on the way: until it   *)
(* shows in the plan it is due, now, by a rule that is still to run, or by *)
(* a capsule that has yet to be asked for its rules.                       *)
Shows(i) ==
  \/ \E w \in findings : w.fact = i
  \/ facts[i].kind = "edit" /\ (Planned(facts[i]) \/ Conflicting(facts[i]))

Due(i) ==
  \/ i \in ToSet(todo)
  \/ \E r \in ToSet(rules) : RuleTargeted(r) /\ r.object = facts[i].object
  \/ \E c \in (registered + 1)..Len(Capsules) : CapsuleEnabled(Capsules[c]) /\
       \E k \in DOMAIN Capsules[c].rules : facts[i].object = Capsules[c].rules[k].object

\* The rules of an enabled capsule run for the target it was enabled for.
TargetsAgree ==
  \A c \in DOMAIN Capsules : CapsuleEnabled(Capsules[c]) =>
    \A k \in DOMAIN Capsules[c].rules : RuleTargeted(Capsules[c].rules[k])

KindsAgree(f) == IF f.object = NoAttr THEN f.kind \in {"edit", "finding"} ELSE f.kind = "opportunity"

Answers == [existing : Askable, proposed : Askable]

ClassifiedInv ==
  /\ \A i \in DOMAIN facts : KindsAgree(facts[i])
  /\ conflicts \in Seq(Answers)
  /\ todo \in Seq(Nat)
  /\ phase \in {"analyzing", "ruling", "done"}
  /\ phase = "analyzing" => registered = 0
  /\ phase = "done" => registered = Len(Capsules) /\ todo = <<>> /\ rules = <<>>
  /\ phase # "analyzing" /\ TargetsAgree =>
       \A i \in DOMAIN facts : Relevant(facts[i]) => Shows(i) \/ Due(i)

SourcesInv ==
  /\ turn \in Nat
  /\ turn > 0 => \A i \in DOMAIN facts : facts[i].range = NoRange \/ InSources(facts[i].range)

\* What EditSet::add() does to the two lists: each stays or gets one more entry.
LEMMA AddAppends ==
  ASSUME NEW e, EditsOfPlan!Add(e, TRUE)
  PROVE  \/ UNCHANGED <<edits, conflicts>>
         \/ edits' = Append(edits, e) /\ UNCHANGED conflicts
         \/ /\ UNCHANGED edits
            /\ \E i \in DOMAIN edits : conflicts' = Append(conflicts, [existing |-> edits[i], proposed |-> e])
BY DEF EditsOfPlan!Add, EditsOfPlan!AddInvalid, EditsOfPlan!AddDuplicate, EditsOfPlan!AddConflict,
       EditsOfPlan!AddAccepted

\* An entry that is added to a list is there, and all the others stay where they are.
LEMMA Appended ==
  ASSUME NEW X, NEW q \in Seq(X), NEW x \in X
  PROVE  /\ Append(q, x) \in Seq(X)
         /\ \E j \in DOMAIN Append(q, x) : Append(q, x)[j] = x
         /\ \A j \in DOMAIN q : j \in DOMAIN Append(q, x) /\ Append(q, x)[j] = q[j]
<1>1. Len(q) \in Nat /\ DOMAIN q = 1..Len(q)
  OBVIOUS
<1>2. /\ Append(q, x) \in Seq(X) /\ DOMAIN Append(q, x) = 1..(Len(q) + 1)
      /\ Append(q, x)[Len(q) + 1] = x /\ \A j \in 1..Len(q) : Append(q, x)[j] = q[j]
  BY AppendProperties
<1> QED BY <1>1, <1>2

\* The entries of both lists stay where they are, whatever is asked.
LEMMA ListsGrow ==
  ASSUME Inv, ExplainedInv, conflicts \in Seq(Answers), [Next]_vars
  PROVE  /\ conflicts' \in Seq(Answers)
         /\ \A j \in DOMAIN edits : j \in DOMAIN edits' /\ edits'[j] = edits[j]
         /\ \A j \in DOMAIN conflicts : j \in DOMAIN conflicts' /\ conflicts'[j] = conflicts[j]
<1>1. edits \in Seq(Askable)
  BY DEF ExplainedInv, ListsTyped
<1>2. CASE Quiet
  BY <1>2 DEF Quiet, editVars
<1>3. ASSUME NEW i \in DOMAIN facts, PromoteEdit(i) \/ PlanOpportunity(i)
      PROVE  \E e \in Askable : EditsOfPlan!Add(e, TRUE)
  BY <1>3, PromoteAsks, OpportunityAsks DEF PlanEdit
<1>4. ASSUME NEW e \in Askable, EditsOfPlan!Add(e, TRUE)
      PROVE  /\ conflicts' \in Seq(Answers)
             /\ \A j \in DOMAIN edits : j \in DOMAIN edits' /\ edits'[j] = edits[j]
             /\ \A j \in DOMAIN conflicts : j \in DOMAIN conflicts' /\ conflicts'[j] = conflicts[j]
  <2>1. \A i \in DOMAIN edits : [existing |-> edits[i], proposed |-> e] \in Answers
    BY <1>1 DEF Answers
  <2>2. CASE UNCHANGED <<edits, conflicts>>
    BY <2>2
  <2>3. CASE edits' = Append(edits, e) /\ UNCHANGED conflicts
    BY <1>1, <2>3, Appended
  <2>4. ASSUME NEW i \in DOMAIN edits, UNCHANGED edits,
               conflicts' = Append(conflicts, [existing |-> edits[i], proposed |-> e])
        PROVE  /\ conflicts' \in Seq(Answers)
               /\ \A j \in DOMAIN conflicts : j \in DOMAIN conflicts' /\ conflicts'[j] = conflicts[j]
    BY <2>1, <2>4, Appended
  <2> QED BY <1>4, <2>2, <2>3, <2>4, AddAppends
<1> QED BY <1>2, <1>3, <1>4, OnlyTwoPlan

\* What shows in the plan goes on to do so.
LEMMA ShowsStays ==
  ASSUME Inv, ExplainedInv, conflicts \in Seq(Answers), [Next]_vars, NEW i \in DOMAIN facts, Shows(i),
         facts'[i] = facts[i]
  PROVE  Shows(i)'
<1>1. findings \subseteq findings'
  BY DEF Next, vars, planVars, AdapterAdds, AdapterReports, ProposeEdit, ProposeFinding,
         TranspilerReturns, TranspilerThrows, StartRules, RegisterCapsule, NextRule, Finish,
         PromoteEdit, ReviewEdit, AcceptFinding, ReviewOpportunity, PlanOpportunity, Report
<1>2. Planned(facts[i]) => Planned(facts[i])'
  BY ListsGrow DEF Planned
<1>3. Conflicting(facts[i]) => Conflicting(facts[i])'
  BY ListsGrow DEF Conflicting
<1> QED BY <1>1, <1>2, <1>3 DEF Shows

\* What an edit is asked for is answered: it is planned, planned already, or in conflict.
LEMMA AskedShows ==
  ASSUME ListsTyped, conflicts \in Seq(Answers), NEW i, NEW by, PlanEdit(i, by), EditOf(facts[i], by) \in Askable,
         InSources(facts[i].range), facts[i].replacement # NoAttr, facts[i].kind = "edit", UNCHANGED facts
  PROVE  Shows(i)'
<1> DEFINE e == EditOf(facts[i], by)
<1>1. facts[i].range # NoRange /\ EditsOfPlan!WellFormed(e, TRUE)
  <2>1. e.file = facts[i].range.file /\ e.begin = facts[i].range.begin /\ e.end = facts[i].range.end
    BY DEF EditOf
  <2> HIDE DEF e
  <2> QED BY <2>1 DEF InSources, EditsOfPlan!WellFormed, EditsOfPlan!Contains, EditsOfPlan!ValidRange
<1>2. ~EditsOfPlan!AddInvalid(e, TRUE)
  BY <1>1 DEF EditsOfPlan!AddInvalid
<1>3. e = EditOf(facts[i], e.rule) /\ edits \in Seq(Askable)
  BY DEF EditOf, ListsTyped
<1>4. CASE EditsOfPlan!AddDuplicate(e, TRUE)
  <2>1. PICK j \in DOMAIN edits' : SameEdit(edits'[j], e)
    <3> HIDE DEF e
    <3>1. (\E j \in DOMAIN edits : SameEdit(edits[j], e)) /\ edits' = edits
      BY <1>4 DEF EditsOfPlan!AddDuplicate, EditsOfPlan!SameEdit, SameEdit
    <3> QED BY <3>1
  <2>2. SameEdit(edits'[j], EditOf(facts[i], edits'[j].rule))
    BY <2>1 DEF SameEdit, EditOf
  <2> QED BY <1>1, <2>2 DEF Shows, Planned
<1>5. CASE EditsOfPlan!AddAccepted(e, TRUE)
  <2>1. edits' = Append(edits, e)
    BY <1>5 DEF EditsOfPlan!AddAccepted
  <2>2. PICK j \in DOMAIN edits' : edits'[j] = e
    BY <1>3, <2>1, Appended
  <2>3. SameEdit(edits'[j], EditOf(facts[i], edits'[j].rule))
    BY <1>3, <2>2 DEF SameEdit
  <2> QED BY <1>1, <2>3 DEF Shows, Planned
<1>6. CASE EditsOfPlan!AddConflict(e, TRUE)
  <2>1. PICK k \in DOMAIN edits : conflicts' = Append(conflicts, [existing |-> edits[k], proposed |-> e])
    BY <1>6 DEF EditsOfPlan!AddConflict
  <2>2. [existing |-> edits[k], proposed |-> e] \in Answers
    BY <1>3 DEF Answers
  <2>3. PICK j \in DOMAIN conflicts' : conflicts'[j] = [existing |-> edits[k], proposed |-> e]
    BY <2>1, <2>2, Appended
  <2>4. conflicts'[j].proposed = EditOf(facts[i], conflicts'[j].proposed.rule)
    BY <1>3, <2>3
  <2> QED BY <1>1, <2>4 DEF Shows, Conflicting
<1> QED BY <1>2, <1>4, <1>5, <1>6 DEF PlanEdit, EditsOfPlan!Add

\* Each of the five ways to deal with a fact has it show in the plan.
LEMMA TakenShows ==
  ASSUME Inv, ExplainedInv, conflicts \in Seq(Answers), NEW i \in DOMAIN facts,
         \/ PromoteEdit(i) \/ ReviewEdit(i) \/ AcceptFinding(i) \/ ReviewOpportunity(i) \/ PlanOpportunity(i)
  PROVE  Shows(i)'
<1>1. CASE PromoteEdit(i)
  <2>1. AllPassed(ProposalGuards(facts[i])) /\ facts[i].range # NoRange /\ facts[i].replacement # NoAttr
    BY <1>1 DEF PromoteEdit
  <2>2. InSources(facts[i].range)
    <3>1. \A g \in SourceGuards(facts[i]) : g.status \in {"passed", "not_applicable"}
      BY <2>1 DEF AllPassed, ProposalGuards
    <3> QED BY <2>1, <3>1 DEF SourceGuards, Guard
  <2>3. facts[i].kind = "edit" /\ UNCHANGED facts
    BY <1>1 DEF PromoteEdit, Take, adapterVars
  <2> QED BY <1>1, <2>1, <2>2, <2>3, PromoteAsks, AskedShows DEF ExplainedInv
<1>2. CASE ReviewEdit(i) \/ AcceptFinding(i) \/ ReviewOpportunity(i) \/ PlanOpportunity(i)
  <2>1. \E by, status : Report(i, by, status)
    BY <1>2 DEF ReviewEdit, AcceptFinding, ReviewOpportunity, PlanOpportunity
  <2>2. ASSUME NEW by, NEW status, Report(i, by, status) PROVE \E w \in findings' : w.fact = i
    <3> DEFINE w == [rule |-> by, fact |-> i, status |-> status, evidence |-> EvidenceId(facts[i], by)]
    <3>1. w \in findings' /\ w.fact = i
      BY <2>2 DEF Report
    <3> HIDE DEF w
    <3> QED BY <3>1
  <2> QED BY <2>1, <2>2 DEF Shows
<1> QED BY <1>1, <1>2

\* The positions that Where returns.
LEMMA WhereFinds ==
  ASSUME FactsKnown, NEW kind, NEW object
  PROVE  /\ Where(kind, object) \in Seq(Nat)
         /\ ToSet(Where(kind, object)) = {i \in DOMAIN facts : facts[i].kind = kind /\ facts[i].object = object}
<1> DEFINE all == [i \in 1..Len(facts) |-> i]
           wanted == {i \in 1..Len(facts) : facts[i].kind = kind /\ facts[i].object = object}
<1>1. Len(facts) \in Nat /\ DOMAIN facts = 1..Len(facts)
  BY DEF FactsKnown
<1>2. all \in Seq(Nat) /\ DOMAIN all = 1..Len(facts)
  BY <1>1
<1>3. Where(kind, object) = Picked(all, wanted)
  BY DEF Where
<1>4. Picked(all, wanted) \in Seq(Nat) /\ ToSet(Picked(all, wanted)) = {all[k] : k \in DOMAIN all \cap wanted}
  <2> HIDE DEF all, wanted
  <2> QED BY <1>2, PickedMembers
<1>5. {all[k] : k \in DOMAIN all \cap wanted} = wanted
  BY <1>2
<1> QED BY <1>1, <1>3, <1>4, <1>5

\* A targeted rule gets every fact it is for.
LEMMA WorkIsComplete ==
  ASSUME FactsKnown, NEW r, NEW i \in DOMAIN facts, KindsAgree(facts[i]), facts[i].object = r.object
  PROVE  WorkOf(r) \in Seq(Nat) /\ i \in ToSet(WorkOf(r))
<1>1. CASE r.object = NoAttr
  <2>1. WorkOf(r) \in Seq(Nat)
        /\ ToSet(WorkOf(r)) = ToSet(Where("edit", NoAttr)) \cup ToSet(Where("finding", NoAttr))
    BY <1>1, WhereFinds, ConcatMembers DEF WorkOf
  <2> QED BY <1>1, <2>1, WhereFinds DEF KindsAgree
<1>2. CASE r.object # NoAttr
  BY <1>2, WhereFinds DEF WorkOf, KindsAgree
<1> QED BY <1>1, <1>2

\* The work of a rule is a list of positions.
LEMMA WorkIsPositions == ASSUME FactsKnown, NEW r PROVE WorkOf(r) \in Seq(Nat)
BY WhereFinds, ConcatProperties DEF WorkOf

\* What a run is asked for stays the same, and facts only come in while adapters run.
LEMMA FactsStay ==
  ASSUME Inv, [Next]_vars
  PROVE  /\ UNCHANGED options
         /\ phase # "analyzing" => UNCHANGED facts
BY DEF Next, vars, adapterVars, AdapterAdds, AdapterReports, ProposeEdit, ProposeFinding, Transpiling,
       TranspilerReturns, TranspilerThrows, StartRules, RegisterCapsule, NextRule, Finish,
       PromoteEdit, ReviewEdit, AcceptFinding, ReviewOpportunity, PlanOpportunity, Take

\* Which rules a fact is for is a matter of the options.
LEMMA SameRelevance ==
  ASSUME UNCHANGED options
  PROVE  /\ TargetsAgree' <=> TargetsAgree
         /\ \A f : Relevant(f)' <=> Relevant(f)
         /\ \A r : RuleTargeted(r)' <=> RuleTargeted(r)
         /\ \A c : CapsuleEnabled(c)' <=> CapsuleEnabled(c)
BY DEF TargetsAgree, Relevant, RuleTargeted, CapsuleEnabled

\* The kind and the object of a fact that is added belong together.
LEMMA KindsStep ==
  ASSUME Inv, \A i \in DOMAIN facts : KindsAgree(facts[i]), [Next]_vars
  PROVE  \A i \in DOMAIN facts' : KindsAgree(facts'[i])
<1>1. ASSUME NEW f, AddFact(f), KindsAgree(f) PROVE \A i \in DOMAIN facts' : KindsAgree(facts'[i])
  <2>1. facts \in Seq(Known \cup {f}) /\ facts' = Append(facts, f)
    BY <1>1 DEF Inv, FactsKnown, AddFact
  <2>2. /\ DOMAIN facts' = 1..(Len(facts) + 1) /\ DOMAIN facts = 1..Len(facts) /\ Len(facts) \in Nat
        /\ facts'[Len(facts) + 1] = f /\ \A i \in 1..Len(facts) : facts'[i] = facts[i]
    BY <2>1, AppendProperties
  <2> QED BY <1>1, <2>2
<1>2. CASE AdapterAdds
  <2>1. PICK f \in AdapterFacts : AddFact(f)
    BY <1>2 DEF AdapterAdds
  <2> QED BY <1>1, <2>1, EngineAssumption DEF KindsAgree
<1>3. ASSUME NEW o \in Offers, ProposeEdit(o) \/ ProposeFinding(o)
      PROVE  \A i \in DOMAIN facts' : KindsAgree(facts'[i])
  <2>1. UNCHANGED facts \/ \E range : AddFact(FactOfOffer(o, range))
    BY <1>3 DEF ProposeEdit, ProposeFinding
  <2>2. \A range : KindsAgree(FactOfOffer(o, range))
    BY EngineAssumption DEF KindsAgree, FactOfOffer
  <2> QED BY <1>1, <2>1, <2>2
<1>4. UNCHANGED facts \/ AdapterAdds \/ \E o \in Offers : ProposeEdit(o) \/ ProposeFinding(o)
  BY DEF Next, vars, adapterVars, AdapterReports, TranspilerReturns, TranspilerThrows, StartRules,
         RegisterCapsule, NextRule, Finish, PromoteEdit, ReviewEdit, AcceptFinding, ReviewOpportunity,
         PlanOpportunity, Take
<1> QED BY <1>2, <1>3, <1>4

\* The capsule whose turn it is brings its rules.
LEMMA RegisterKeepsDue ==
  ASSUME Inv, TargetsAgree, RegisterCapsule, NEW i \in DOMAIN facts, Due(i)
  PROVE  Due(i)'
<1> DEFINE c == registered + 1
<1>1. /\ c \in DOMAIN Capsules /\ registered' = c /\ UNCHANGED <<options, facts, todo>>
      /\ rules' = IF CapsuleEnabled(Capsules[c]) THEN rules \o Capsules[c].rules ELSE rules
  BY EngineAssumption DEF RegisterCapsule, Inv, RulesKnown, adapterVars
<1>2. /\ rules \in Seq(RuleRecords) /\ Capsules[c].rules \in Seq(RuleRecords)
      /\ registered \in Nat /\ Len(Capsules) \in Nat
  BY <1>1, EngineAssumption DEF Inv, RulesKnown
<1>3. ToSet(rules') = ToSet(rules) \cup (IF CapsuleEnabled(Capsules[c]) THEN ToSet(Capsules[c].rules) ELSE {})
  BY <1>1, <1>2, ConcatMembers
<1>4. CASE \/ i \in ToSet(todo)
           \/ \E r \in ToSet(rules) : RuleTargeted(r) /\ r.object = facts[i].object
  BY <1>1, <1>3, <1>4, SameRelevance DEF Due
<1>5. ASSUME NEW d \in c..Len(Capsules), CapsuleEnabled(Capsules[d]),
             NEW k \in DOMAIN Capsules[d].rules, facts[i].object = Capsules[d].rules[k].object
      PROVE  Due(i)'
  <2>1. CASE d = c
    <3>1. Capsules[c].rules[k] \in ToSet(rules') /\ RuleTargeted(Capsules[c].rules[k])
      BY <1>1, <1>3, <1>5, <2>1 DEF TargetsAgree, ToSet
    <3> QED BY <1>1, <1>5, <2>1, <3>1, SameRelevance DEF Due
  <2>2. CASE d # c
    <3>1. d \in (c + 1)..Len(Capsules)
      BY <1>2, <2>2
    <3> QED BY <1>1, <1>5, <3>1, SameRelevance DEF Due
  <2> QED BY <2>1, <2>2
<1> QED BY <1>4, <1>5 DEF Due

\* The rule whose turn it is takes its facts.
LEMMA NextRuleKeepsDue ==
  ASSUME Inv, NextRule, NEW i \in DOMAIN facts, KindsAgree(facts[i]), Due(i)
  PROVE  Due(i)'
<1>1. /\ todo = <<>> /\ rules # <<>> /\ rules \in Seq(RuleRecords)
      /\ rule' = Head(rules) /\ rules' = Tail(rules) /\ UNCHANGED <<options, facts, registered>>
      /\ todo' = IF RuleTargeted(rule') THEN WorkOf(rule') ELSE <<>>
  BY DEF NextRule, Inv, RulesKnown, adapterVars
<1>2. ToSet(rules) = {Head(rules)} \cup ToSet(rules') /\ i \notin ToSet(todo)
  <2>1. ToSet(todo) = {}
    BY <1>1 DEF ToSet
  <2> QED BY <1>1, <2>1, TailMembers
<1>3. CASE RuleTargeted(Head(rules)) /\ Head(rules).object = facts[i].object
  <2>1. i \in ToSet(WorkOf(Head(rules)))
    BY <1>3, WorkIsComplete DEF Inv
  <2>2. todo' = WorkOf(Head(rules))
    BY <1>1, <1>3
  <2> QED BY <2>1, <2>2 DEF Due
<1>4. CASE ~(RuleTargeted(Head(rules)) /\ Head(rules).object = facts[i].object)
  BY <1>1, <1>2, <1>4, SameRelevance DEF Due
<1> QED BY <1>3, <1>4

\* What is taken was due, and nothing else loses its turn.
LEMMA TakeKeepsDue ==
  ASSUME Inv, todo \in Seq(Nat), NEW k, NEW kind, Take(k, kind), NEW i \in DOMAIN facts, Due(i), i # k
  PROVE  Due(i)'
<1>1. todo # <<>> /\ k = Head(todo) /\ todo' = Tail(todo) /\ UNCHANGED <<options, facts, registered, rules>>
  BY DEF Take, adapterVars
<1>2. ToSet(todo) = {k} \cup ToSet(todo')
  BY <1>1, TailMembers
<1> QED BY <1>1, <1>2, SameRelevance DEF Due

\* The invariant holds in the beginning ...
LEMMA ClassifiedInit == Init => ClassifiedInv
BY DEF Init, ClassifiedInv, EditsOfPlan!Init

\* The bookkeeping of a run.
LEMMA PhasesStep ==
  ASSUME Inv, ClassifiedInv, [Next]_vars
  PROVE  /\ todo' \in Seq(Nat)
         /\ phase' \in {"analyzing", "ruling", "done"}
         /\ phase' = "analyzing" => registered' = 0
         /\ phase' = "done" => registered' = Len(Capsules) /\ todo' = <<>> /\ rules' = <<>>
<1>1. CASE UNCHANGED <<phase, ruleVars>>
  BY <1>1 DEF ClassifiedInv, ruleVars
<1>2. CASE StartRules \/ Finish
  BY <1>2 DEF ClassifiedInv, StartRules, Finish, ruleVars
<1>3. CASE RegisterCapsule
  BY <1>3 DEF ClassifiedInv, RegisterCapsule
<1>4. CASE NextRule
  <2>1. todo' \in Seq(Nat)
    BY <1>4, WorkIsPositions DEF NextRule, Inv
  <2> QED BY <1>4, <2>1 DEF ClassifiedInv, NextRule
<1>5. ASSUME NEW i, NEW kind, Take(i, kind)
      PROVE  todo' \in Seq(Nat) /\ phase' = "ruling"
  BY <1>5, TailMembers DEF Take, ClassifiedInv
<1>6. \/ UNCHANGED <<phase, ruleVars>>
      \/ StartRules \/ Finish \/ RegisterCapsule \/ NextRule
      \/ \E i, kind : Take(i, kind)
  BY DEF Next, vars, AdapterAdds, AdapterReports, ProposeEdit, ProposeFinding, TranspilerReturns,
         TranspilerThrows, PromoteEdit, ReviewEdit, AcceptFinding, ReviewOpportunity, PlanOpportunity
<1> QED BY <1>1, <1>2, <1>3, <1>4, <1>5, <1>6

\* ... and every step keeps it: a site is due, is being looked at, or shows.
LEMMA ClassifiedStep == ASSUME Inv, ExplainedInv, ClassifiedInv, [Next]_vars PROVE ClassifiedInv'
<1>1. \A i \in DOMAIN facts' : KindsAgree(facts'[i])
  BY KindsStep DEF ClassifiedInv
<1>2. conflicts' \in Seq(Answers)
  BY ListsGrow DEF ClassifiedInv
<1>3. ASSUME phase' # "analyzing", TargetsAgree', NEW i \in DOMAIN facts', Relevant(facts[i])'
      PROVE  Shows(i)' \/ Due(i)'
  <2>1. CASE phase = "analyzing"
    <3>1. StartRules /\ UNCHANGED <<options, facts, registered>> /\ registered = 0
      BY <1>3, <2>1
         DEF Next, vars, AdapterAdds, AdapterReports, ProposeEdit, ProposeFinding, TranspilerReturns,
             TranspilerThrows, StartRules, RegisterCapsule, NextRule, Finish, PromoteEdit, ReviewEdit,
             AcceptFinding, ReviewOpportunity, PlanOpportunity, Take, ruleVars, adapterVars, ClassifiedInv
    <3>2. Relevant(facts[i])
      BY <1>3, <3>1, SameRelevance
    <3>3. PICK c \in DOMAIN Capsules : CapsuleEnabled(Capsules[c]) /\
            \E r \in DOMAIN Capsules[c].rules : facts[i].object = Capsules[c].rules[r].object
      BY <3>2 DEF Relevant
    <3>4. c \in (registered' + 1)..Len(Capsules)
      BY <3>1, <3>3, EngineAssumption
    <3> QED BY <3>1, <3>3, <3>4, SameRelevance DEF Due
  <2>2. CASE phase # "analyzing"
    <3>1. UNCHANGED <<options, facts>> /\ i \in DOMAIN facts /\ TargetsAgree /\ Relevant(facts[i])
      BY <1>3, <2>2, FactsStay, SameRelevance
    <3>2. Shows(i) \/ Due(i)
      BY <2>2, <3>1 DEF ClassifiedInv
    <3>3. CASE Shows(i)
      BY <3>1, <3>3, ShowsStays DEF ClassifiedInv
    <3>4. CASE Due(i)
      <4>1. CASE UNCHANGED ruleVars
        BY <3>1, <3>4, <4>1, SameRelevance DEF Due, ruleVars
      <4>2. CASE RegisterCapsule
        BY <3>1, <3>4, <4>2, RegisterKeepsDue
      <4>3. CASE NextRule
        BY <3>1, <3>4, <4>3, NextRuleKeepsDue DEF ClassifiedInv
      <4>4. ASSUME NEW k \in DOMAIN facts,
                   \/ PromoteEdit(k) \/ ReviewEdit(k) \/ AcceptFinding(k) \/ ReviewOpportunity(k)
                   \/ PlanOpportunity(k)
            PROVE  Shows(i)' \/ Due(i)'
        <5>1. CASE i = k
          BY <4>4, <5>1, TakenShows DEF ClassifiedInv
        <5>2. CASE i # k
          <6>1. \E kind : Take(k, kind)
            BY <4>4 DEF PromoteEdit, ReviewEdit, AcceptFinding, ReviewOpportunity, PlanOpportunity
          <6> QED BY <3>1, <3>4, <5>2, <6>1, TakeKeepsDue DEF ClassifiedInv
        <5> QED BY <5>1, <5>2
      <4>5. \/ UNCHANGED ruleVars \/ RegisterCapsule \/ NextRule
            \/ \E k \in DOMAIN facts :
                 \/ PromoteEdit(k) \/ ReviewEdit(k) \/ AcceptFinding(k) \/ ReviewOpportunity(k)
                 \/ PlanOpportunity(k)
        BY DEF Next, vars, AdapterAdds, AdapterReports, ProposeEdit, ProposeFinding, TranspilerReturns,
               TranspilerThrows, StartRules, Finish
      <4> QED BY <4>1, <4>2, <4>3, <4>4, <4>5
    <3> QED BY <3>2, <3>3, <3>4
  <2> QED BY <2>1, <2>2
<1> QED BY <1>1, <1>2, <1>3, PhasesStep DEF ClassifiedInv

\* What a transpiler proposed points into the sources or nowhere.
LEMMA SourcesStep == ASSUME Inv, SourcesInv, [Next]_vars PROVE SourcesInv'
<1>1. turn' \in Nat /\ (turn' > 0 => turn > 0)
  BY DEF Next, vars, adapterVars, SourcesInv, Transpiling, AdapterAdds, AdapterReports, ProposeEdit,
         ProposeFinding, TranspilerReturns, TranspilerThrows, StartRules, RegisterCapsule, NextRule, Finish,
         PromoteEdit, ReviewEdit, AcceptFinding, ReviewOpportunity, PlanOpportunity, Take
<1>2. ASSUME NEW f, AddFact(f), f.range = NoRange \/ InSources(f.range)
      PROVE  SourcesInv'
  <2>1. facts \in Seq(Known \cup {f}) /\ facts' = Append(facts, f)
    BY <1>2 DEF Inv, FactsKnown, AddFact
  <2>2. /\ DOMAIN facts' = 1..(Len(facts) + 1) /\ DOMAIN facts = 1..Len(facts) /\ Len(facts) \in Nat
        /\ facts'[Len(facts) + 1] = f /\ \A i \in 1..Len(facts) : facts'[i] = facts[i]
    BY <2>1, AppendProperties
  <2> QED BY <1>1, <1>2, <2>2 DEF SourcesInv
<1>3. ASSUME NEW o \in Offers, ProposeEdit(o) \/ ProposeFinding(o) PROVE SourcesInv'
  <2>1. \/ UNCHANGED facts
        \/ \E range : AddFact(FactOfOffer(o, range)) /\ (range = NoRange \/ InSources(range))
    BY <1>3 DEF ProposeEdit, ProposeFinding
  <2>2. \A range : FactOfOffer(o, range).range = range
    BY DEF FactOfOffer
  <2> QED BY <1>1, <1>2, <2>1, <2>2 DEF SourcesInv
<1>4. CASE AdapterAdds
  BY <1>1, <1>4 DEF AdapterAdds, SourcesInv
<1>5. UNCHANGED facts \/ AdapterAdds \/ \E o \in Offers : ProposeEdit(o) \/ ProposeFinding(o)
  BY DEF Next, vars, adapterVars, AdapterReports, TranspilerReturns, TranspilerThrows, StartRules,
         RegisterCapsule, NextRule, Finish, PromoteEdit, ReviewEdit, AcceptFinding, ReviewOpportunity,
         PlanOpportunity, Take
<1> QED BY <1>1, <1>3, <1>4, <1>5 DEF SourcesInv

(* No site is silently skipped: if the rules of the enabled capsules are   *)
(* for the target they were enabled for, every fact they are for shows in  *)
(* the finished plan, and a transpiler's points into the sources or        *)
(* nowhere.                                                                *)
THEOREM NoSiteIsSkipped == Spec => [](TargetsAgree => EverySiteClassified)
<1>1. Init => SourcesInv
  BY DEF Init, SourcesInv
<1>2. Inv /\ ClassifiedInv /\ SourcesInv => (TargetsAgree => EverySiteClassified)
  <2> SUFFICES ASSUME Inv, ClassifiedInv, SourcesInv, TargetsAgree, phase = "done",
                      NEW i \in Positions, Relevant(facts[i])
               PROVE  /\ Shows(i)
                      /\ turn > 0 => facts[i].range = NoRange \/ InSources(facts[i].range)
    BY DEF EverySiteClassified, Shows
  <2>1. i \in DOMAIN facts
    BY DEF Positions, Inv, FactsKnown
  <2>2. registered = Len(Capsules) /\ ToSet(todo) = {} /\ ToSet(rules) = {}
    BY DEF ClassifiedInv, ToSet
  <2>3. ~Due(i)
    BY <2>2, EngineAssumption DEF Due
  <2> QED BY <2>1, <2>3 DEF ClassifiedInv, SourcesInv
<1> QED BY <1>1, <1>2, InvInit, InvStep, AlwaysInv, AlwaysExplained, ClassifiedInit, ClassifiedStep,
           SourcesStep, PTL DEF Spec

-----------------------------------------------------------------------------
(* The matcher *)

\* What glob_match finds at one place, from what it finds further on.
MatchAt(match, p, t, pi, ti) ==
  IF pi = Len(p) THEN ti = Len(t)
  ELSE IF p[pi + 1] = "*" THEN
    LET behind == AfterStars(p, pi)
        deep == behind > pi + 1
    IN \/ deep /\ behind < Len(p) /\ p[behind + 1] = "/" /\ match[behind + 1][ti]
       \/ \E n \in ti..Len(t) :
            /\ deep \/ \A k \in (ti + 1)..n : t[k] # "/"
            /\ match[behind][n]
  ELSE /\ ti < Len(t)
       /\ p[pi + 1] = t[ti + 1] \/ (p[pi + 1] = "?" /\ t[ti + 1] # "/")
       /\ match[pi + 1][ti + 1]

Matching(f, p, t) == f = [pi \in 0..Len(p) |-> [ti \in 0..Len(t) |-> MatchAt(f, p, t, pi, ti)]]

\* What the table of the matcher has at one place.
LEMMA MatchingAt ==
  ASSUME NEW f, NEW p, NEW t, Matching(f, p, t), NEW pi \in 0..Len(p), NEW ti \in 0..Len(t)
  PROVE  f[pi][ti] = MatchAt(f, p, t, pi, ti)
<1> QED BY DEF Matching

\* The matcher reads the corner of its table.
LEMMA GlobMatchIs ==
  ASSUME NEW p, NEW t, \E f : Matching(f, p, t)
  PROVE  \E f : Matching(f, p, t) /\ GlobMatch(p, t) = f[0][0]
<1> DEFINE f == CHOOSE f : Matching(f, p, t)
<1>1. Matching(f, p, t)
  OBVIOUS
<1>2. GlobMatch(p, t) = f[0][0]
  BY Zenon DEF GlobMatch, Matching, MatchAt
<1> QED BY <1>1, <1>2

\* The stars end where there is none, or with the pattern.
LEMMA StarsEnd ==
  ASSUME NEW A, NEW p \in Seq(A), NEW pi \in 0..(Len(p) - 1), p[pi + 1] = "*"
  PROVE  LET n == AfterStars(p, pi)
         IN /\ n \in (pi + 1)..Len(p) /\ (n = Len(p) \/ p[n + 1] # "*")
            /\ \A k \in (pi + 1)..n : p[k] = "*"
<1> DEFINE S == {n \in (pi + 1)..Len(p) : n = Len(p) \/ p[n + 1] # "*"}
           n == AfterStars(p, pi)
<1>1. S \in SUBSET Nat /\ Len(p) \in S
  OBVIOUS
<1>2. n \in S /\ \A k \in S : n <= k
  <2> HIDE DEF S
  <2>1. \E m \in S : \A k \in S : m <= k
    BY <1>1, Least
  <2>2. n = Min(S)
    BY DEF AfterStars, S
  <2> QED BY <2>1, <2>2 DEF Min
<1> HIDE DEF n
<1>3. ASSUME NEW k \in (pi + 1)..n PROVE p[k] = "*"
  <2>1. CASE k = pi + 1
    BY <2>1
  <2>2. CASE k # pi + 1
    <3>1. k - 1 \in (pi + 1)..Len(p) /\ ~(n <= k - 1)
      BY <1>2, <2>2
    <3>2. k - 1 \notin S
      BY <1>2, <3>1
    <3> QED BY <3>1, <3>2
  <2> QED BY <2>1, <2>2
<1> QED BY <1>2, <1>3 DEF n

\* The recursion goes from the left of the pattern to its end, so there is such a function.
LEMMA MatchingExists ==
  ASSUME NEW A, NEW p \in Seq(A), NEW t \in Seq(A)
  PROVE  \E f : Matching(f, p, t)
<1> DEFINE top == Len(p)
           S == 0..top
           V == [0..Len(t) -> BOOLEAN]
           rank == [k \in S |-> top - k]
           Table(f) == [pi \in S |-> [ti \in 0..Len(t) |-> MatchAt(f, p, t, pi, ti)]]
           G == [f \in [S -> V] |-> Table(f)]
<1>0. top \in Nat /\ Len(t) \in Nat
  OBVIOUS
<1>1. rank \in [S -> 0..top] /\ \A k \in S : rank[k] = top - k
  BY <1>0
<1>2. ASSUME NEW f \in [S -> V] PROVE Table(f) \in [S -> V]
  <2>1. \A pi \in S : \A ti \in 0..Len(t) : MatchAt(f, p, t, pi, ti) \in BOOLEAN
    <3> SUFFICES ASSUME NEW pi \in S, NEW ti \in 0..Len(t) PROVE MatchAt(f, p, t, pi, ti) \in BOOLEAN
      OBVIOUS
    <3>1. CASE pi # Len(p) /\ p[pi + 1] # "*" /\ ti < Len(t)
      <4>1. pi + 1 \in S /\ ti + 1 \in 0..Len(t)
        BY <1>0, <3>1
      <4>2. f[pi + 1][ti + 1] \in BOOLEAN
        BY <4>1
      <4> QED BY <4>2, <3>1 DEF MatchAt
    <3> QED BY <3>1 DEF MatchAt
  <2> QED BY <2>1
<1>3. ASSUME NEW f \in [S -> V], NEW g \in [S -> V], NEW pi \in S,
             \A d \in S : rank[d] < rank[pi] => f[d] = g[d]
      PROVE  Table(f)[pi] = Table(g)[pi]
  <2>1. \A d \in S : pi < d => f[d] = g[d]
    BY <1>0, <1>1, <1>3
  <2>2. ASSUME NEW ti \in 0..Len(t) PROVE MatchAt(f, p, t, pi, ti) = MatchAt(g, p, t, pi, ti)
    <3>1. CASE pi # Len(p) /\ p[pi + 1] = "*"
      <4> DEFINE n == AfterStars(p, pi)
      <4>1. n \in (pi + 1)..Len(p)
        BY <1>0, <3>1, StarsEnd
      <4>2. f[n] = g[n] /\ (n < Len(p) => f[n + 1] = g[n + 1])
        BY <1>0, <2>1, <4>1
      <4> HIDE DEF n
      <4> QED BY <3>1, <4>2 DEF MatchAt, n
    <3>2. CASE pi # Len(p) /\ p[pi + 1] # "*"
      <4>1. f[pi + 1] = g[pi + 1]
        BY <1>0, <2>1, <3>2
      <4> QED BY <3>2, <4>1 DEF MatchAt
    <3>3. CASE pi = Len(p)
      BY <3>3 DEF MatchAt
    <3> QED BY <3>1, <3>2, <3>3
  <2> QED BY <2>2
<1>4. G \in [[S -> V] -> [S -> V]] /\ \A f \in [S -> V] : G[f] = Table(f)
  <2> HIDE DEF S, V, Table
  <2> QED BY <1>2
<1>5. Grounded(G, S, V, rank)
  <2> HIDE DEF S, V, Table, G, rank
  <2> SUFFICES ASSUME NEW f \in [S -> V], NEW g \in [S -> V], NEW k \in S,
                      \A d \in S : rank[d] < rank[k] => f[d] = g[d]
               PROVE  G[f][k] = G[g][k]
    BY DEF Grounded
  <2> QED BY <1>3, <1>4
<1>6. \E f \in [S -> V] : f = G[f]
  <2>0. V # {}
    <3>1. [k \in 0..Len(t) |-> TRUE] \in V
      OBVIOUS
    <3> QED BY <3>1
  <2> HIDE DEF S, V, Table, G, rank
  <2>1. Recursion(G, S, V, rank, top)
    BY <1>0, <1>1, <1>4, <1>5, <2>0 DEF Recursion
  <2> QED BY <2>1, RecursionExists
<1>7. PICK f \in [S -> V] : f = G[f]
  BY <1>6
<1>8. f = Table(f)
  <2> HIDE DEF V, Table, G
  <2> QED BY <1>4, <1>7
<1> QED BY <1>8 DEF Matching

-----------------------------------------------------------------------------
(* Cuts of what is left *)

\* The text behind ti can be cut for the symbols behind pi.
CutFrom(p, t, pi, ti, cut) ==
  /\ cut \in [pi..Len(p) -> 0..Len(t)]
  /\ cut[pi] = ti /\ cut[Len(p)] = Len(t)
  /\ \A k \in (pi + 1)..Len(p) :
       /\ cut[k - 1] <= cut[k]
       /\ p[k] # "*" => cut[k] <= cut[k - 1] + 1
       /\ PieceFits(p, t, k, cut[k - 1], cut[k]) \/ (k > pi + 1 /\ Void(p, k, cut, pi))

MeansFrom(p, t, pi, ti) == \E cut : CutFrom(p, t, pi, ti, cut)

\* A pattern means a text if the text can be cut from its start.
LEMMA MeansIs ==
  ASSUME NEW A, NEW p \in Seq(A), NEW t \in Seq(A)
  PROVE  Means(p, t) <=> MeansFrom(p, t, 0, 0)
<1>0. DOMAIN p = 1..Len(p) /\ Len(p) \in Nat /\ Len(t) \in Nat
  OBVIOUS
<1>1. ASSUME NEW cut PROVE ~Void(p, 1, cut, 0)
  BY <1>0 DEF Void, Deep, Star
<1>2. ASSUME NEW cut \in Cuts(p, t), Fits(p, t, cut) PROVE CutFrom(p, t, 0, 0, cut)
  <2>1. ASSUME NEW k \in 1..Len(p)
        PROVE PieceFits(p, t, k, cut[k - 1], cut[k]) \/ (k > 1 /\ Void(p, k, cut, 0))
    <3>1. PieceFits(p, t, k, cut[k - 1], cut[k]) \/ Void(p, k, cut, 0)
      BY <1>0, <1>2 DEF Fits
    <3>2. k = 1 \/ k > 1
      BY <1>0
    <3> QED BY <1>1, <3>1, <3>2
  <2>2. 0 + 1 = 1 /\ cut \in [0..Len(p) -> 0..Len(t)] /\ cut[0] = 0 /\ cut[Len(p)] = Len(t)
    BY <1>2 DEF Cuts
  <2>3. \A k \in 1..Len(p) : cut[k - 1] <= cut[k] /\ (p[k] # "*" => cut[k] <= cut[k - 1] + 1)
    BY <1>0, <1>2 DEF Cuts
  <2> QED BY <2>1, <2>2, <2>3 DEF CutFrom
<1>3. ASSUME NEW cut, CutFrom(p, t, 0, 0, cut) PROVE cut \in Cuts(p, t) /\ Fits(p, t, cut)
  BY <1>0, <1>3 DEF CutFrom, Cuts, Fits
<1> QED BY <1>2, <1>3 DEF Means, MeansFrom

\* What a piece says, symbol by symbol.
LEMMA PieceIs ==
  ASSUME NEW A, NEW p \in Seq(A), NEW t \in Seq(A), NEW k \in 1..Len(p),
         NEW b \in 0..Len(t), NEW e \in b..Len(t)
  PROVE  PieceFits(p, t, k, b, e) <=>
           \/ e = b + 1 /\ (t[e] = p[k] \/ (p[k] = "?" /\ t[e] # "/"))
           \/ Deep(p, k)
           \/ p[k] = "*" /\ \A i \in (b + 1)..e : t[i] # "/"
<1> DEFINE piece == SubSeq(t, b + 1, e)
<1>1. /\ piece \in Seq(A) /\ Len(piece) = e - b /\ DOMAIN piece = 1..(e - b)
      /\ \A i \in 1..(e - b) : piece[i] = t[b + i]
  OBVIOUS
<1> HIDE DEF piece
<1>2. \A c : piece = <<c>> <=> e = b + 1 /\ t[e] = c
  <2> SUFFICES ASSUME NEW c PROVE piece = <<c>> <=> e = b + 1 /\ t[e] = c
    OBVIOUS
  <2>1. ASSUME piece = <<c>> PROVE e = b + 1 /\ t[e] = c
    <3>1. Len(<<c>>) = 1 /\ <<c>>[1] = c
      OBVIOUS
    <3>2. e - b = 1
      BY <1>1, <2>1, <3>1, Zenon
    <3>3. e = b + 1 /\ 1 \in 1..(e - b)
      BY <3>2
    <3>4. piece[1] = t[b + 1] /\ piece[1] = c
      BY <1>1, <2>1, <3>1, <3>3, Zenon
    <3> QED BY <3>3, <3>4
  <2>2. ASSUME e = b + 1, t[e] = c PROVE piece = <<c>>
    <3>1. e - b = 1 /\ 1 \in 1..1
      BY <2>2
    <3>2. Len(piece) = 1 /\ piece[1] = c
      BY <1>1, <2>2, <3>1
    <3>3. c \in A
      BY <2>2
    <3>4. <<c>> \in Seq(A) /\ Len(<<c>>) = 1 /\ \A i \in 1..1 : piece[i] = <<c>>[i]
      BY <3>2, <3>3
    <3> QED BY <1>1, <3>2, <3>4, SeqEqual
  <2> QED BY <2>1, <2>2
<1>3. Slashes(piece) = {} <=> \A i \in (b + 1)..e : t[i] # "/"
  <2>1. ASSUME NEW i \in (b + 1)..e PROVE i - b \in 1..(e - b) /\ piece[i - b] = t[i]
    <3>1. i - b \in 1..(e - b) /\ b + (i - b) = i
      OBVIOUS
    <3> QED BY <1>1, <3>1
  <2>2. ASSUME NEW i \in 1..(e - b) PROVE b + i \in (b + 1)..e
    OBVIOUS
  <2>3. Slashes(piece) = {} <=> \A i \in 1..(e - b) : piece[i] # "/"
    BY <1>1 DEF Slashes
  <2>4. ASSUME \A i \in 1..(e - b) : piece[i] # "/", NEW i \in (b + 1)..e PROVE t[i] # "/"
    BY <2>1, <2>4
  <2>5. ASSUME \A i \in (b + 1)..e : t[i] # "/", NEW i \in 1..(e - b) PROVE piece[i] # "/"
    BY <1>1, <2>2, <2>5
  <2> QED BY <2>3, <2>4, <2>5
<1>4. Star(p, k) <=> p[k] = "*"
  BY DEF Star
<1>5. Len(piece) = 1 <=> e = b + 1
  BY <1>1
<1>6. PieceFits(p, t, k, b, e) <=>
        \/ piece = <<p[k]>>
        \/ p[k] = "?" /\ Len(piece) = 1 /\ piece # <<"/">>
        \/ Deep(p, k)
        \/ Star(p, k) /\ Slashes(piece) = {}
  BY Zenon DEF PieceFits, piece
<1> QED BY <1>2, <1>3, <1>4, <1>5, <1>6

\* No run of stars goes on across b.
Border(p, b) == ~(Star(p, b) /\ Star(p, b + 1))

\* Where a void begins does not matter if a run of stars cannot reach that far.
LEMMA VoidFrom ==
  ASSUME NEW p, NEW pi \in Nat, NEW b \in Nat, pi < b, Border(p, b), NEW k \in Nat, k >= b + 2,
         NEW c, NEW d, \A i \in b..k : c[i] = d[i]
  PROVE  Void(p, k, c, pi) <=> Void(p, k, d, b)
<1>1. c[k] = d[k]
  OBVIOUS
<1>2. ASSUME Void(p, k, c, pi) PROVE Void(p, k, d, b)
  <2>1. ASSUME NEW j \in (b + 1)..k, \A i \in j..(k - 1) : Star(p, i) PROVE d[j - 1] = d[k]
    <3>1. j \in (pi + 1)..k /\ j - 1 \in b..k
      OBVIOUS
    <3> QED BY <1>1, <1>2, <2>1, <3>1 DEF Void
  <2> QED BY <1>2, <2>1 DEF Void
<1>3. ASSUME Void(p, k, d, b) PROVE Void(p, k, c, pi)
  <2>1. ASSUME NEW j \in (pi + 1)..k, \A i \in j..(k - 1) : Star(p, i) PROVE c[j - 1] = c[k]
    <3>1. CASE j <= b
      <4>1. b \in j..(k - 1) /\ b + 1 \in j..(k - 1)
        BY <3>1
      <4> QED BY <2>1, <4>1 DEF Border
    <3>2. CASE j > b
      <4>1. j \in (b + 1)..k /\ j - 1 \in b..k
        BY <3>2
      <4> QED BY <1>1, <1>3, <2>1, <4>1 DEF Void
    <3> QED BY <3>1, <3>2
  <2> QED BY <1>3, <2>1 DEF Void
<1> QED BY <1>2, <1>3

\* A cut is a cut of what follows a border, if the piece there is not void.
LEMMA CutRest ==
  ASSUME NEW A, NEW p \in Seq(A), NEW t \in Seq(A), NEW pi \in 0..Len(p), NEW b \in (pi + 1)..Len(p),
         Border(p, b), NEW ti, NEW cut, CutFrom(p, t, pi, ti, cut),
         b < Len(p) => PieceFits(p, t, b + 1, cut[b], cut[b + 1])
  PROVE  MeansFrom(p, t, b, cut[b])
<1> DEFINE rest == [i \in b..Len(p) |-> cut[i]]
<1>0. Len(p) \in Nat /\ Len(t) \in Nat /\ b..Len(p) \subseteq pi..Len(p) /\ pi \in Nat /\ b \in Nat /\ pi < b
  OBVIOUS
<1>1. rest \in [b..Len(p) -> 0..Len(t)] /\ \A i \in b..Len(p) : rest[i] = cut[i]
  BY <1>0 DEF CutFrom
<1>2. rest[b] = cut[b] /\ rest[Len(p)] = Len(t)
  BY <1>0, <1>1 DEF CutFrom
<1> HIDE DEF rest
<1>3. ASSUME NEW k \in (b + 1)..Len(p)
      PROVE /\ rest[k - 1] <= rest[k]
            /\ p[k] # "*" => rest[k] <= rest[k - 1] + 1
            /\ PieceFits(p, t, k, rest[k - 1], rest[k]) \/ (k > b + 1 /\ Void(p, k, rest, b))
  <2>1. k \in (pi + 1)..Len(p) /\ k - 1 \in b..Len(p) /\ k \in b..Len(p) /\ k \in Nat
    BY <1>0
  <2>2. rest[k - 1] = cut[k - 1] /\ rest[k] = cut[k]
    BY <1>1, <2>1
  <2>3. CASE k = b + 1
    <3>1. b < Len(p) /\ k - 1 = b
      BY <1>0, <2>3
    <3> QED BY <2>1, <2>2, <2>3, <3>1 DEF CutFrom
  <2>4. CASE k # b + 1
    <3>1. k >= b + 2 /\ k > b + 1
      BY <1>0, <2>4
    <3>2. \A i \in b..k : cut[i] = rest[i]
      BY <1>0, <1>1
    <3>3. Void(p, k, cut, pi) <=> Void(p, k, rest, b)
      BY <1>0, <2>1, <3>1, <3>2, VoidFrom
    <3> QED BY <2>1, <2>2, <3>1, <3>3 DEF CutFrom
  <2> QED BY <2>3, <2>4
<1>4. CutFrom(p, t, b, cut[b], rest)
  BY <1>1, <1>2, <1>3 DEF CutFrom
<1> QED BY <1>4 DEF MeansFrom

\* The other way: a cut of what follows a border, with pieces before it.
LEMMA CutMore ==
  ASSUME NEW A, NEW p \in Seq(A), NEW t \in Seq(A), NEW pi \in 0..Len(p), NEW b \in (pi + 1)..Len(p),
         Border(p, b), NEW rest, CutFrom(p, t, b, rest[b], rest),
         NEW cut \in [pi..Len(p) -> 0..Len(t)], \A i \in b..Len(p) : cut[i] = rest[i],
         \A k \in (pi + 1)..b :
           /\ cut[k - 1] <= cut[k]
           /\ p[k] # "*" => cut[k] <= cut[k - 1] + 1
           /\ PieceFits(p, t, k, cut[k - 1], cut[k]) \/ (k > pi + 1 /\ Void(p, k, cut, pi))
  PROVE  CutFrom(p, t, pi, cut[pi], cut)
<1>0. Len(p) \in Nat /\ Len(t) \in Nat /\ pi \in Nat /\ b \in Nat /\ pi < b
  OBVIOUS
<1>1. cut[Len(p)] = Len(t)
  BY <1>0 DEF CutFrom
<1>2. ASSUME NEW k \in (b + 1)..Len(p)
      PROVE /\ cut[k - 1] <= cut[k]
            /\ p[k] # "*" => cut[k] <= cut[k - 1] + 1
            /\ PieceFits(p, t, k, cut[k - 1], cut[k]) \/ (k > pi + 1 /\ Void(p, k, cut, pi))
  <2>1. k - 1 \in b..Len(p) /\ k \in b..Len(p) /\ k \in Nat /\ k > pi + 1
    BY <1>0
  <2>2. rest[k - 1] = cut[k - 1] /\ rest[k] = cut[k]
    BY <2>1
  <2>3. k > b + 1 => (Void(p, k, cut, pi) <=> Void(p, k, rest, b))
    <3> SUFFICES ASSUME k > b + 1 PROVE Void(p, k, cut, pi) <=> Void(p, k, rest, b)
      OBVIOUS
    <3>1. k >= b + 2
      BY <1>0, <2>1
    <3>2. \A i \in b..k : cut[i] = rest[i]
      BY <1>0
    <3> QED BY <1>0, <2>1, <3>1, <3>2, VoidFrom
  <2> QED BY <2>1, <2>2, <2>3 DEF CutFrom
<1>3. \A k \in (pi + 1)..Len(p) : k \in (pi + 1)..b \/ k \in (b + 1)..Len(p)
  BY <1>0
<1> QED BY <1>1, <1>2, <1>3 DEF CutFrom

\* The cuts never go back.
LEMMA CutGrows ==
  ASSUME NEW A, NEW p \in Seq(A), NEW t \in Seq(A), NEW pi \in 0..Len(p), NEW ti, NEW cut,
         CutFrom(p, t, pi, ti, cut)
  PROVE  \A k \in pi..Len(p) : ti <= cut[k]
<1> DEFINE T == {k \in pi..Len(p) : ti <= cut[k]}
<1>0. Len(p) \in Nat /\ Len(t) \in Nat /\ pi \in Nat /\ pi \in pi..Len(p)
  OBVIOUS
<1>1. ASSUME NEW k \in pi..Len(p), k = pi \/ k - 1 \in T PROVE k \in T
  <2>1. cut[k] \in Nat /\ cut[pi] \in Nat
    BY <1>0 DEF CutFrom
  <2>2. CASE k = pi
    BY <2>1, <2>2 DEF CutFrom
  <2>3. CASE k # pi
    <3>1. k - 1 \in T /\ k \in (pi + 1)..Len(p) /\ k - 1 \in pi..Len(p)
      BY <1>0, <1>1, <2>3
    <3>2. cut[k - 1] <= cut[k] /\ ti <= cut[k - 1] /\ cut[k - 1] \in Nat /\ ti \in Nat
      BY <1>0, <3>1 DEF CutFrom
    <3> QED BY <2>1, <3>2
  <2> QED BY <2>2, <2>3
<1> HIDE DEF T
<1>2. \A k \in pi..Len(p) : k \in T
  BY <1>0, <1>1, CountUp
<1> QED BY <1>2 DEF T

\* Behind the pattern there must be nothing left.
LEMMA MeansAtEnd ==
  ASSUME NEW A, NEW p \in Seq(A), NEW t \in Seq(A), NEW ti \in 0..Len(t)
  PROVE  MeansFrom(p, t, Len(p), ti) <=> ti = Len(t)
<1>0. Len(p) \in Nat /\ Len(t) \in Nat
  OBVIOUS
<1>1. ASSUME ti = Len(t) PROVE CutFrom(p, t, Len(p), ti, [k \in Len(p)..Len(p) |-> ti])
  BY <1>0, <1>1 DEF CutFrom
<1>2. ASSUME NEW cut, CutFrom(p, t, Len(p), ti, cut) PROVE ti = Len(t)
  BY <1>2 DEF CutFrom
<1> QED BY <1>1, <1>2 DEF MeansFrom

\* A symbol that is no star takes one character.
LEMMA MeansAtSymbol ==
  ASSUME NEW A, NEW p \in Seq(A), NEW t \in Seq(A), NEW pi \in 0..(Len(p) - 1), p[pi + 1] # "*",
         NEW ti \in 0..Len(t)
  PROVE  MeansFrom(p, t, pi, ti) <=>
           /\ ti < Len(t)
           /\ p[pi + 1] = t[ti + 1] \/ (p[pi + 1] = "?" /\ t[ti + 1] # "/")
           /\ MeansFrom(p, t, pi + 1, ti + 1)
<1> DEFINE b == pi + 1
<1>0. /\ Len(p) \in Nat /\ Len(t) \in Nat /\ pi \in Nat /\ b \in 1..Len(p) /\ b \in (pi + 1)..Len(p)
      /\ pi \in 0..Len(p) /\ b - 1 = pi /\ b \in pi..Len(p) /\ pi \in pi..Len(p)
  OBVIOUS
<1>1. ~Star(p, b) /\ ~Deep(p, b) /\ Border(p, b)
  BY DEF Star, Deep, Border
<1>2. ASSUME NEW cut, CutFrom(p, t, pi, ti, cut)
      PROVE  /\ ti < Len(t)
             /\ p[b] = t[ti + 1] \/ (p[b] = "?" /\ t[ti + 1] # "/")
             /\ MeansFrom(p, t, b, ti + 1)
  <2>1. cut[pi] = ti /\ cut[b] \in 0..Len(t) /\ ti <= cut[b] /\ PieceFits(p, t, b, ti, cut[b])
    <3>1. /\ cut[pi] = ti /\ cut[b] \in 0..Len(t) /\ cut[b - 1] <= cut[b]
          /\ PieceFits(p, t, b, cut[b - 1], cut[b]) \/ b > pi + 1
      BY <1>0, <1>2 DEF CutFrom
    <3> QED BY <1>0, <3>1
  <2>2. cut[b] = ti + 1 /\ (t[cut[b]] = p[b] \/ (p[b] = "?" /\ t[cut[b]] # "/"))
    <3>1. cut[b] \in ti..Len(t)
      BY <2>1
    <3> QED BY <1>0, <1>1, <2>1, <3>1, PieceIs
  <2>3. b < Len(p) => PieceFits(p, t, b + 1, cut[b], cut[b + 1])
    <3> SUFFICES ASSUME b < Len(p) PROVE PieceFits(p, t, b + 1, cut[b], cut[b + 1])
      OBVIOUS
    <3>1. b + 1 \in (pi + 1)..Len(p) /\ (b + 1) - 1 = b
      BY <1>0
    <3>2. ~Void(p, b + 1, cut, pi)
      BY <1>1, <3>1 DEF Void, Deep
    <3>3. PieceFits(p, t, b + 1, cut[(b + 1) - 1], cut[b + 1]) \/ Void(p, b + 1, cut, pi)
      BY <1>2, <3>1 DEF CutFrom
    <3> QED BY <3>1, <3>2, <3>3
  <2> HIDE DEF b
  <2>4. MeansFrom(p, t, b, cut[b])
    BY <1>0, <1>1, <1>2, <2>3, CutRest
  <2> QED BY <1>0, <2>1, <2>2, <2>4
<1>3. ASSUME ti < Len(t), p[b] = t[ti + 1] \/ (p[b] = "?" /\ t[ti + 1] # "/"), MeansFrom(p, t, b, ti + 1)
      PROVE  MeansFrom(p, t, pi, ti)
  <2>1. PICK rest : CutFrom(p, t, b, ti + 1, rest)
    BY <1>3 DEF MeansFrom
  <2> DEFINE cut == [i \in pi..Len(p) |-> IF i = pi THEN ti ELSE rest[i]]
  <2>2. /\ rest[b] = ti + 1 /\ \A i \in b..Len(p) : rest[i] \in 0..Len(t)
    BY <2>1 DEF CutFrom
  <2>3. cut \in [pi..Len(p) -> 0..Len(t)] /\ cut[pi] = ti /\ \A i \in b..Len(p) : cut[i] = rest[i]
    <3>1. \A i \in pi..Len(p) : i = pi \/ i \in b..Len(p)
      BY <1>0
    <3>2. \A i \in b..Len(p) : i \in pi..Len(p) /\ i # pi
      BY <1>0
    <3> QED BY <1>0, <2>2, <3>1, <3>2
  <2> HIDE DEF cut
  <2>4. cut[b] = ti + 1
    BY <1>0, <2>2, <2>3
  <2>5. PieceFits(p, t, b, ti, ti + 1)
    <3>1. ti + 1 \in ti..Len(t)
      BY <1>3
    <3> QED BY <1>0, <1>3, <3>1, PieceIs
  <2>6. \A k \in (pi + 1)..b :
          /\ cut[k - 1] <= cut[k]
          /\ p[k] # "*" => cut[k] <= cut[k - 1] + 1
          /\ PieceFits(p, t, k, cut[k - 1], cut[k]) \/ (k > pi + 1 /\ Void(p, k, cut, pi))
    <3>1. \A k \in (pi + 1)..b : k = b
      OBVIOUS
    <3>2. cut[b - 1] = ti
      BY <1>0, <2>3
    <3> QED BY <2>4, <2>5, <3>1, <3>2
  <2> HIDE DEF b
  <2>7. CutFrom(p, t, pi, cut[pi], cut)
    BY <1>0, <1>1, <2>1, <2>2, <2>3, <2>6, CutMore
  <2> QED BY <2>3, <2>7 DEF MeansFrom
<1>4. MeansFrom(p, t, pi, ti) <=> \E cut : CutFrom(p, t, pi, ti, cut)
  BY DEF MeansFrom
<1> QED BY <1>2, <1>3, <1>4

\* The stars behind pi end at n.
Run(p, pi, n) == (n = Len(p) \/ p[n + 1] # "*") /\ \A k \in (pi + 1)..n : p[k] = "*"

\* A run of stars takes what has no slash, or anything if it is deep.
LEMMA MeansAtStars ==
  ASSUME NEW A, NEW p \in Seq(A), NEW t \in Seq(A), NEW pi \in 0..(Len(p) - 1), p[pi + 1] = "*",
         Border(p, pi), NEW n \in (pi + 1)..Len(p), Run(p, pi, n), NEW ti \in 0..Len(t)
  PROVE  MeansFrom(p, t, pi, ti) <=>
           \/ n > pi + 1 /\ n < Len(p) /\ p[n + 1] = "/" /\ MeansFrom(p, t, n + 1, ti)
           \/ \E e \in ti..Len(t) :
                (n > pi + 1 \/ \A k \in (ti + 1)..e : t[k] # "/") /\ MeansFrom(p, t, n, e)
<1>0. /\ Len(p) \in Nat /\ Len(t) \in Nat /\ pi \in Nat /\ n \in Nat /\ pi \in 0..Len(p) /\ pi + 1 \in 1..Len(p)
      /\ DOMAIN p = 1..Len(p)
  OBVIOUS
<1>1. (\A k \in (pi + 1)..n : Star(p, k)) /\ ~Star(p, pi) /\ ~Star(p, n + 1) /\ Border(p, n)
  <2>1. \A k \in (pi + 1)..n : Star(p, k)
    <3>1. \A k \in (pi + 1)..n : p[k] = "*"
      BY DEF Run
    <3>2. \A k \in (pi + 1)..n : k \in DOMAIN p
      BY <1>0
    <3> QED BY <3>1, <3>2 DEF Star
  <2>2. pi + 1 \in (pi + 1)..n
    BY <1>0
  <2>3. n = Len(p) => n + 1 \notin DOMAIN p
    BY <1>0
  <2> QED BY <2>1, <2>2, <2>3 DEF Border, Star, Run
<1>2. \A k \in (pi + 1)..n : Deep(p, k) <=> n > pi + 1
  <2> SUFFICES ASSUME NEW k \in (pi + 1)..n PROVE Deep(p, k) <=> n > pi + 1
    OBVIOUS
  <2>1. CASE n > pi + 1 /\ k = pi + 1
    <3>1. k + 1 \in (pi + 1)..n
      BY <1>0, <2>1
    <3> QED BY <1>1, <2>1, <3>1 DEF Deep
  <2>2. CASE n > pi + 1 /\ k # pi + 1
    <3>1. k - 1 \in (pi + 1)..n
      BY <1>0, <2>2
    <3> QED BY <1>1, <2>2, <3>1 DEF Deep
  <2>3. CASE ~(n > pi + 1)
    <3>1. k = pi + 1 /\ k = n /\ k - 1 = pi
      BY <1>0, <2>3
    <3> QED BY <1>1, <2>3, <3>1 DEF Deep
  <2> QED BY <2>1, <2>2, <2>3
<1>3. ASSUME NEW cut, CutFrom(p, t, pi, ti, cut), n < Len(p), Void(p, n + 1, cut, pi)
      PROVE  n > pi + 1 /\ p[n + 1] = "/" /\ MeansFrom(p, t, n + 1, ti)
  <2>1. p[n + 1] = "/" /\ Deep(p, n)
    <3>1. (n + 1) - 1 = n
      BY <1>0
    <3> QED BY <1>3, <3>1 DEF Void
  <2>2. n > pi + 1
    BY <1>0, <1>2, <2>1
  <2>3. cut[n + 1] = ti
    <3>1. pi + 1 \in (pi + 1)..(n + 1) /\ (n + 1) - 1 = n /\ (pi + 1) - 1 = pi
      BY <1>0
    <3>2. cut[pi] = cut[n + 1]
      BY <1>1, <1>3, <3>1 DEF Void
    <3> QED BY <1>3, <3>2 DEF CutFrom
  <2>4. n + 1 < Len(p) => PieceFits(p, t, (n + 1) + 1, cut[n + 1], cut[(n + 1) + 1])
    <3> SUFFICES ASSUME n + 1 < Len(p) PROVE PieceFits(p, t, (n + 1) + 1, cut[n + 1], cut[(n + 1) + 1])
      OBVIOUS
    <3> DEFINE k == (n + 1) + 1
    <3>1. k \in (pi + 1)..Len(p) /\ k - 1 = n + 1
      BY <1>0
    <3>2. ~Void(p, k, cut, pi)
      BY <1>1, <3>1 DEF Void, Deep
    <3>3. PieceFits(p, t, k, cut[k - 1], cut[k]) \/ Void(p, k, cut, pi)
      BY <1>3, <3>1 DEF CutFrom
    <3> QED BY <3>1, <3>2, <3>3
  <2>5. n + 1 \in (pi + 1)..Len(p) /\ Border(p, n + 1)
    BY <1>0, <1>1, <1>3 DEF Border
  <2>6. MeansFrom(p, t, n + 1, cut[n + 1])
    BY <1>0, <1>3, <2>4, <2>5, CutRest
  <2> QED BY <2>1, <2>2, <2>3, <2>6
<1>4. ASSUME NEW cut, CutFrom(p, t, pi, ti, cut), n < Len(p) => ~Void(p, n + 1, cut, pi)
      PROVE  \E e \in ti..Len(t) :
               (n > pi + 1 \/ \A k \in (ti + 1)..e : t[k] # "/") /\ MeansFrom(p, t, n, e)
  <2>1. cut[n] \in ti..Len(t)
    <3>1. n \in pi..Len(p)
      BY <1>0
    <3>2. ti <= cut[n]
      BY <1>0, <1>4, <3>1, CutGrows
    <3> QED BY <1>0, <1>4, <3>1, <3>2 DEF CutFrom
  <2>2. n < Len(p) => PieceFits(p, t, n + 1, cut[n], cut[n + 1])
    <3> SUFFICES ASSUME n < Len(p) PROVE PieceFits(p, t, n + 1, cut[n], cut[n + 1])
      OBVIOUS
    <3>1. n + 1 \in (pi + 1)..Len(p) /\ (n + 1) - 1 = n
      BY <1>0
    <3>2. PieceFits(p, t, n + 1, cut[(n + 1) - 1], cut[n + 1]) \/ Void(p, n + 1, cut, pi)
      BY <1>4, <3>1 DEF CutFrom
    <3> QED BY <1>4, <3>1, <3>2
  <2>3. MeansFrom(p, t, n, cut[n])
    BY <1>0, <1>1, <1>4, <2>2, CutRest
  <2>4. ASSUME ~(n > pi + 1) PROVE \A k \in (ti + 1)..cut[n] : t[k] # "/"
    <3>1. n = pi + 1 /\ n - 1 = pi /\ n \in (pi + 1)..Len(p) /\ n \in 1..Len(p)
      BY <1>0, <2>4
    <3>2. PieceFits(p, t, n, ti, cut[n])
      <4>1. PieceFits(p, t, n, cut[n - 1], cut[n]) \/ n > pi + 1
        BY <1>4, <3>1 DEF CutFrom
      <4>2. cut[pi] = ti
        BY <1>4 DEF CutFrom
      <4> QED BY <2>4, <3>1, <4>1, <4>2
    <3>3. ~Deep(p, n) /\ p[n] = "*"
      <4>1. n \in (pi + 1)..n
        BY <1>0
      <4>2. p[n] = "*"
        BY <4>1 DEF Run
      <4> QED BY <1>2, <2>4, <4>1, <4>2
    <3>4. \/ cut[n] = ti + 1 /\ (t[cut[n]] = p[n] \/ (p[n] = "?" /\ t[cut[n]] # "/"))
          \/ \A k \in (ti + 1)..cut[n] : t[k] # "/"
      BY <2>1, <3>1, <3>2, <3>3, PieceIs
    <3>5. CASE cut[n] = ti + 1 /\ t[cut[n]] = p[n]
      <4>1. \A k \in (ti + 1)..cut[n] : k = cut[n]
        BY <3>5
      <4> QED BY <3>3, <3>5, <4>1
    <3> QED BY <3>3, <3>4, <3>5
  <2> QED BY <2>1, <2>3, <2>4
<1>5. ASSUME n > pi + 1, n < Len(p), p[n + 1] = "/", MeansFrom(p, t, n + 1, ti) PROVE MeansFrom(p, t, pi, ti)
  <2> DEFINE b == n + 1
  <2>0. b \in (pi + 1)..Len(p) /\ Border(p, b) /\ b \in b..Len(p) /\ b \in pi..Len(p) /\ b - 1 = n /\ b \in Nat
    BY <1>0, <1>1, <1>5 DEF Border
  <2>1. PICK rest : CutFrom(p, t, b, ti, rest)
    BY <1>5 DEF MeansFrom
  <2> DEFINE cut == [i \in pi..Len(p) |-> IF i <= n THEN ti ELSE rest[i]]
  <2>2. rest[b] = ti /\ \A i \in b..Len(p) : rest[i] \in 0..Len(t)
    BY <2>1 DEF CutFrom
  <2>3. /\ cut \in [pi..Len(p) -> 0..Len(t)] /\ (\A i \in pi..n : cut[i] = ti)
        /\ \A i \in b..Len(p) : cut[i] = rest[i]
    <3>1. \A i \in pi..Len(p) : i <= n \/ i \in b..Len(p)
      BY <1>0
    <3>2. \A i \in b..Len(p) : i \in pi..Len(p) /\ ~(i <= n)
      BY <1>0
    <3>3. \A i \in pi..n : i \in pi..Len(p) /\ i <= n
      BY <1>0
    <3> QED BY <1>0, <2>2, <3>1, <3>2, <3>3
  <2> HIDE DEF cut
  <2>4. \A i \in pi..b : cut[i] = ti
    <3>1. \A i \in pi..b : i \in pi..n \/ i = b
      BY <1>0
    <3> QED BY <2>0, <2>2, <2>3, <3>1
  <2>5. Void(p, b, cut, pi)
    <3>1. Deep(p, n)
      BY <1>0, <1>2, <1>5
    <3>2. \A j \in (pi + 1)..b : j - 1 \in pi..b
      BY <1>0
    <3>3. b \in pi..b
      BY <1>0
    <3>4. \A j \in (pi + 1)..b : cut[j - 1] = cut[b]
      BY <2>4, <3>2, <3>3
    <3> QED BY <1>5, <2>0, <3>1, <3>4 DEF Void
  <2>6. ASSUME NEW k \in (pi + 1)..b
        PROVE /\ cut[k - 1] <= cut[k]
              /\ p[k] # "*" => cut[k] <= cut[k - 1] + 1
              /\ PieceFits(p, t, k, cut[k - 1], cut[k]) \/ (k > pi + 1 /\ Void(p, k, cut, pi))
    <3>1. cut[k - 1] = ti /\ cut[k] = ti
      <4>1. k - 1 \in pi..b /\ k \in pi..b
        BY <1>0
      <4> QED BY <2>4, <4>1
    <3>2. k = b \/ k \in (pi + 1)..n
      BY <1>0
    <3>3. k \in (pi + 1)..n => PieceFits(p, t, k, cut[k - 1], cut[k])
      BY <1>2, <1>5 DEF PieceFits
    <3>4. b > pi + 1
      BY <1>0, <1>5
    <3>5. cut[k - 1] <= cut[k] /\ cut[k] <= cut[k - 1] + 1
      BY <3>1
    <3> QED BY <2>5, <3>2, <3>3, <3>4, <3>5
  <2> HIDE DEF b
  <2>7. CutFrom(p, t, pi, cut[pi], cut)
    BY <1>0, <2>0, <2>1, <2>2, <2>3, <2>6, CutMore
  <2>8. cut[pi] = ti
    BY <1>0, <2>3
  <2> QED BY <2>7, <2>8 DEF MeansFrom
<1>6. ASSUME NEW e \in ti..Len(t), n > pi + 1 \/ \A k \in (ti + 1)..e : t[k] # "/", MeansFrom(p, t, n, e)
      PROVE  MeansFrom(p, t, pi, ti)
  <2>1. PICK rest : CutFrom(p, t, n, e, rest)
    BY <1>6 DEF MeansFrom
  <2> DEFINE cut == [i \in pi..Len(p) |-> IF i = pi THEN ti ELSE IF i <= n THEN e ELSE rest[i]]
  <2>2. rest[n] = e /\ e \in 0..Len(t) /\ \A i \in n..Len(p) : rest[i] \in 0..Len(t)
    BY <1>0, <2>1 DEF CutFrom
  <2>3. /\ cut \in [pi..Len(p) -> 0..Len(t)] /\ cut[pi] = ti /\ (\A i \in (pi + 1)..n : cut[i] = e)
        /\ \A i \in n..Len(p) : cut[i] = rest[i]
    <3>1. \A i \in pi..Len(p) : i <= n \/ i \in n..Len(p)
      BY <1>0
    <3>2. \A i \in n..Len(p) : i \in pi..Len(p) /\ i # pi /\ (i <= n => i = n)
      BY <1>0
    <3>3. \A i \in (pi + 1)..n : i \in pi..Len(p) /\ i <= n /\ i # pi
      BY <1>0
    <3>4. pi \in pi..Len(p)
      BY <1>0
    <3> QED BY <1>0, <2>2, <3>1, <3>2, <3>3, <3>4
  <2> HIDE DEF cut
  <2>4. ASSUME NEW k \in (pi + 1)..n
        PROVE /\ cut[k - 1] <= cut[k]
              /\ p[k] # "*" => cut[k] <= cut[k - 1] + 1
              /\ PieceFits(p, t, k, cut[k - 1], cut[k]) \/ (k > pi + 1 /\ Void(p, k, cut, pi))
    <3>1. cut[k] = e /\ (cut[k - 1] = ti \/ cut[k - 1] = e) /\ (k = pi + 1 => cut[k - 1] = ti)
      <4>1. k - 1 = pi \/ k - 1 \in (pi + 1)..n
        BY <1>0
      <4>2. k = pi + 1 => k - 1 = pi
        BY <1>0
      <4> QED BY <2>3, <4>1, <4>2
    <3>2. p[k] = "*" /\ cut[k - 1] <= cut[k]
      BY <2>2, <3>1 DEF Run
    <3>3. PieceFits(p, t, k, cut[k - 1], cut[k])
      <4>1. CASE n > pi + 1
        BY <1>2, <4>1 DEF PieceFits
      <4>2. CASE ~(n > pi + 1)
        <5>1. k = pi + 1 /\ k \in 1..Len(p)
          BY <1>0, <4>2
        <5>2. PieceFits(p, t, k, ti, e)
          BY <1>6, <3>2, <4>2, <5>1, PieceIs
        <5> QED BY <3>1, <5>1, <5>2
      <4> QED BY <4>1, <4>2
    <3> QED BY <3>2, <3>3
  <2>5. CutFrom(p, t, pi, cut[pi], cut)
    BY <1>0, <1>1, <2>1, <2>2, <2>3, <2>4, CutMore
  <2> QED BY <2>3, <2>5 DEF MeansFrom
<1>7. MeansFrom(p, t, pi, ti) <=> \E cut : CutFrom(p, t, pi, ti, cut)
  BY DEF MeansFrom
<1> QED BY <1>3, <1>4, <1>5, <1>6, <1>7

\* From a border on glob_match does what the pattern means there.
LEMMA MatchMeans ==
  ASSUME NEW A, NEW p \in Seq(A), NEW t \in Seq(A), NEW f, Matching(f, p, t),
         NEW pi \in 0..Len(p), Border(p, pi), NEW ti \in 0..Len(t)
  PROVE  f[pi][ti] <=> MeansFrom(p, t, pi, ti)
<1> DEFINE Good(b) == \A e \in 0..Len(t) : f[b][e] <=> MeansFrom(p, t, b, e)
           B == {d \in 0..Len(p) : Border(p, Len(p) - d) /\ ~Good(Len(p) - d)}
<1>0. Len(p) \in Nat /\ Len(t) \in Nat
  OBVIOUS
<1>1. ASSUME NEW b \in 0..Len(p), Border(p, b), \A c \in (b + 1)..Len(p) : Border(p, c) => Good(c)
      PROVE  Good(b)
  <2> SUFFICES ASSUME NEW e \in 0..Len(t) PROVE f[b][e] <=> MeansFrom(p, t, b, e)
    OBVIOUS
  <2>0. f[b][e] = MatchAt(f, p, t, b, e)
    BY MatchingAt
  <2>1. CASE b = Len(p)
    <3>1. MeansFrom(p, t, b, e) <=> e = Len(t)
      BY <2>1, MeansAtEnd
    <3> QED BY <2>0, <2>1, <3>1 DEF MatchAt
  <2>2. CASE b # Len(p) /\ p[b + 1] # "*"
    <3>1. b \in 0..(Len(p) - 1) /\ b + 1 \in (b + 1)..Len(p)
      BY <1>0, <2>2
    <3>2. Border(p, b + 1)
      BY <2>2 DEF Border, Star
    <3>3. e < Len(t) => e + 1 \in 0..Len(t)
      BY <1>0
    <3>4. e < Len(t) => (f[b + 1][e + 1] <=> MeansFrom(p, t, b + 1, e + 1))
      BY <1>1, <3>1, <3>2, <3>3
    <3>5. MeansFrom(p, t, b, e) <=>
            /\ e < Len(t)
            /\ p[b + 1] = t[e + 1] \/ (p[b + 1] = "?" /\ t[e + 1] # "/")
            /\ MeansFrom(p, t, b + 1, e + 1)
      BY <2>2, <3>1, MeansAtSymbol
    <3> HIDE DEF Good
    <3> QED BY <2>0, <2>2, <3>4, <3>5 DEF MatchAt
  <2>3. CASE b # Len(p) /\ p[b + 1] = "*"
    <3> DEFINE n == AfterStars(p, b)
    <3>1. b \in 0..(Len(p) - 1)
      BY <1>0, <2>3
    <3>2. /\ n \in (b + 1)..Len(p) /\ (n = Len(p) \/ p[n + 1] # "*")
          /\ \A k \in (b + 1)..n : p[k] = "*"
      BY <2>3, <3>1, StarsEnd
    <3>3. f[b][e] <=>
            \/ n > b + 1 /\ n < Len(p) /\ p[n + 1] = "/" /\ f[n + 1][e]
            \/ \E z \in e..Len(t) : (n > b + 1 \/ \A k \in (e + 1)..z : t[k] # "/") /\ f[n][z]
      <4> HIDE DEF n
      <4> QED BY <2>0, <2>3 DEF MatchAt, n
    <3> HIDE DEF n
    <3>4. MeansFrom(p, t, b, e) <=>
            \/ n > b + 1 /\ n < Len(p) /\ p[n + 1] = "/" /\ MeansFrom(p, t, n + 1, e)
            \/ \E z \in e..Len(t) :
                 (n > b + 1 \/ \A k \in (e + 1)..z : t[k] # "/") /\ MeansFrom(p, t, n, z)
      BY <1>1, <2>3, <3>1, <3>2, MeansAtStars DEF Run
    <3>5. Border(p, n) /\ (n < Len(p) /\ p[n + 1] = "/" => Border(p, n + 1))
      <4>1. n = Len(p) => n + 1 \notin DOMAIN p
        BY <1>0
      <4> QED BY <3>2, <4>1 DEF Border, Star
    <3>6. \A z \in e..Len(t) : f[n][z] <=> MeansFrom(p, t, n, z)
      <4>1. \A z \in e..Len(t) : z \in 0..Len(t)
        BY <1>0
      <4> QED BY <1>1, <3>2, <3>5, <4>1
    <3>7. n < Len(p) /\ p[n + 1] = "/" => (f[n + 1][e] <=> MeansFrom(p, t, n + 1, e))
      <4>1. n < Len(p) => n + 1 \in (b + 1)..Len(p)
        BY <1>0, <3>2
      <4> QED BY <1>1, <3>5, <4>1
    <3> HIDE DEF Good
    <3> QED BY <3>3, <3>4, <3>6, <3>7
  <2> QED BY <2>1, <2>2, <2>3
<1> HIDE DEF Good
<1>2. B = {}
  <2> SUFFICES ASSUME B # {} PROVE FALSE
    OBVIOUS
  <2>1. B \in SUBSET Nat
    BY <1>0
  <2>2. PICK d \in B : \A c \in B : d <= c
    <3> HIDE DEF B
    <3> QED BY <2>1, Least
  <2>3. ASSUME NEW c \in (Len(p) - d + 1)..Len(p), Border(p, c) PROVE Good(c)
    <3>1. Len(p) - c \in 0..Len(p) /\ Len(p) - c < d /\ Len(p) - (Len(p) - c) = c
      BY <1>0, <2>2
    <3>2. Len(p) - c \notin B
      <4> HIDE DEF B
      <4>1. d \in Nat /\ ~(d <= Len(p) - c)
        BY <1>0, <2>1, <2>2, <3>1
      <4> QED BY <2>2, <4>1
    <3> QED BY <2>3, <3>1, <3>2
  <2>4. Len(p) - d \in 0..Len(p)
    BY <1>0, <2>2
  <2> QED BY <1>1, <2>2, <2>3, <2>4
<1>3. Len(p) - pi \in 0..Len(p) /\ Len(p) - (Len(p) - pi) = pi
  BY <1>0
<1>4. Good(pi)
  BY <1>2, <1>3
<1> QED BY <1>4 DEF Good

\* glob_match does what a pattern means.
LEMMA GlobMatchMeans ==
  ASSUME NEW A, NEW p \in Seq(A), NEW t \in Seq(A)
  PROVE  GlobMatch(p, t) <=> Means(p, t)
<1>1. PICK f : Matching(f, p, t) /\ GlobMatch(p, t) = f[0][0]
  BY MatchingExists, GlobMatchIs
<1>2. 0 \in 0..Len(p) /\ 0 \in 0..Len(t) /\ Border(p, 0)
  BY DEF Border, Star
<1>3. f[0][0] <=> MeansFrom(p, t, 0, 0)
  BY <1>1, <1>2, MatchMeans
<1> QED BY <1>1, <1>3, MeansIs

-----------------------------------------------------------------------------
(* A pattern at any depth *)

\* q is p behind something that does not end with a star, u is t from k on.
Shifted(A, q, p, m, t, u, k) ==
  /\ q \in Seq(A) /\ p \in Seq(A) /\ m \in Nat /\ Len(q) = m + Len(p) /\ ~Star(q, m)
  /\ \A i \in 1..Len(p) : q[m + i] = p[i]
  /\ t \in Seq(A) /\ u \in Seq(A) /\ k \in Nat /\ Len(t) = k + Len(u)
  /\ \A i \in 1..Len(u) : t[k + i] = u[i]

\* The stars of a pattern are those of the longer pattern it is the end of.
LEMMA ShiftedStars ==
  ASSUME NEW A, NEW q, NEW p, NEW m, NEW t, NEW u, NEW k, Shifted(A, q, p, m, t, u, k)
  PROVE  /\ \A i \in 0..(Len(p) + 1) : Star(q, m + i) <=> Star(p, i)
         /\ \A i \in 1..Len(p) : Deep(q, m + i) <=> Deep(p, i)
<1>0. m \in Nat /\ Len(p) \in Nat /\ Len(q) = m + Len(p) /\ DOMAIN p = 1..Len(p) /\ DOMAIN q = 1..Len(q)
  BY DEF Shifted
<1>1. ASSUME NEW i \in 0..(Len(p) + 1) PROVE Star(q, m + i) <=> Star(p, i)
  <2>1. CASE i = 0
    <3>1. m + i = m /\ i \notin DOMAIN p
      BY <1>0, <2>1
    <3> QED BY <3>1 DEF Star, Shifted
  <2>2. CASE i = Len(p) + 1
    <3>1. m + i \notin DOMAIN q /\ i \notin DOMAIN p
      BY <1>0, <2>2
    <3> QED BY <3>1 DEF Star
  <2>3. CASE i \in 1..Len(p)
    <3>1. m + i \in DOMAIN q /\ i \in DOMAIN p
      BY <1>0, <2>3
    <3>2. q[m + i] = p[i]
      BY <2>3 DEF Shifted
    <3> QED BY <3>1, <3>2 DEF Star
  <2> QED BY <1>0, <2>1, <2>2, <2>3
<1>2. ASSUME NEW i \in 1..Len(p) PROVE Deep(q, m + i) <=> Deep(p, i)
  <2>1. /\ i \in 0..(Len(p) + 1) /\ i - 1 \in 0..(Len(p) + 1) /\ i + 1 \in 0..(Len(p) + 1)
        /\ m + (i - 1) = (m + i) - 1 /\ m + (i + 1) = (m + i) + 1
    BY <1>0
  <2>2. /\ Star(q, m + i) <=> Star(p, i)
        /\ Star(q, m + (i - 1)) <=> Star(p, i - 1)
        /\ Star(q, m + (i + 1)) <=> Star(p, i + 1)
    BY <1>1, <2>1
  <2> QED BY <2>1, <2>2 DEF Deep
<1> QED BY <1>1, <1>2

\* A piece fits its symbol in the longer pattern and text as it does in the shorter.
LEMMA ShiftedPiece ==
  ASSUME NEW A, NEW q, NEW p, NEW m, NEW t, NEW u, NEW k, Shifted(A, q, p, m, t, u, k),
         NEW i \in 1..Len(p), NEW b \in 0..Len(u), NEW e \in b..Len(u)
  PROVE  PieceFits(q, t, m + i, k + b, k + e) <=> PieceFits(p, u, i, b, e)
<1>0. /\ m \in Nat /\ Len(p) \in Nat /\ k \in Nat /\ Len(u) \in Nat /\ p \in Seq(A) /\ q \in Seq(A)
      /\ t \in Seq(A) /\ u \in Seq(A) /\ Len(q) = m + Len(p) /\ Len(t) = k + Len(u)
  BY DEF Shifted
<1>1. q[m + i] = p[i] /\ (Deep(q, m + i) <=> Deep(p, i)) /\ \A j \in 1..Len(u) : t[k + j] = u[j]
  BY ShiftedStars DEF Shifted
<1>2. m + i \in 1..Len(q) /\ k + b \in 0..Len(t) /\ k + e \in (k + b)..Len(t)
  BY <1>0
<1>3. k + e = (k + b) + 1 <=> e = b + 1
  BY <1>0
<1>4. (\A j \in ((k + b) + 1)..(k + e) : t[j] # "/") <=> \A j \in (b + 1)..e : u[j] # "/"
  <2>1. ASSUME NEW j \in (b + 1)..e PROVE k + j \in ((k + b) + 1)..(k + e) /\ t[k + j] = u[j]
    <3>1. j \in 1..Len(u)
      BY <1>0
    <3> QED BY <1>0, <1>1, <3>1
  <2>2. ASSUME NEW j \in ((k + b) + 1)..(k + e) PROVE j - k \in (b + 1)..e /\ t[j] = u[j - k]
    <3>1. j - k \in (b + 1)..e /\ k + (j - k) = j
      BY <1>0
    <3> QED BY <2>1, <3>1
  <2>3. ASSUME \A j \in ((k + b) + 1)..(k + e) : t[j] # "/", NEW j \in (b + 1)..e PROVE u[j] # "/"
    BY <2>1, <2>3
  <2>4. ASSUME \A j \in (b + 1)..e : u[j] # "/", NEW j \in ((k + b) + 1)..(k + e) PROVE t[j] # "/"
    BY <2>2, <2>4
  <2> QED BY <2>3, <2>4
<1>5. e = b + 1 => t[k + e] = u[e]
  <2>1. e = b + 1 => e \in 1..Len(u)
    BY <1>0
  <2> QED BY <1>1, <2>1
<1>6. PieceFits(q, t, m + i, k + b, k + e) <=>
        \/ k + e = (k + b) + 1 /\ (t[k + e] = q[m + i] \/ (q[m + i] = "?" /\ t[k + e] # "/"))
        \/ Deep(q, m + i)
        \/ q[m + i] = "*" /\ \A j \in ((k + b) + 1)..(k + e) : t[j] # "/"
  BY <1>0, <1>2, PieceIs
<1>7. PieceFits(p, u, i, b, e) <=>
        \/ e = b + 1 /\ (u[e] = p[i] \/ (p[i] = "?" /\ u[e] # "/"))
        \/ Deep(p, i)
        \/ p[i] = "*" /\ \A j \in (b + 1)..e : u[j] # "/"
  BY <1>0, PieceIs
<1>8. CASE e = b + 1
  BY <1>1, <1>3, <1>4, <1>5, <1>6, <1>7, <1>8
<1>9. CASE e # b + 1
  BY <1>1, <1>3, <1>4, <1>6, <1>7, <1>9
<1> QED BY <1>8, <1>9

\* The cut c is the cut d of what is behind symbol m of the pattern and character k of the text.
Displaced(c, d, m, k, n) == \A j \in 0..n : c[m + j] = k + d[j]

\* So does a slash that stands for nothing, unless the shorter pattern begins with it.
LEMMA ShiftedVoid ==
  ASSUME NEW A, NEW q, NEW p, NEW m, NEW t, NEW u, NEW k, Shifted(A, q, p, m, t, u, k),
         NEW c, NEW d \in [0..Len(p) -> 0..Len(u)], Displaced(c, d, m, k, Len(p)),
         NEW i \in 2..Len(p)
  PROVE  Void(q, m + i, c, m) <=> Void(p, i, d, 0)
<1>0. m \in Nat /\ Len(p) \in Nat /\ k \in Nat /\ Len(u) \in Nat
  BY DEF Shifted
<1>1. (m + i) - 1 = m + (i - 1) /\ i - 1 \in 1..Len(p) /\ i \in 1..Len(p)
  BY <1>0
<1>2. q[m + i] = p[i] /\ (Deep(q, (m + i) - 1) <=> Deep(p, i - 1))
  <2>1. Deep(q, m + (i - 1)) <=> Deep(p, i - 1)
    BY <1>1, ShiftedStars
  <2>2. q[m + i] = p[i]
    BY <1>1 DEF Shifted
  <2> QED BY <1>1, <2>1, <2>2
<1>3. \A j \in 1..(i - 1) : Star(q, m + j) <=> Star(p, j)
  <2>1. \A j \in 1..(i - 1) : j \in 0..(Len(p) + 1)
    BY <1>0
  <2> QED BY <2>1, ShiftedStars
<1>4. ASSUME NEW j \in 1..i PROVE c[m + (j - 1)] = c[m + i] <=> d[j - 1] = d[i]
  <2>1. j - 1 \in 0..Len(p) /\ i \in 0..Len(p)
    BY <1>0
  <2>2. d[j - 1] \in 0..Len(u) /\ d[i] \in 0..Len(u)
    BY <2>1
  <2>3. c[m + (j - 1)] = k + d[j - 1] /\ c[m + i] = k + d[i]
    BY <2>1 DEF Displaced
  <2> QED BY <1>0, <2>2, <2>3
<1>5. ASSUME NEW j \in 1..i
      PROVE  (\A n \in (m + j)..((m + i) - 1) : Star(q, n)) <=> \A n \in j..(i - 1) : Star(p, n)
  <2>1. ASSUME \A n \in (m + j)..((m + i) - 1) : Star(q, n), NEW n \in j..(i - 1) PROVE Star(p, n)
    <3>1. m + n \in (m + j)..((m + i) - 1) /\ n \in 1..(i - 1)
      BY <1>0
    <3> QED BY <1>3, <2>1, <3>1
  <2>2. ASSUME \A n \in j..(i - 1) : Star(p, n), NEW n \in (m + j)..((m + i) - 1) PROVE Star(q, n)
    <3>1. n - m \in j..(i - 1) /\ n - m \in 1..(i - 1) /\ m + (n - m) = n
      BY <1>0
    <3>2. Star(q, m + (n - m)) <=> Star(p, n - m)
      BY <1>3, <3>1
    <3> QED BY <2>2, <3>1, <3>2
  <2> QED BY <2>1, <2>2
<1> DEFINE VoidAt(j) == (\A n \in j..(i - 1) : Star(p, n)) => d[j - 1] = d[i]
           VoidThere(j) == (\A n \in j..((m + i) - 1) : Star(q, n)) => c[j - 1] = c[m + i]
<1>6. ASSUME NEW j \in 1..i PROVE VoidThere(m + j) <=> VoidAt(j)
  <2>1. (m + j) - 1 = m + (j - 1)
    BY <1>0
  <2> QED BY <1>4, <1>5, <2>1
<1>7. (\A j \in (m + 1)..(m + i) : VoidThere(j)) <=> \A j \in (0 + 1)..i : VoidAt(j)
  <2> HIDE DEF VoidAt, VoidThere
  <2>1. ASSUME \A j \in (m + 1)..(m + i) : VoidThere(j), NEW j \in (0 + 1)..i PROVE VoidAt(j)
    <3>1. m + j \in (m + 1)..(m + i) /\ j \in 1..i
      BY <1>0
    <3> QED BY <1>6, <2>1, <3>1
  <2>2. ASSUME \A j \in (0 + 1)..i : VoidAt(j), NEW j \in (m + 1)..(m + i) PROVE VoidThere(j)
    <3>1. j - m \in (0 + 1)..i /\ j - m \in 1..i /\ m + (j - m) = j
      BY <1>0
    <3>2. VoidThere(m + (j - m)) <=> VoidAt(j - m)
      BY <1>6, <3>1
    <3> QED BY <2>2, <3>1, <3>2
  <2> QED BY <2>1, <2>2
<1> QED BY <1>2, <1>7 DEF Void

\* So does a cut as a whole.
LEMMA ShiftedCut ==
  ASSUME NEW A, NEW q, NEW p, NEW m, NEW t, NEW u, NEW k, Shifted(A, q, p, m, t, u, k),
         NEW c \in [m..Len(q) -> 0..Len(t)], NEW d \in [0..Len(p) -> 0..Len(u)],
         Displaced(c, d, m, k, Len(p))
  PROVE  CutFrom(q, t, m, k, c) <=> CutFrom(p, u, 0, 0, d)
<1>0. m \in Nat /\ Len(p) \in Nat /\ k \in Nat /\ Len(u) \in Nat /\ Len(q) = m + Len(p) /\ Len(t) = k + Len(u)
  BY DEF Shifted
<1>1. \A j \in 0..Len(p) : d[j] \in 0..Len(u) /\ d[j] \in Nat
  BY <1>0
<1>2. (c[m] = k <=> d[0] = 0) /\ (c[Len(q)] = Len(t) <=> d[Len(p)] = Len(u))
  <2>1. 0 \in 0..Len(p) /\ Len(p) \in 0..Len(p) /\ m + 0 = m
    BY <1>0
  <2>2. c[m] = k + d[0] /\ c[Len(q)] = k + d[Len(p)]
    BY <1>0, <2>1 DEF Displaced
  <2>3. d[0] \in Nat /\ d[Len(p)] \in Nat
    BY <1>1, <2>1
  <2>4. (k + d[0] = k <=> d[0] = 0) /\ (k + d[Len(p)] = k + Len(u) <=> d[Len(p)] = Len(u))
    BY <1>0, <2>3
  <2> QED BY <1>0, <2>2, <2>4, Zenon
<1> DEFINE There(n) ==
             /\ c[n - 1] <= c[n]
             /\ q[n] # "*" => c[n] <= c[n - 1] + 1
             /\ PieceFits(q, t, n, c[n - 1], c[n]) \/ (n > m + 1 /\ Void(q, n, c, m))
           At(n) ==
             /\ d[n - 1] <= d[n]
             /\ p[n] # "*" => d[n] <= d[n - 1] + 1
             /\ PieceFits(p, u, n, d[n - 1], d[n]) \/ (n > 0 + 1 /\ Void(p, n, d, 0))
<1>3. ASSUME NEW i \in 1..Len(p) PROVE There(m + i) <=> At(i)
  <2>1. i - 1 \in 0..Len(p) /\ i \in 0..Len(p) /\ (m + i) - 1 = m + (i - 1)
    BY <1>0
  <2>2. c[(m + i) - 1] = k + d[i - 1] /\ c[m + i] = k + d[i] /\ d[i - 1] \in 0..Len(u) /\ d[i] \in 0..Len(u)
    BY <1>1, <2>1 DEF Displaced
  <2>3. (c[(m + i) - 1] <= c[m + i] <=> d[i - 1] <= d[i]) /\ (c[m + i] <= c[(m + i) - 1] + 1 <=> d[i] <= d[i - 1] + 1)
    BY <1>0, <2>2
  <2>4. q[m + i] = p[i]
    BY DEF Shifted
  <2>5. d[i - 1] <= d[i] => (PieceFits(q, t, m + i, c[(m + i) - 1], c[m + i]) <=> PieceFits(p, u, i, d[i - 1], d[i]))
    <3> SUFFICES ASSUME d[i - 1] <= d[i]
                 PROVE  PieceFits(q, t, m + i, c[(m + i) - 1], c[m + i]) <=> PieceFits(p, u, i, d[i - 1], d[i])
      OBVIOUS
    <3>1. d[i] \in d[i - 1]..Len(u)
      BY <1>0, <2>2
    <3>2. PieceFits(q, t, m + i, k + d[i - 1], k + d[i]) <=> PieceFits(p, u, i, d[i - 1], d[i])
      BY <2>2, <3>1, ShiftedPiece
    <3> QED BY <2>2, <3>2
  <2>6. i > 1 => (Void(q, m + i, c, m) <=> Void(p, i, d, 0))
    <3> SUFFICES ASSUME i > 1 PROVE Void(q, m + i, c, m) <=> Void(p, i, d, 0)
      OBVIOUS
    <3>1. i \in 2..Len(p)
      BY <1>0
    <3> HIDE DEF At, There
    <3> QED BY <3>1, ShiftedVoid
  <2>7. (m + i > m + 1 <=> i > 1) /\ 0 + 1 = 1
    BY <1>0
  <2> QED BY <2>3, <2>4, <2>5, <2>6, <2>7
<1>4. (\A n \in (m + 1)..Len(q) : There(n)) <=> \A n \in (0 + 1)..Len(p) : At(n)
  <2> HIDE DEF At, There
  <2>1. ASSUME \A n \in (m + 1)..Len(q) : There(n), NEW n \in (0 + 1)..Len(p) PROVE At(n)
    <3>1. m + n \in (m + 1)..Len(q) /\ n \in 1..Len(p)
      BY <1>0
    <3> QED BY <1>3, <2>1, <3>1
  <2>2. ASSUME \A n \in (0 + 1)..Len(p) : At(n), NEW n \in (m + 1)..Len(q) PROVE There(n)
    <3>1. n - m \in (0 + 1)..Len(p) /\ n - m \in 1..Len(p) /\ m + (n - m) = n
      BY <1>0
    <3>2. There(m + (n - m)) <=> At(n - m)
      BY <1>3, <3>1
    <3> QED BY <2>2, <3>1, <3>2
  <2> QED BY <2>1, <2>2
<1>5. CutFrom(q, t, m, k, c) <=> c[m] = k /\ c[Len(q)] = Len(t) /\ \A n \in (m + 1)..Len(q) : There(n)
  BY Zenon DEF CutFrom
<1>6. CutFrom(p, u, 0, 0, d) <=> d[0] = 0 /\ d[Len(p)] = Len(u) /\ \A n \in (0 + 1)..Len(p) : At(n)
  BY Zenon DEF CutFrom
<1> HIDE DEF At, There
<1> QED BY <1>2, <1>4, <1>5, <1>6

\* What is behind the first symbols of a pattern means the same without them.
LEMMA ShiftedMeans ==
  ASSUME NEW A, NEW q, NEW p, NEW m, NEW t, NEW u, NEW k, Shifted(A, q, p, m, t, u, k)
  PROVE  MeansFrom(q, t, m, k) <=> Means(p, u)
<1>0. /\ m \in Nat /\ Len(p) \in Nat /\ k \in Nat /\ Len(u) \in Nat /\ Len(q) = m + Len(p) /\ Len(t) = k + Len(u)
      /\ p \in Seq(A) /\ u \in Seq(A) /\ q \in Seq(A) /\ t \in Seq(A)
  BY DEF Shifted
<1>1. Means(p, u) <=> MeansFrom(p, u, 0, 0)
  BY <1>0, MeansIs
<1>2. ASSUME NEW c, CutFrom(q, t, m, k, c) PROVE MeansFrom(p, u, 0, 0)
  <2> DEFINE d == [j \in 0..Len(p) |-> c[m + j] - k]
  <2>1. c \in [m..Len(q) -> 0..Len(t)]
    BY <1>2 DEF CutFrom
  <2>2. ASSUME NEW j \in 0..Len(p) PROVE c[m + j] - k \in 0..Len(u) /\ c[m + j] = k + (c[m + j] - k)
    <3>1. m + j \in m..Len(q) /\ m \in 0..Len(q)
      BY <1>0
    <3>2. k <= c[m + j]
      BY <1>0, <1>2, <3>1, CutGrows
    <3>3. c[m + j] \in 0..Len(t)
      BY <2>1, <3>1
    <3> QED BY <1>0, <3>2, <3>3
  <2>3. d \in [0..Len(p) -> 0..Len(u)] /\ Displaced(c, d, m, k, Len(p))
    BY <2>2 DEF Displaced
  <2> HIDE DEF d
  <2>4. CutFrom(p, u, 0, 0, d)
    BY <1>2, <2>1, <2>3, ShiftedCut
  <2> QED BY <2>4 DEF MeansFrom
<1>3. ASSUME NEW d, CutFrom(p, u, 0, 0, d) PROVE MeansFrom(q, t, m, k)
  <2> DEFINE c == [i \in m..Len(q) |-> k + d[i - m]]
  <2>1. d \in [0..Len(p) -> 0..Len(u)]
    BY <1>3 DEF CutFrom
  <2>2. ASSUME NEW i \in m..Len(q) PROVE k + d[i - m] \in 0..Len(t)
    <3>1. i - m \in 0..Len(p)
      BY <1>0
    <3>2. d[i - m] \in 0..Len(u)
      BY <2>1, <3>1
    <3> QED BY <1>0, <3>2
  <2>3. c \in [m..Len(q) -> 0..Len(t)]
    BY <2>2
  <2>4. Displaced(c, d, m, k, Len(p))
    <3> SUFFICES ASSUME NEW j \in 0..Len(p) PROVE c[m + j] = k + d[j]
      BY DEF Displaced
    <3>1. m + j \in m..Len(q) /\ (m + j) - m = j
      BY <1>0
    <3> QED BY <3>1
  <2> HIDE DEF c
  <2>5. CutFrom(q, t, m, k, c)
    BY <1>3, <2>1, <2>3, <2>4, ShiftedCut
  <2> QED BY <2>5 DEF MeansFrom
<1>4. MeansFrom(q, t, m, k) <=> \E c : CutFrom(q, t, m, k, c)
  BY DEF MeansFrom
<1>5. MeansFrom(p, u, 0, 0) <=> \E d : CutFrom(p, u, 0, 0, d)
  BY DEF MeansFrom
<1> QED BY <1>1, <1>2, <1>3, <1>4, <1>5

\* With "**/" before it a pattern means the whole text, or what follows a slash.
LEMMA AnywhereMeans ==
  ASSUME NEW A, {"*", "/"} \subseteq A, NEW p \in Seq(A), NEW t \in Seq(A)
  PROVE  GlobMatch(<<"*", "*", "/">> \o p, t) <=>
           Means(p, t) \/ \E k \in Slashes(t) : Means(p, SubSeq(t, k + 1, Len(t)))
<1> DEFINE h == <<"*", "*", "/">>
           q == h \o p
<1>0. Len(p) \in Nat /\ Len(t) \in Nat /\ DOMAIN t = 1..Len(t)
  OBVIOUS
<1>1. h \in Seq(A) /\ Len(h) = 3 /\ h[1] = "*" /\ h[2] = "*" /\ h[3] = "/"
  OBVIOUS
<1> HIDE DEF h
<1>2. /\ q \in Seq(A) /\ Len(q) = 3 + Len(p) /\ q[1] = "*" /\ q[2] = "*" /\ q[3] = "/"
      /\ \A i \in 1..Len(p) : q[3 + i] = p[i]
  <2>1. /\ q \in Seq(A) /\ Len(q) = Len(h) + Len(p)
        /\ \A i \in 1..(Len(h) + Len(p)) : q[i] = IF i <= Len(h) THEN h[i] ELSE p[i - Len(h)]
    BY <1>1, ConcatProperties
  <2> HIDE DEF q
  <2>2. \A i \in 1..3 : q[i] = h[i]
    BY <1>0, <1>1, <2>1
  <2>3. \A i \in 1..Len(p) : q[3 + i] = p[i]
    <3> SUFFICES ASSUME NEW i \in 1..Len(p) PROVE q[3 + i] = p[i]
      OBVIOUS
    <3>1. 3 + i \in 1..(Len(h) + Len(p)) /\ ~(3 + i <= Len(h)) /\ (3 + i) - Len(h) = i
      BY <1>0, <1>1
    <3> QED BY <2>1, <3>1
  <2>4. 1 \in 1..3 /\ 2 \in 1..3 /\ 3 \in 1..3
    OBVIOUS
  <2> QED BY <1>1, <2>1, <2>2, <2>3, <2>4
<1> HIDE DEF q
<1>3. ~Star(q, 3) /\ ~Star(q, 0) /\ Border(q, 0)
  BY <1>0, <1>2 DEF Star, Border
<1>4. ASSUME NEW k \in 0..Len(t) PROVE MeansFrom(q, t, 3, k) <=> Means(p, SubSeq(t, k + 1, Len(t)))
  <2> DEFINE u == SubSeq(t, k + 1, Len(t))
  <2>1. u \in Seq(A) /\ Len(u) = Len(t) - k /\ \A i \in 1..(Len(t) - k) : u[i] = t[k + i]
    <3>1. Len(t) \in Nat /\ k \in Nat /\ k + 1 \in 1..(Len(t) + 1) /\ t \in Seq(A)
      BY <1>0
    <3>2. u \in Seq(A) /\ Len(u) = Len(t) - k
      BY <3>1
    <3>3. \A i \in 1..(Len(t) - k) : u[i] = t[k + i]
      BY <3>1
    <3> QED BY <3>2, <3>3
  <2> HIDE DEF u
  <2>2. Shifted(A, q, p, 3, t, u, k)
    BY <1>0, <1>2, <1>3, <2>1 DEF Shifted
  <2> QED BY <2>2, ShiftedMeans DEF u
<1>5. SubSeq(t, 0 + 1, Len(t)) = t
  OBVIOUS
<1>6. GlobMatch(q, t) <=> MeansFrom(q, t, 0, 0)
  BY <1>2, GlobMatchMeans, MeansIs
<1>7. MeansFrom(q, t, 0, 0) <=>
        \/ 2 > 0 + 1 /\ 2 < Len(q) /\ q[2 + 1] = "/" /\ MeansFrom(q, t, 2 + 1, 0)
        \/ \E e \in 0..Len(t) :
             (2 > 0 + 1 \/ \A k \in (0 + 1)..e : t[k] # "/") /\ MeansFrom(q, t, 2, e)
  <2>1. 0 \in 0..(Len(q) - 1) /\ q[0 + 1] = "*" /\ 2 \in (0 + 1)..Len(q) /\ 0 \in 0..Len(t)
    BY <1>0, <1>2
  <2>2. Run(q, 0, 2)
    <3>1. \A k \in (0 + 1)..2 : k = 1 \/ k = 2
      OBVIOUS
    <3> QED BY <1>2, <3>1 DEF Run
  <2> QED BY <1>2, <1>3, <2>1, <2>2, MeansAtStars
<1>8. ASSUME NEW e \in 0..Len(t)
      PROVE  MeansFrom(q, t, 2, e) <=> e < Len(t) /\ t[e + 1] = "/" /\ MeansFrom(q, t, 3, e + 1)
  <2>1. 2 \in 0..(Len(q) - 1) /\ q[2 + 1] = "/" /\ q[2 + 1] # "*" /\ q[2 + 1] # "?" /\ 2 + 1 = 3
    BY <1>0, <1>2
  <2>2. MeansFrom(q, t, 2, e) <=>
           /\ e < Len(t)
           /\ q[2 + 1] = t[e + 1] \/ (q[2 + 1] = "?" /\ t[e + 1] # "/")
           /\ MeansFrom(q, t, 2 + 1, e + 1)
    BY <1>2, <2>1, MeansAtSymbol
  <2> QED BY <2>1, <2>2
<1>9. MeansFrom(q, t, 3, 0) <=> Means(p, t)
  <2>1. 0 \in 0..Len(t)
    BY <1>0
  <2>2. MeansFrom(q, t, 3, 0) <=> Means(p, SubSeq(t, 0 + 1, Len(t)))
    BY <1>4, <2>1, Zenon
  <2> QED BY <1>5, <2>2, Zenon
<1>10. (\E e \in 0..Len(t) : MeansFrom(q, t, 2, e)) <=> \E k \in Slashes(t) : Means(p, SubSeq(t, k + 1, Len(t)))
  <2>1. ASSUME NEW e \in 0..Len(t), MeansFrom(q, t, 2, e)
        PROVE  \E k \in Slashes(t) : Means(p, SubSeq(t, k + 1, Len(t)))
    <3>1. e + 1 \in Slashes(t) /\ e + 1 \in 0..Len(t)
      BY <1>0, <1>8, <2>1 DEF Slashes
    <3> QED BY <1>4, <1>8, <2>1, <3>1
  <2>2. ASSUME NEW k \in Slashes(t), Means(p, SubSeq(t, k + 1, Len(t)))
        PROVE  \E e \in 0..Len(t) : MeansFrom(q, t, 2, e)
    <3>1. k - 1 \in 0..Len(t) /\ k \in 0..Len(t) /\ (k - 1) + 1 = k /\ k - 1 < Len(t) /\ t[k] = "/"
      BY <1>0 DEF Slashes
    <3>2. MeansFrom(q, t, 3, k)
      BY <1>4, <2>2, <3>1
    <3>3. MeansFrom(q, t, 2, k - 1)
      BY <1>8, <3>1, <3>2
    <3> QED BY <3>1, <3>3
  <2> QED BY <2>1, <2>2
<1>11. 2 > 0 + 1 /\ 2 + 1 = 3 /\ 2 < Len(q)
  BY <1>0, <1>2
<1>12. MeansFrom(q, t, 0, 0) <=> MeansFrom(q, t, 3, 0) \/ \E e \in 0..Len(t) : MeansFrom(q, t, 2, e)
  BY <1>2, <1>7, <1>11
<1> QED BY <1>6, <1>9, <1>10, <1>12 DEF q, h

\* A normalised pattern is a text over the same symbols.
LEMMA NormaliseTyped ==
  ASSUME NEW A, "/" \in A, NEW spoken \in Seq(A)
  PROVE  Normalise(spoken) \in Seq(A)
<1> DEFINE s == [k \in 1..Len(spoken) |-> IF spoken[k] = "bs" THEN "/" ELSE spoken[k]]
           wanted == {k \in DOMAIN s : s[k] = "/" => k = 1 \/ s[k - 1] # "/"}
<1>1. s \in Seq(A)
  OBVIOUS
<1>2. Normalise(spoken) = Picked(s, wanted)
  BY DEF Normalise
<1> HIDE DEF s, wanted
<1> QED BY <1>1, <1>2, PickedMembers

\* The name of a file is what follows the last slash.
LEMMA FileNameIs ==
  ASSUME NEW A, NEW path \in Seq(A)
  PROVE  \/ Slashes(path) = {} /\ FileName(path) = path
         \/ \E k \in Slashes(path) : FileName(path) = SubSeq(path, k + 1, Len(path))
<1> DEFINE S == Slashes(path) \cup {0}
<1>1. Len(path) \in Nat /\ Slashes(path) \subseteq 1..Len(path)
  BY DEF Slashes
<1>2. S \in SUBSET Nat /\ S # {} /\ \A k \in S : k <= Len(path)
  BY <1>1
<1> HIDE DEF S
<1>3. PICK m \in S : \A k \in S : k <= m
  BY <1>1, <1>2, Greatest
<1>4. Max(S) \in S
  <2>1. \E x \in S : \A y \in S : x >= y
    BY <1>2, <1>3
  <2> QED BY <2>1 DEF Max
<1>5. FileName(path) = SubSeq(path, Max(S) + 1, Len(path))
  BY DEF FileName, S
<1>6. CASE Max(S) \in Slashes(path)
  BY <1>5, <1>6
<1>7. CASE Max(S) = 0 /\ Slashes(path) = {}
  <2>1. FileName(path) = SubSeq(path, 1, Len(path))
    BY <1>5, <1>7
  <2> QED BY <1>7, <2>1
<1>8. CASE Max(S) = 0 /\ Slashes(path) # {}
  <2>1. PICK k \in Slashes(path) : TRUE
    BY <1>8
  <2>2. k \in S /\ k > 0
    BY <1>1, <2>1 DEF S
  <2>3. \E x \in S : \A y \in S : x >= y
    BY <1>2, <1>3
  <2>4. Max(S) >= k
    BY <2>2, <2>3 DEF Max
  <2> QED BY <1>1, <1>8, <2>2, <2>4
<1> QED BY <1>4, <1>6, <1>7, <1>8 DEF S

(* "Relative patterns match at any depth" (README.md): a pattern matches   *)
(* exactly the paths that it means, or of which it means what follows a    *)
(* slash, for every pattern and every path.                                *)
THEOREM GlobsReach ==
  ASSUME NEW A, {"*", "/"} \subseteq A, NEW spoken \in Seq(A), NEW path \in Seq(A)
  PROVE  GlobMatchesPath(spoken, path) <=> Reaches(Normalise(spoken), path)
<1> DEFINE p == Normalise(spoken)
           anywhere == GlobMatch(<<"*", "*", "/">> \o p, path)
           FromSlash(k) == Means(p, SubSeq(path, k + 1, Len(path)))
<1>1. p \in Seq(A)
  BY NormaliseTyped
<1> HIDE DEF p
<1>2. anywhere <=> Means(p, path) \/ \E k \in Slashes(path) : FromSlash(k)
  BY <1>1, AnywhereMeans
<1>3. GlobMatch(p, path) <=> Means(p, path)
  BY <1>1, GlobMatchMeans
<1>4. GlobMatch(p, FileName(path)) => Means(p, path) \/ \E k \in Slashes(path) : FromSlash(k)
  <2> SUFFICES ASSUME GlobMatch(p, FileName(path)) PROVE Means(p, path) \/ \E k \in Slashes(path) : FromSlash(k)
    OBVIOUS
  <2>1. CASE FileName(path) = path
    BY <1>3, <2>1
  <2>2. ASSUME NEW k \in Slashes(path), FileName(path) = SubSeq(path, k + 1, Len(path)) PROVE FromSlash(k)
    <3>1. FileName(path) \in Seq(A)
      <4>1. k + 1 \in 1..(Len(path) + 1)
        BY DEF Slashes
      <4> QED BY <2>2, <4>1
    <3>2. Means(p, FileName(path))
      BY <1>1, <3>1, GlobMatchMeans
    <3> QED BY <2>2, <3>2
  <2> HIDE DEF FromSlash
  <2> QED BY <2>1, <2>2, FileNameIs
<1>5. Slashes(p) = {} /\ p # <<>> => Head(p) # "/"
  <2> SUFFICES ASSUME Slashes(p) = {}, p # <<>> PROVE Head(p) # "/"
    OBVIOUS
  <2>1. 1 \in DOMAIN p /\ Head(p) = p[1]
    BY <1>1
  <2> QED BY <2>1 DEF Slashes
<1>6. GlobMatchesPath(spoken, path) <=>
        /\ p # <<>>
        /\ \/ Slashes(p) = {} /\ (GlobMatch(p, FileName(path)) \/ anywhere)
           \/ Slashes(p) # {} /\ GlobMatch(p, path)
           \/ Slashes(p) # {} /\ Head(p) # "/" /\ anywhere
  BY Zenon DEF GlobMatchesPath, p
<1>7. Reaches(p, path) <=>
        p # <<>> /\ (Means(p, path) \/ (Head(p) # "/" /\ \E k \in Slashes(path) : FromSlash(k)))
  BY Zenon DEF Reaches
<1> HIDE DEF anywhere, FromSlash
<1>8. GlobMatchesPath(spoken, path) <=> Reaches(p, path)
  BY <1>2, <1>3, <1>4, <1>5, <1>6, <1>7
<1> QED BY <1>8 DEF p

-----------------------------------------------------------------------------
(* Directories *)

\* What lies below a directory, by its characters.
LEMMA BelowIs ==
  ASSUME NEW A, "/" \in A, NEW dir \in Seq(A), NEW f \in Seq(A)
  PROVE  IsStrictPrefix(dir \o <<"/">>, f) <=>
           Len(f) > Len(dir) + 1 /\ f[Len(dir) + 1] = "/" /\ \A k \in 1..Len(dir) : f[k] = dir[k]
<1> DEFINE s == dir \o <<"/">>
<1>1. /\ s \in Seq(A) /\ Len(s) = Len(dir) + 1 /\ s[Len(dir) + 1] = "/" /\ \A k \in 1..Len(dir) : s[k] = dir[k]
      /\ Len(dir) \in Nat /\ Len(f) \in Nat
  OBVIOUS
<1> HIDE DEF s
<1>2. SubSeq(s, 1, Len(s)) = s
  BY <1>1
<1>3. ASSUME IsStrictPrefix(s, f)
      PROVE  Len(f) > Len(dir) + 1 /\ f[Len(dir) + 1] = "/" /\ \A k \in 1..Len(dir) : f[k] = dir[k]
  <2>1. Len(s) <= Len(f) /\ s = SubSeq(f, 1, Len(s)) /\ s # f
    BY <1>2, <1>3 DEF IsStrictPrefix, IsPrefix
  <2>2. ASSUME Len(s) = Len(f) PROVE FALSE
    <3>1. SubSeq(f, 1, Len(f)) = f
      OBVIOUS
    <3> QED BY <2>1, <2>2, <3>1
  <2>3. \A k \in 1..Len(s) : s[k] = f[k]
    <3>1. \A k \in 1..Len(s) : SubSeq(f, 1, Len(s))[k] = f[k]
      BY <1>1, <2>1
    <3> QED BY <2>1, <3>1
  <2> QED BY <1>1, <2>1, <2>2, <2>3
<1>4. ASSUME Len(f) > Len(dir) + 1, f[Len(dir) + 1] = "/", \A k \in 1..Len(dir) : f[k] = dir[k]
      PROVE  IsStrictPrefix(s, f)
  <2>1. SubSeq(f, 1, Len(s)) \in Seq(A) /\ Len(SubSeq(f, 1, Len(s))) = Len(s)
    BY <1>1, <1>4
  <2>2. \A k \in 1..Len(s) : SubSeq(f, 1, Len(s))[k] = s[k]
    BY <1>1, <1>4
  <2>3. SubSeq(f, 1, Len(s)) = s
    BY <1>1, <2>1, <2>2
  <2> QED BY <1>1, <1>2, <1>4, <2>3 DEF IsStrictPrefix, IsPrefix
<1> QED BY <1>3, <1>4 DEF s

\* The directory of a file ends before its last slash.
LEMMA ParentIs ==
  ASSUME NEW A, NEW f \in Seq(A)
  PROVE  \E m \in Nat \ {0} :
           /\ m = 1 \/ (m <= Len(f) /\ f[m] = "/")
           /\ \A k \in 1..Len(f) : f[k] = "/" => k <= m
           /\ Parent(f) = SubSeq(f, 1, m - 1) /\ Len(Parent(f)) = m - 1
<1> DEFINE T == Slashes(f) \cup {1}
<1>1. DOMAIN f = 1..Len(f) /\ Len(f) \in Nat
  OBVIOUS
<1>2. T \in SUBSET Nat /\ T # {} /\ \A k \in T : k <= Len(f) + 1
  BY <1>1 DEF Slashes
<1>3. PICK m \in T : \A k \in T : k <= m
  <2>1. Len(f) + 1 \in Nat
    BY <1>1
  <2> HIDE DEF T
  <2> QED BY <1>2, <2>1, Greatest
<1>4. Max(T) = m
  <2>1. \E x \in T : \A k \in T : x >= k
    <3> HIDE DEF T
    <3> QED BY <1>2, <1>3
  <2>2. Max(T) \in T /\ \A k \in T : Max(T) >= k
    BY <2>1, Zenon DEF Max
  <2> DEFINE x == Max(T)
  <2>3. x \in T /\ x >= m /\ m >= x
    <3>1. x \in T /\ x >= m /\ x <= m
      BY <1>3, <2>2
    <3>2. x \in Nat /\ m \in Nat
      BY <1>2, <3>1
    <3> HIDE DEF x
    <3> QED BY <3>1, <3>2
  <2>4. x \in Nat /\ m \in Nat
    BY <1>2, <2>3
  <2> HIDE DEF x
  <2>5. x = m
    BY <2>3, <2>4
  <2> QED BY <2>5 DEF x
<1>5. Parent(f) = SubSeq(f, 1, m - 1)
  BY <1>4 DEF Parent
<1>6. m = 1 \/ (m \in Nat /\ m <= Len(f) /\ f[m] = "/" /\ m > 0)
  BY <1>1, <1>3 DEF Slashes
<1>7. Len(Parent(f)) = m - 1
  BY <1>1, <1>5, <1>6
<1>8. \A k \in 1..Len(f) : f[k] = "/" => k <= m
  BY <1>1, <1>3 DEF Slashes
<1>9. m \in Nat \ {0}
  BY <1>6
<1> QED BY <1>5, <1>6, <1>7, <1>8, <1>9

\* A file in the directory of one that lies below dir lies below dir itself.
LEMMA SameDirectory ==
  ASSUME NEW A, "/" \in A, NEW dir \in Seq(A), dir # <<>>, NEW f \in Seq(A), NEW g \in Seq(A),
         IsStrictPrefix(dir \o <<"/">>, f), Parent(g) = Parent(f), Last(g) # "/"
  PROVE  IsStrictPrefix(dir \o <<"/">>, g)
<1>1. /\ Len(f) > Len(dir) + 1 /\ f[Len(dir) + 1] = "/" /\ \A k \in 1..Len(dir) : f[k] = dir[k]
      /\ Len(dir) \in Nat \ {0} /\ Len(f) \in Nat /\ Len(g) \in Nat
  BY BelowIs
<1>2. PICK m \in Nat \ {0} :
        /\ \A k \in 1..Len(f) : f[k] = "/" => k <= m
        /\ Parent(f) = SubSeq(f, 1, m - 1) /\ Len(Parent(f)) = m - 1
        /\ m = 1 \/ (m <= Len(f) /\ f[m] = "/")
  BY ParentIs, Zenon
<1>3. m >= Len(dir) + 1 /\ m <= Len(f) /\ f[m] = "/"
  BY <1>1, <1>2
<1>4. PICK n \in Nat \ {0} :
        /\ n = 1 \/ (n <= Len(g) /\ g[n] = "/")
        /\ Parent(g) = SubSeq(g, 1, n - 1) /\ Len(Parent(g)) = n - 1
  BY ParentIs, Zenon
<1>5. n = m
  BY <1>2, <1>4
<1>6. m <= Len(g) /\ g[m] = "/"
  BY <1>1, <1>3, <1>4, <1>5
<1>7. \A k \in 1..(m - 1) : g[k] = f[k]
  <2>1. \A k \in 1..(m - 1) : SubSeq(f, 1, m - 1)[k] = f[k] /\ SubSeq(g, 1, m - 1)[k] = g[k]
    BY <1>1, <1>3, <1>6
  <2> QED BY <1>2, <1>4, <1>5, <2>1
<1>8. g[Len(dir) + 1] = "/" /\ \A k \in 1..Len(dir) : g[k] = dir[k]
  BY <1>1, <1>3, <1>6, <1>7
<1>9. Len(g) > Len(dir) + 1
  <2>1. Len(g) >= Len(dir) + 1
    BY <1>3, <1>6
  <2>2. Len(g) # Len(dir) + 1
    BY <1>1, <1>8 DEF Last
  <2> QED BY <1>1, <2>1, <2>2
<1> QED BY <1>8, <1>9, BelowIs

-----------------------------------------------------------------------------
(* What is given *)

InWorld(w) == w \in Worlds /\ disk \in w.disks /\ call \in w.calls

\* The disk a command meets is one of those spoken of in DiskAssumption.
LEMMA DiskGiven ==
  ASSUME NEW w, InWorld(w)
  PROVE  /\ \A f \in DOMAIN disk : IsPath(f) /\ disk[f] \subseteq {"abi", "cxx", "c"}
         /\ \A f, g \in DOMAIN disk : (SamePath(f, g) => f = g) /\ ~IsStrictPrefix(f \o <<"/">>, g)
         /\ \A dir \in Dirs : IsPath(dir) /\ dir # <<>> /\ dir \notin DOMAIN disk
<1>1. disk \in UNION {v.disks : v \in Worlds}
  BY DEF InWorld
<1> QED BY <1>1, SelectionAssumption, Zenon DEF DiskAssumption

\* A call is one of those spoken of in CallAssumption.
LEMMA CallGiven ==
  ASSUME NEW w, InWorld(w)
  PROVE  /\ inputs \in Seq(ToSet(inputs))
         /\ \A p \in filters.include \cup ExcludedBy(filters) : IsPath(p)
         /\ Asks(call) =>
              /\ Entries(call) \in Seq(ToSet(Entries(call)))
              /\ \A e \in ToSet(Entries(call)) : IsPath(SourceFile(call.explicit, e))
<1>1. call \in UNION {v.calls : v \in Worlds}
  BY DEF InWorld
<1>2. /\ call.inputs \in Seq(ToSet(call.inputs))
      /\ \A p \in call.filters.include \cup ExcludedBy(call.filters) : IsPath(p)
      /\ Asks(call) => /\ Entries(call) \in Seq(ToSet(Entries(call)))
                       /\ \A e \in ToSet(Entries(call)) : IsPath(SourceFile(call.explicit, e))
  BY <1>1, SelectionAssumption, Zenon DEF CallAssumption
<1> QED BY <1>2, Zenon DEF inputs, filters

\* A text is one over any alphabet that has its symbols.
LEMMA PathOver ==
  ASSUME NEW f, IsPath(f), NEW A, ToSet(f) \subseteq A
  PROVE  f \in Seq(A)
BY DEF IsPath

-----------------------------------------------------------------------------
(* What the steps find, by what it means *)

\* What is on C's side of a directory that is searched is so wherever one looks from.
LEMMA CSideIs ==
  ASSUME NEW w, InWorld(w), NEW dir \in Dirs, NEW f \in Below(dir)
  PROVE  CSide(dir, f) <=> InCOnly(f)
<1>1. f \in DOMAIN disk /\ IsStrictPrefix(dir \o <<"/">>, f) /\ IsPath(f)
  BY DiskGiven DEF Below
<1>2. ASSUME NEW g \in DOMAIN disk, Parent(g) = Parent(f), Last(g) # "/" PROVE g \in Below(dir)
  <2> DEFINE A == ToSet(dir) \cup ToSet(f) \cup ToSet(g) \cup {"/"}
  <2>1. dir # <<>> /\ IsPath(dir) /\ IsPath(g)
    BY DiskGiven
  <2>2. dir \in Seq(A) /\ f \in Seq(A) /\ g \in Seq(A) /\ "/" \in A
    BY <1>1, <2>1, PathOver
  <2> HIDE DEF A
  <2>3. IsStrictPrefix(dir \o <<"/">>, g)
    BY <1>1, <1>2, <2>1, <2>2, SameDirectory
  <2> QED BY <2>3 DEF Below
<1>3. Below(dir) \subseteq DOMAIN disk
  BY DEF Below
<1>4. \A g : CSource(g) \/ CxxSource(g) => Last(g) # "/"
  BY DEF CSource, CxxSource, Extension
<1>5. (\E g \in {h \in Below(dir) : Parent(h) = Parent(f)} : CSource(g)) <=>
        \E g \in DOMAIN disk : CSource(g) /\ Parent(g) = Parent(f)
  BY <1>2, <1>3, <1>4
<1>6. (\E g \in {h \in Below(dir) : Parent(h) = Parent(f)} : CxxSource(g)) <=>
        \E g \in DOMAIN disk : CxxSource(g) /\ Parent(g) = Parent(f)
  BY <1>2, <1>3, <1>4
<1> QED BY <1>5, <1>6 DEF CSide, InCOnly

\* One pattern of a call and one path of its world.
LEMMA PatternMeant ==
  ASSUME NEW w, InWorld(w), NEW p \in filters.include \cup ExcludedBy(filters), NEW f \in PathsOf(w), IsPath(f)
  PROVE  GlobMatchesPath(p, f) <=> f \in Meant[p]
<1>1. IsPath(p)
  BY CallGiven
<1> DEFINE A == ToSet(p) \cup ToSet(f) \cup {"*", "/"}
<1>2. p \in Seq(A) /\ f \in Seq(A)
  BY <1>1, PathOver
<1>3. GlobMatchesPath(p, f) <=> Reaches(Normalise(p), f)
  <2>1. {"*", "/"} \subseteq A
    OBVIOUS
  <2> HIDE DEF A
  <2> QED BY <1>2, <2>1, GlobsReach
<1>4. p \in PatternsOf(w) /\ w \in Worlds
  BY DEF PatternsOf, InWorld, filters
<1>5. p \in AllPatterns
  BY <1>4 DEF AllPatterns
<1>6. f \in UNION {PathsOf(v) : v \in {u \in Worlds : p \in PatternsOf(u)}}
  BY <1>4
<1>7. Meant[p] = {g \in UNION {PathsOf(v) : v \in {u \in Worlds : p \in PatternsOf(u)}} : Reaches(Normalise(p), g)}
  BY <1>5, Zenon DEF Meant
<1> QED BY <1>3, <1>6, <1>7

\* The patterns leave what they mean to leave.
LEMMA PassesIs ==
  ASSUME NEW w, InWorld(w), NEW f \in PathsOf(w), IsPath(f)
  PROVE  Passes(f) <=> Selected(f)
<1>1. \A p \in filters.include \cup ExcludedBy(filters) : GlobMatchesPath(p, f) <=> f \in Meant[p]
  BY PatternMeant
<1> QED BY <1>1 DEF Passes, Selected, MatchesAny

\* A file on the disk is taken for C++ if it looks like it.
LEMMA LanguageIs ==
  ASSUME NEW w, InWorld(w), NEW f \in DOMAIN disk
  PROVE  LooksCxx(f) <=>
           /\ PathLanguage(f) = "c++"
           /\ (IF Header(f) THEN TextLanguage(f, disk[f]) ELSE "c++") = "c++"
<1>1. Header(f) => PathLanguage(f) = "c++"
  BY DEF Header, PathLanguage, CSource, CxxSource
<1>2. ASSUME Header(f) PROVE TextLanguage(f, disk[f]) = "c++" <=> "cxx" \in disk[f] /\ "abi" \notin disk[f]
  <2>1. disk[f] \subseteq {"abi", "cxx", "c"}
    BY DiskGiven
  <2>2. "abi" \in disk[f] \/ "cxx" \in disk[f] \/ disk[f] = {"c"} \/ disk[f] = {}
    BY <2>1
  <2>3. CASE "abi" \in disk[f]
    BY <1>2, <2>3 DEF TextLanguage
  <2>4. CASE "abi" \notin disk[f] /\ "cxx" \in disk[f]
    BY <1>2, <2>4 DEF TextLanguage
  <2>5. CASE disk[f] = {"c"}
    BY <1>2, <2>5 DEF TextLanguage
  <2>6. CASE disk[f] = {}
    BY <1>2, <2>6 DEF TextLanguage
  <2> QED BY <2>2, <2>3, <2>4, <2>5, <2>6
<1> QED BY <1>1, <1>2 DEF LooksCxx

-----------------------------------------------------------------------------
(* What a run knows *)

\* The files that one input stands for.
InputFiles(k) ==
  IF inputs[k] \in DOMAIN disk THEN {inputs[k]} ELSE {f \in Below(inputs[k]) : ~InCOnly(f)}

\* What is collected before the n-th input.
Gathered(n) == UNION {SourceInputs(InputFiles(k)) : k \in {j \in DOMAIN inputs : j < n}}

\* What the command works on before the patterns.
Sought ==
  IF inputs # <<>> THEN Gathered(Len(inputs) + 1)
  ELSE IF call.explicit = <<>> THEN {}
  ELSE {[path |-> f, language |-> "c++"] : f \in {g \in PathsListed(call) : CompiledAsCxx(g)}}

\* The language a file is loaded with.
LoadedAs(f) == IF f.language # "unknown" THEN f.language ELSE TextLanguage(f.path, disk[f.path])

Kept == {f \in Sought : Selected(f.path)}

(* Each input so far is there, and what is collected is what the inputs    *)
(* stand for, whatever their order; the patterns leave of it what they     *)
(* mean; each file that is loaded has the language its text tells.         *)
SelectInv ==
  /\ \E w : InWorld(w)
  /\ stage \in {"reading", "collecting", "filtering", "loading", "planned", "failed"}
  /\ stage = "reading" => files = {} /\ next = 1
  /\ stage \in {"reading", "collecting", "filtering"} => sources = <<>>
  /\ stage \notin {"reading", "failed"} => call.explicit = <<>> \/ Readable(call.explicit)
  /\ stage = "collecting" =>
       /\ next \in 1..(Len(inputs) + 1) /\ files = Gathered(next)
       /\ \A k \in DOMAIN inputs : k < next => inputs[k] \in DOMAIN disk \cup Dirs
  /\ stage \in {"filtering", "loading", "planned"} => \A k \in DOMAIN inputs : inputs[k] \in DOMAIN disk \cup Dirs
  /\ stage = "filtering" => files = Sought
  /\ stage \in {"loading", "planned"} =>
       /\ inputs = <<>> => call.explicit # <<>>
       /\ files = Kept
       /\ DOMAIN sources \subseteq {f.path : f \in files}
       /\ \A f \in files : f.path \in DOMAIN sources => sources[f.path] = LoadedAs(f)
  /\ stage = "planned" => Left = {}

\* Nothing that a command is given changes while it runs.
LEMMA GivenStays ==
  ASSUME UNCHANGED given
  PROVE  /\ inputs' = inputs /\ filters' = filters /\ \A w : InWorld(w)' <=> InWorld(w)
         /\ \A n : Gathered(n)' = Gathered(n)
         /\ Kept' = Kept /\ Sought' = Sought
         /\ \A f : LoadedAs(f)' = LoadedAs(f)
         /\ Readable(call.explicit)' <=> Readable(call.explicit)
<1>1. disk' = disk /\ call' = call
  BY DEF given
<1>2. inputs' = inputs /\ filters' = filters /\ \A w : InWorld(w)' <=> InWorld(w)
  BY <1>1 DEF inputs, filters, InWorld
<1>3. \A d : Below(d)' = Below(d)
  BY <1>1 DEF Below
<1>4. \A f : InCOnly(f)' <=> InCOnly(f)
  BY <1>1 DEF InCOnly
<1>5. \A k : InputFiles(k)' = InputFiles(k)
  BY <1>1, <1>2, <1>3, <1>4 DEF InputFiles
<1>6. \A n : Gathered(n)' = Gathered(n)
  <2> SUFFICES ASSUME NEW n PROVE Gathered(n)' = Gathered(n)
    OBVIOUS
  <2>1. Gathered(n)' = UNION {SourceInputs(InputFiles(k)') : k \in {j \in DOMAIN inputs' : j < n}}
    BY Zenon DEF Gathered, SourceInputs
  <2> QED BY <1>2, <1>5, <2>1 DEF Gathered
<1>7. \A f : CompiledAsCxx(f)' <=> CompiledAsCxx(f)
  BY <1>1 DEF CompiledAsCxx, Listing
<1>8. Sought' = Sought
  BY <1>1, <1>2, <1>6, <1>7 DEF Sought
<1>9. \A f : Selected(f)' <=> Selected(f)
  BY <1>2 DEF Selected
<1>10. Kept' = Kept
  BY <1>8, <1>9 DEF Kept
<1>11. \A f : LoadedAs(f)' = LoadedAs(f)
  BY <1>1 DEF LoadedAs
<1>12. Readable(call.explicit)' <=> Readable(call.explicit)
  BY <1>1 DEF Readable
<1> QED BY <1>2, <1>6, <1>8, <1>10, <1>11, <1>12

\* Every file that is sought is one of the world and has one record.
LEMMA SoughtTyped ==
  ASSUME NEW w, InWorld(w)
  PROVE  /\ \A f \in Sought : f.path \in PathsOf(w) /\ IsPath(f.path)
         /\ \A f, g \in Sought : f.path = g.path => f = g
<1>1. CASE inputs # <<>>
  <2>1. ASSUME NEW f \in Sought
        PROVE  /\ f.path \in DOMAIN disk
               /\ f = [path |-> f.path, language |-> IF Header(f.path) THEN "unknown" ELSE "c++"]
    <3>1. PICK k \in DOMAIN inputs : f \in SourceInputs(InputFiles(k))
      BY <1>1 DEF Sought, Gathered
    <3>2. InputFiles(k) \subseteq DOMAIN disk
      BY DEF InputFiles, Below
    <3> QED BY <3>1, <3>2 DEF SourceInputs
  <2>2. DOMAIN disk \subseteq PathsOf(w)
    BY DEF PathsOf, InWorld
  <2> QED BY <2>1, <2>2, DiskGiven
<1>2. CASE inputs = <<>> /\ call.explicit = <<>>
  BY <1>2 DEF Sought
<1>3. CASE inputs = <<>> /\ call.explicit # <<>>
  <2>1. ASSUME NEW f \in Sought
        PROVE  f.path \in PathsListed(call) /\ f = [path |-> f.path, language |-> "c++"]
    BY <1>3 DEF Sought
  <2>2. PathsListed(call) \subseteq PathsOf(w)
    <3>1. call \in w.calls
      BY DEF InWorld
    <3>2. UNION {PathsListed(c) : c \in w.calls} \subseteq PathsOf(w)
      <4> DEFINE L == UNION {PathsListed(c) : c \in w.calls}
                 D == UNION {DOMAIN d : d \in w.disks}
      <4>1. PathsOf(w) = D \cup L
        BY Zenon DEF PathsOf
      <4> HIDE DEF L, D
      <4>2. L \subseteq D \cup L
        OBVIOUS
      <4> QED BY <4>1, <4>2 DEF L
    <3>3. PathsListed(call) \in {PathsListed(c) : c \in w.calls}
      BY <3>1
    <3> QED BY <3>2, <3>3
  <2>3. ASSUME NEW f \in PathsListed(call) PROVE IsPath(f)
    <3>1. Asks(call) /\ \E e \in ToSet(Entries(call)) : f = SourceFile(call.explicit, e)
      BY <1>3 DEF PathsListed, Asks, Entries, inputs
    <3> QED BY <3>1, CallGiven
  <2> QED BY <2>1, <2>2, <2>3
<1> QED BY <1>1, <1>2, <1>3

\* A database gives the files that it compiles as C++.
LEMMA DatabaseFiles ==
  ASSUME LanguagesInferred, NEW w, InWorld(w), inputs = <<>>, call.explicit = <<>> \/ Readable(call.explicit)
  PROVE  Sought = {[path |-> e.file, language |-> "c++"] :
                     e \in {d \in ToSet(EntriesAt(call.explicit)) : d.language = "c++"}}
<1>1. CASE call.explicit = <<>>
  <2>1. ToSet(EntriesAt(call.explicit)) = {}
    BY <1>1 DEF EntriesAt, ToSet
  <2> QED BY <1>1, <2>1 DEF Sought
<1>2. CASE call.explicit # <<>>
  <2> DEFINE place == call.explicit
             q == Entries(call)
             wanted == {k \in DOMAIN q : q[k].form # "neither"}
             listed == Picked(q, wanted)
             File(e) == SourceFile(place, e)
             Parsed(e) == [file |-> File(e), args |-> Sanitize(CommandWords(e), File(e), CommandDirectory(place, e)),
                           language |-> CommandLanguage(CommandWords(e), File(e))]
  <2>1. Asks(call) /\ q \in Seq(ToSet(q))
    BY <1>2, CallGiven DEF Asks, Readable
  <2>2. EntriesAt(place) = [k \in DOMAIN listed |-> Parsed(listed[k])]
    BY <1>2, Zenon DEF EntriesAt, ParseDatabase, Entries
  <2>3. ToSet(listed) = {q[k] : k \in DOMAIN q \cap wanted}
    <3> HIDE DEF q, wanted
    <3> QED BY <2>1, PickedMembers
  <2>4. ToSet(listed) = {e \in ToSet(q) : e.form # "neither"}
    <3> HIDE DEF q, listed
    <3> QED BY <2>3 DEF ToSet
  <2>5. ToSet(EntriesAt(place)) = {Parsed(e) : e \in ToSet(listed)}
    <3> HIDE DEF listed, Parsed, place
    <3> QED BY <2>2 DEF ToSet
  <2>6. \A e : Parsed(e).file = File(e) /\ Parsed(e).language = CommandLanguage(CommandWords(e), File(e))
    OBVIOUS
  <2>7. \A e \in ToSet(q) : e.form # "neither" =>
          (CommandLanguage(CommandWords(e), File(e)) = "c++" <=> e.language = "c++")
    <3>1. call \in UNION {v.calls : v \in Worlds}
      BY DEF InWorld
    <3> QED BY <2>1, <3>1, Zenon DEF LanguagesInferred
  <2>8. \A f : CompiledAsCxx(f) <=>
          \E e \in ToSet(q) : e.form # "neither" /\ File(e) = f /\ e.language = "c++"
    <3>1. \A e, f : File(e) = f => SamePath(File(e), f)
      BY DEF SamePath
    <3> HIDE DEF File
    <3>2. \A f : CompiledAsCxx(f) <=>
            \E e \in {e \in ToSet(q) : e.form # "neither" /\ SamePath(File(e), f)} : File(e) = f /\ e.language = "c++"
      BY Zenon DEF CompiledAsCxx, Listing, Entries, File
    <3> QED BY <3>1, <3>2
  <2>9. PathsListed(call) = {File(e) : e \in ToSet(q)}
    BY <2>1 DEF PathsListed, Asks, Entries, inputs
  <2>10. Sought = {[path |-> f, language |-> "c++"] : f \in {g \in PathsListed(call) : CompiledAsCxx(g)}}
    BY <1>2 DEF Sought
  <2> HIDE DEF q, wanted, listed, File, Parsed, place
  <2>11. {f \in PathsListed(call) : CompiledAsCxx(f)} =
           {File(e) : e \in {d \in ToSet(q) : d.form # "neither" /\ d.language = "c++"}}
    BY <2>8, <2>9
  <2>12. {d \in ToSet(EntriesAt(place)) : d.language = "c++"} =
           {Parsed(e) : e \in {d \in ToSet(q) : d.form # "neither" /\ d.language = "c++"}}
    BY <2>4, <2>5, <2>6, <2>7
  <2>13. Sought = {[path |-> d.file, language |-> "c++"] : d \in {d \in ToSet(EntriesAt(place)) : d.language = "c++"}}
    BY <2>6, <2>10, <2>11, <2>12
  <2> QED BY <2>13 DEF place
<1> QED BY <1>1, <1>2

\* One more input adds what it stands for.
LEMMA GatheredMore ==
  ASSUME NEW n \in DOMAIN inputs, inputs \in Seq(ToSet(inputs))
  PROVE  Gathered(n + 1) = Gathered(n) \cup SourceInputs(InputFiles(n))
<1>1. {j \in DOMAIN inputs : j < n + 1} = {j \in DOMAIN inputs : j < n} \cup {n}
  BY DEF inputs
<1> QED BY <1>1 DEF Gathered

\* In a directory the headers on C's side are left out.
LEMMA DirectoryFiles ==
  ASSUME NEW w, InWorld(w), NEW k \in DOMAIN inputs, inputs[k] \in Dirs
  PROVE  {f \in Below(inputs[k]) : ~CSide(inputs[k], f)} = InputFiles(k)
<1>1. inputs[k] \notin DOMAIN disk
  BY DiskGiven
<1>2. \A f \in Below(inputs[k]) : CSide(inputs[k], f) <=> InCOnly(f)
  BY CSideIs
<1> QED BY <1>1, <1>2 DEF InputFiles

\* SelectInv holds in every reachable state.
LEMMA SelectInvariant ==
  ASSUME LanguagesInferred
  PROVE  SelectSpec => []SelectInv
<1>1. SelectInit => SelectInv
  <2> SUFFICES ASSUME SelectInit PROVE SelectInv
    OBVIOUS
  <2>1. \E w : InWorld(w)
    BY DEF SelectInit, InWorld
  <2> QED BY <2>1 DEF SelectInit, SelectInv
<1>2. SelectInv /\ [SelectNext]_selectVars => SelectInv'
  <2> SUFFICES ASSUME SelectInv, [SelectNext]_selectVars
               PROVE  SelectInv'
    OBVIOUS
  <2>1. PICK w : InWorld(w)
    BY DEF SelectInv
  <2>2. UNCHANGED given
    BY DEF SelectNext, selectVars, ReadDatabase, DatabaseUnreadable, CollectFile, CollectDirectory, ScanBreaks,
      CollectMissing, CollectDatabase, AllCollected, Filter, LoadFile, LoadFails, StartTextual, StartClang,
      FoundUnreadable, Collected, Fail
  <2>3. /\ disk' = disk /\ call' = call /\ inputs' = inputs /\ (\E v : InWorld(v)')
        /\ \A n : Gathered(n)' = Gathered(n)
        /\ Kept' = Kept /\ Sought' = Sought
        /\ \A f : LoadedAs(f)' = LoadedAs(f)
        /\ Readable(call.explicit)' <=> Readable(call.explicit)
    BY <2>1, <2>2, GivenStays DEF given
  <2>4. inputs \in Seq(ToSet(inputs)) /\ Len(inputs) \in Nat /\ DOMAIN inputs = 1..Len(inputs)
    <3>1. inputs \in Seq(ToSet(inputs))
      BY <2>1, CallGiven
    <3> QED BY <3>1
  <2>5. CASE UNCHANGED selectVars
    BY <2>3, <2>5 DEF selectVars, SelectInv, Left
  <2>6. ASSUME stage' = "failed" PROVE SelectInv'
    BY <2>3, <2>6 DEF SelectInv
  <2>7. CASE ReadDatabase
    <3>1. files = {} /\ next = 1 /\ sources = <<>>
      BY <2>7 DEF ReadDatabase, SelectInv
    <3>2. Gathered(1) = {}
      BY <2>4 DEF Gathered
    <3>3. \A k \in DOMAIN inputs : ~(k < 1)
      BY <2>4
    <3>4. stage' = "collecting" /\ files' = {} /\ next' = 1 /\ sources' = <<>> /\ 1 \in 1..(Len(inputs) + 1)
      BY <2>4, <2>7, <3>1 DEF ReadDatabase
    <3> QED BY <2>3, <2>7, <3>2, <3>3, <3>4 DEF ReadDatabase, SelectInv
  <2>8. ASSUME Collecting, NEW found, Collected(found), found = SourceInputs(InputFiles(next)),
               inputs[next] \in DOMAIN disk \cup Dirs
        PROVE  SelectInv'
    <3>1. /\ stage = "collecting" /\ next \in DOMAIN inputs /\ next \in Nat /\ files = Gathered(next) /\ sources = <<>>
          /\ \A k \in DOMAIN inputs : k < next => inputs[k] \in DOMAIN disk \cup Dirs
      BY <2>4, <2>8 DEF Collecting, SelectInv
    <3>2. files' = Gathered(next + 1) /\ next' = next + 1 /\ stage' = "collecting" /\ sources' = <<>>
      BY <2>4, <2>8, <3>1, GatheredMore DEF Collected
    <3>3. next + 1 \in 1..(Len(inputs) + 1)
      BY <2>4, <3>1
    <3>4. \A k \in DOMAIN inputs : k < next + 1 => inputs[k] \in DOMAIN disk \cup Dirs
      <4> SUFFICES ASSUME NEW k \in DOMAIN inputs, k < next + 1 PROVE inputs[k] \in DOMAIN disk \cup Dirs
        OBVIOUS
      <4>1. k < next \/ k = next
        BY <2>4, <3>1
      <4> QED BY <2>8, <3>1, <4>1
    <3>5. call.explicit = <<>> \/ Readable(call.explicit)
      BY <3>1 DEF SelectInv
    <3> QED BY <2>3, <3>2, <3>3, <3>4, <3>5 DEF SelectInv
  <2>9. CASE CollectFile
    <3>1. InputFiles(next) = {inputs[next]}
      BY <2>9 DEF CollectFile, InputFiles
    <3> QED BY <2>8, <2>9, <3>1 DEF CollectFile
  <2>10. CASE CollectDirectory
    <3>1. next \in DOMAIN inputs
      BY <2>4, <2>10 DEF CollectDirectory, Collecting, SelectInv
    <3>2. {f \in Below(inputs[next]) : ~CSide(inputs[next], f)} = InputFiles(next)
      BY <2>1, <2>10, <3>1, DirectoryFiles DEF CollectDirectory
    <3> QED BY <2>8, <2>10, <3>2 DEF CollectDirectory
  <2>11. ASSUME stage = "collecting", stage' = "filtering", files' = Sought, sources' = sources,
                \A k \in DOMAIN inputs : inputs[k] \in DOMAIN disk \cup Dirs
         PROVE  SelectInv'
    <3>1. sources = <<>> /\ (call.explicit = <<>> \/ Readable(call.explicit))
      BY <2>11 DEF SelectInv
    <3> QED BY <2>3, <2>11, <3>1 DEF SelectInv
  <2>12. CASE CollectDatabase
    <3>1. call.explicit = <<>> \/ Readable(call.explicit)
      BY <2>12 DEF CollectDatabase, SelectInv
    <3>2. files' = Sought
      BY <2>1, <2>12, <3>1, DatabaseFiles DEF CollectDatabase
    <3>3. DOMAIN inputs = {}
      BY <2>4, <2>12 DEF CollectDatabase
    <3> QED BY <2>11, <2>12, <3>2, <3>3 DEF CollectDatabase
  <2>13. CASE AllCollected
    <3>1. /\ next \in 1..(Len(inputs) + 1) /\ next > Len(inputs) /\ files = Gathered(next) /\ inputs # <<>>
          /\ \A k \in DOMAIN inputs : k < next => inputs[k] \in DOMAIN disk \cup Dirs
      BY <2>13 DEF AllCollected, SelectInv
    <3>2. next = Len(inputs) + 1
      BY <2>4, <3>1
    <3>3. files = Sought
      BY <3>1, <3>2 DEF Sought
    <3>4. \A k \in DOMAIN inputs : inputs[k] \in DOMAIN disk \cup Dirs
      BY <2>4, <3>1, <3>2
    <3> QED BY <2>11, <2>13, <3>3, <3>4 DEF AllCollected
  <2>14. CASE Filter
    <3>1. /\ stage = "filtering" /\ files = Sought /\ sources = <<>>
          /\ call.explicit = <<>> \/ Readable(call.explicit)
          /\ \A k \in DOMAIN inputs : inputs[k] \in DOMAIN disk \cup Dirs
      BY <2>14 DEF Filter, SelectInv
    <3>2. PICK some \in SUBSET files : OnePerPath(some) /\ files' = {f \in some : Passes(f.path)}
      BY <2>14 DEF Filter
    <3>3. some = Sought
      <4>1. some \subseteq Sought /\ \A f \in Sought : \E g \in some : g.path = f.path
        BY <3>1, <3>2 DEF OnePerPath
      <4>2. \A f, g \in Sought : f.path = g.path => f = g
        BY <2>1, SoughtTyped
      <4> QED BY <4>1, <4>2
    <3>4. files' = Kept
      BY <2>1, <3>2, <3>3, SoughtTyped, PassesIs DEF Kept
    <3>5. CASE files' = {}
      BY <2>6, <2>14, <3>5 DEF Filter
    <3>6. CASE files' # {}
      <4>1. inputs = <<>> => call.explicit # <<>>
        BY <3>4, <3>6 DEF Kept, Sought
      <4>2. stage' = "loading" /\ sources' = <<>>
        BY <2>14, <3>1, <3>6 DEF Filter
      <4>3. DOMAIN sources' = {}
        BY <4>2
      <4> QED BY <2>3, <3>1, <3>4, <4>1, <4>2, <4>3 DEF SelectInv
    <3> QED BY <3>5, <3>6
  <2>15. ASSUME stage \in {"loading", "planned"}
         PROVE  /\ call.explicit = <<>> \/ Readable(call.explicit)
                /\ \A k \in DOMAIN inputs : inputs[k] \in DOMAIN disk \cup Dirs
                /\ inputs = <<>> => call.explicit # <<>>
                /\ files = Kept
                /\ DOMAIN sources \subseteq {f.path : f \in files}
                /\ \A f \in files : f.path \in DOMAIN sources => sources[f.path] = LoadedAs(f)
    BY <2>15 DEF SelectInv
  <2>16. CASE LoadFile
    <3>1. stage = "loading" /\ stage' = "loading" /\ files' = files
      BY <2>16 DEF LoadFile
    <3>2. PICK f \in Left, found \in DOMAIN disk :
            /\ SamePath(found, f.path)
            /\ sources' = [g \in DOMAIN sources \cup {f.path} |->
                 IF g # f.path THEN sources[g]
                 ELSE IF f.language # "unknown" THEN f.language ELSE TextLanguage(g, disk[found])]
      BY <2>16, Zenon DEF LoadFile
    <3>3. f \in files /\ f \in Sought /\ f.path \notin DOMAIN sources
      BY <2>15, <3>1, <3>2 DEF Left, Kept
    <3>4. f.language # "unknown" \/ found = f.path
      <4>1. CASE inputs # <<>>
        <5>1. f.path \in DOMAIN disk
          <6>1. PICK k \in DOMAIN inputs : f \in SourceInputs(InputFiles(k))
            BY <3>3, <4>1 DEF Sought, Gathered
          <6> QED BY <6>1 DEF InputFiles, Below, SourceInputs
        <5> QED BY <2>1, <3>2, <5>1, DiskGiven
      <4>2. CASE inputs = <<>>
        BY <3>3, <4>2 DEF Sought
      <4> QED BY <4>1, <4>2
    <3>5. DOMAIN sources' = DOMAIN sources \cup {f.path}
      BY <3>2
    <3>6. sources'[f.path] = LoadedAs(f)
      BY <3>2, <3>4 DEF LoadedAs
    <3>7. \A g \in DOMAIN sources : sources'[g] = sources[g]
      BY <3>2, <3>3
    <3>8. \A g \in files : g.path \in DOMAIN sources' => sources'[g.path] = LoadedAs(g)
      <4> SUFFICES ASSUME NEW g \in files, g.path \in DOMAIN sources' PROVE sources'[g.path] = LoadedAs(g)
        OBVIOUS
      <4>1. CASE g.path = f.path
        <5>1. g \in Sought
          BY <2>15, <3>1 DEF Kept
        <5>2. g = f
          BY <2>1, <3>3, <4>1, <5>1, SoughtTyped
        <5> QED BY <3>6, <5>2
      <4>2. CASE g.path # f.path
        BY <2>15, <3>1, <3>5, <3>7, <4>2
      <4> QED BY <4>1, <4>2
    <3>9. DOMAIN sources' \subseteq {g.path : g \in files}
      BY <2>15, <3>1, <3>3, <3>5
    <3> QED BY <2>3, <2>15, <3>1, <3>8, <3>9 DEF SelectInv
  <2>17. ASSUME AllLoaded, stage' = "planned", files' = files, sources' = sources
         PROVE  SelectInv'
    <3>1. Left' = Left /\ Left = {} /\ stage = "loading"
      BY <2>17 DEF AllLoaded, Left
    <3> QED BY <2>3, <2>15, <2>17, <3>1 DEF SelectInv
  <2>18. CASE StartTextual
    BY <2>17, <2>18 DEF StartTextual
  <2>19. CASE StartClang
    <3>1. AllLoaded /\ stage' = "planned" /\ UNCHANGED <<given, next, files, sources>>
      BY <2>19, Zenon DEF StartClang
    <3> QED BY <2>17, <3>1
  <2>20. CASE DatabaseUnreadable \/ ScanBreaks \/ CollectMissing \/ LoadFails \/ FoundUnreadable
    BY <2>6, <2>20 DEF DatabaseUnreadable, ScanBreaks, CollectMissing, LoadFails, FoundUnreadable, Fail
  <2> QED BY <2>5, <2>7, <2>9, <2>10, <2>12, <2>13, <2>14, <2>16, <2>18, <2>19, <2>20 DEF SelectNext
<1> QED BY <1>1, <1>2, PTL DEF SelectSpec

\* What is sought of the inputs is C++ if it looks like it, and was asked for.
LEMMA SoughtOfInputs ==
  ASSUME NEW w, InWorld(w), inputs # <<>>, \A k \in DOMAIN inputs : inputs[k] \in DOMAIN disk \cup Dirs, NEW p
  PROVE  (\E f \in Sought : f.path = p /\ LoadedAs(f) = "c++") <=> p \in DOMAIN disk /\ Asked(p) /\ LooksCxx(p)
<1>0. inputs \in Seq(ToSet(inputs)) /\ Len(inputs) \in Nat /\ DOMAIN inputs = 1..Len(inputs)
  <2>1. inputs \in Seq(ToSet(inputs))
    BY CallGiven
  <2> QED BY <2>1
<1>1. Sought = UNION {SourceInputs(InputFiles(k)) : k \in DOMAIN inputs}
  <2>1. {j \in DOMAIN inputs : j < Len(inputs) + 1} = DOMAIN inputs
    BY <1>0
  <2> QED BY <2>1 DEF Sought, Gathered
<1>2. \A k \in DOMAIN inputs : p \in InputFiles(k) => p \in DOMAIN disk
  BY DEF InputFiles, Below
<1>3. (\E k \in DOMAIN inputs : p \in InputFiles(k)) <=> p \in DOMAIN disk /\ Asked(p)
  <2>1. ASSUME NEW k \in DOMAIN inputs, p \in InputFiles(k) PROVE Asked(p)
    BY <2>1 DEF InputFiles, Below, Asked
  <2>2. ASSUME p \in DOMAIN disk, NEW k \in DOMAIN inputs, inputs[k] = p PROVE p \in InputFiles(k)
    BY <2>2 DEF InputFiles
  <2>3. ASSUME p \in DOMAIN disk, NEW k \in DOMAIN inputs, IsStrictPrefix(inputs[k] \o <<"/">>, p), ~InCOnly(p)
        PROVE  p \in InputFiles(k)
    <3>1. inputs[k] \notin DOMAIN disk
      BY <2>3, DiskGiven
    <3> QED BY <2>3, <3>1 DEF InputFiles, Below
  <2> QED BY <1>2, <2>1, <2>2, <2>3 DEF Asked
<1> DEFINE f == [path |-> p, language |-> IF Header(p) THEN "unknown" ELSE "c++"]
<1>4. \A k \in DOMAIN inputs : \A g : g \in SourceInputs(InputFiles(k)) /\ g.path = p <=>
        g = f /\ p \in InputFiles(k) /\ PathLanguage(p) = "c++"
  BY DEF SourceInputs
<1>5. LoadedAs(f) = IF Header(p) THEN TextLanguage(p, disk[p]) ELSE "c++"
  BY DEF LoadedAs
<1>6. (\E g \in Sought : g.path = p /\ LoadedAs(g) = "c++") <=>
        (\E k \in DOMAIN inputs : p \in InputFiles(k)) /\ PathLanguage(p) = "c++" /\ LoadedAs(f) = "c++"
  <2> HIDE DEF f
  <2> QED BY <1>1, <1>4
<1>7. p \in DOMAIN disk =>
        (LooksCxx(p) <=> PathLanguage(p) = "c++" /\ (IF Header(p) THEN TextLanguage(p, disk[p]) ELSE "c++") = "c++")
  BY LanguageIs
<1> HIDE DEF f
<1> QED BY <1>3, <1>5, <1>6, <1>7

(* A plan analyses exactly the C++ files that were asked for and that the  *)
(* patterns leave, for any disk and any call, if the languages of the      *)
(* commands in a database are inferred as a compiler would have them.      *)
THEOREM PlansWhatIsWanted ==
  ASSUME LanguagesInferred
  PROVE  SelectSpec => []AnalysesWanted
<1>1. SelectInv => AnalysesWanted
  <2> SUFFICES ASSUME SelectInv, stage = "planned" PROVE Cxx = Wanted
    BY DEF AnalysesWanted
  <2>1. PICK w : InWorld(w)
    BY DEF SelectInv
  <2>2. /\ call.explicit = <<>> \/ Readable(call.explicit)
        /\ \A k \in DOMAIN inputs : inputs[k] \in DOMAIN disk \cup Dirs
        /\ inputs = <<>> => call.explicit # <<>>
        /\ files = Kept /\ Left = {}
        /\ DOMAIN sources \subseteq {f.path : f \in files}
        /\ \A f \in files : f.path \in DOMAIN sources => sources[f.path] = LoadedAs(f)
    BY DEF SelectInv
  <2>3. \A p : p \in Cxx <=> Selected(p) /\ \E f \in Sought : f.path = p /\ LoadedAs(f) = "c++"
    <3>1. \A f \in Kept : f.path \in DOMAIN sources /\ sources[f.path] = LoadedAs(f)
      BY <2>2 DEF Left
    <3>2. ASSUME NEW p \in Cxx PROVE Selected(p) /\ \E f \in Sought : f.path = p /\ LoadedAs(f) = "c++"
      <4>1. p \in DOMAIN sources /\ sources[p] = "c++"
        BY <3>2 DEF Cxx
      <4>2. PICK f \in Kept : f.path = p
        BY <2>2, <4>1
      <4> QED BY <3>1, <4>1, <4>2 DEF Kept
    <3>3. ASSUME NEW p, Selected(p), NEW f \in Sought, f.path = p, LoadedAs(f) = "c++" PROVE p \in Cxx
      <4>1. f \in Kept
        BY <3>3 DEF Kept
      <4> QED BY <3>1, <3>3, <4>1 DEF Cxx
    <3> QED BY <3>2, <3>3
  <2>4. PathsOf(w) \subseteq AllPaths
    BY <2>1 DEF AllPaths, InWorld
  <2>5. CASE inputs # <<>>
    <3>1. \A p : (\E f \in Sought : f.path = p /\ LoadedAs(f) = "c++") <=> p \in DOMAIN disk /\ Asked(p) /\ LooksCxx(p)
      BY <2>1, <2>2, <2>5, SoughtOfInputs
    <3>2. DOMAIN disk \subseteq AllPaths
      <4>1. DOMAIN disk \subseteq PathsOf(w)
        BY <2>1 DEF PathsOf, InWorld
      <4> QED BY <2>4, <4>1
    <3>3. \A p : p \in Cxx <=> p \in Wanted
      BY <2>3, <2>5, <3>1, <3>2 DEF Wanted
    <3>4. Cxx \subseteq Wanted /\ Wanted \subseteq Cxx
      BY <3>3
    <3> QED BY <3>4
  <2>6. CASE inputs = <<>>
    <3>1. Sought = {[path |-> f, language |-> "c++"] : f \in {g \in PathsListed(call) : CompiledAsCxx(g)}}
      BY <2>2, <2>6 DEF Sought
    <3>2. \A p : (\E f \in Sought : f.path = p /\ LoadedAs(f) = "c++") <=> p \in PathsListed(call) /\ CompiledAsCxx(p)
      <4> DEFINE Record(p) == [path |-> p, language |-> "c++"]
      <4>1. \A p : Record(p).path = p /\ LoadedAs(Record(p)) = "c++"
        BY DEF LoadedAs
      <4>2. \A p : p \in PathsListed(call) /\ CompiledAsCxx(p) => Record(p) \in Sought
        BY <3>1
      <4>3. \A f \in Sought : f.path \in PathsListed(call) /\ CompiledAsCxx(f.path)
        BY <3>1
      <4> HIDE DEF Record
      <4> QED BY <4>1, <4>2, <4>3
    <3>3. \A p : CompiledAsCxx(p) => p \in PathsListed(call)
      <4>1. PathsListed(call) = {SourceFile(call.explicit, e) : e \in ToSet(call.placed[Canonical(call.explicit)].entries)}
        BY <2>2, <2>6 DEF PathsListed, Readable, inputs
      <4> QED BY <4>1 DEF CompiledAsCxx, Listing
    <3>4. PathsListed(call) \subseteq AllPaths
      <4>1. PathsListed(call) \subseteq PathsOf(w)
        <5>1. PathsListed(call) \in {PathsListed(c) : c \in w.calls}
          BY <2>1 DEF InWorld
        <5> QED BY <5>1 DEF PathsOf
      <4> QED BY <2>4, <4>1
    <3>5. \A p : p \in Cxx <=> p \in Wanted
      BY <2>3, <2>6, <3>2, <3>3, <3>4 DEF Wanted
    <3>6. Cxx \subseteq Wanted /\ Wanted \subseteq Cxx
      BY <3>5
    <3> QED BY <3>6
  <2> QED BY <2>5, <2>6
<1> QED BY <1>1, SelectInvariant, PTL

-----------------------------------------------------------------------------
(* Pieces put together, and members picked from them *)

\* Nothing put together is nothing.
LEMMA FlattenNothing == FlattenSeq(<<>>) = <<>>
BY DEF FlattenSeq

\* What is put together in two parts is what is put together at once.
LEMMA FlattenConcat ==
  ASSUME NEW X, NEW a \in Seq(Seq(X)), NEW b \in Seq(Seq(X))
  PROVE  FlattenSeq(a \o b) = FlattenSeq(a) \o FlattenSeq(b)
<1> DEFINE s == a \o b
           n == Len(a)
           m == Len(b)
<1>1. /\ n \in Nat /\ m \in Nat /\ Len(s) = n + m /\ s \in Seq(Seq(X))
      /\ \A i \in 1..n : s[i] = a[i] /\ a[i] \in Seq(X)
      /\ \A j \in 1..m : s[n + j] = b[j] /\ b[j] \in Seq(X)
  <2>1. s \in Seq(Seq(X)) /\ Len(s) = n + m /\ n \in Nat /\ m \in Nat
    BY ConcatProperties
  <2>2. \A i \in 1..(n + m) : s[i] = IF i <= n THEN a[i] ELSE b[i - n]
    BY ConcatProperties
  <2>3. \A i \in 1..n : s[i] = a[i]
    BY <2>1, <2>2
  <2>4. ASSUME NEW j \in 1..m PROVE s[n + j] = b[j]
    <3>1. n + j \in 1..(n + m) /\ ~(n + j <= n) /\ (n + j) - n = j
      BY <2>1
    <3> QED BY <2>2, <3>1
  <2>5. (\A i \in 1..n : a[i] \in Seq(X)) /\ \A j \in 1..m : b[j] \in Seq(X)
    OBVIOUS
  <2> HIDE DEF s
  <2> QED BY <2>1, <2>3, <2>4, <2>5
<1>2. FlattenSeq(a) \in Seq(X) /\ FlattenSeq(b) \in Seq(X)
  BY FlattenTyped
<1>3. CASE n = 0
  <2>1. a = <<>> /\ s = b
    BY <1>3
  <2> QED BY <1>2, <2>1, FlattenNothing
<1>4. CASE m = 0
  <2>1. b = <<>> /\ s = a
    BY <1>4
  <2> QED BY <1>2, <2>1, FlattenNothing
<1>5. CASE n # 0 /\ m # 0
  <2> HIDE DEF s
  <2>1. PICK F : Flattens(F, s, n + m) /\ FlattenSeq(s) = F[n + m]
    <3>1. Len(s) \in Nat \ {0} /\ Len(s) = n + m
      BY <1>1, <1>5
    <3> QED BY <3>1, FlattenIs
  <2>2. PICK Fa : Flattens(Fa, a, n) /\ FlattenSeq(a) = Fa[n]
    BY <1>1, <1>5, FlattenIs
  <2>3. PICK Fb : Flattens(Fb, b, m) /\ FlattenSeq(b) = Fb[m]
    BY <1>1, <1>5, FlattenIs
  <2>4. /\ \A i \in 1..(n + m) : F[i] = IF i = 1 THEN s[i] ELSE F[i - 1] \o s[i]
        /\ \A i \in 1..n : Fa[i] = IF i = 1 THEN a[i] ELSE Fa[i - 1] \o a[i]
        /\ \A i \in 1..m : Fb[i] = IF i = 1 THEN b[i] ELSE Fb[i - 1] \o b[i]
    BY <2>1, <2>2, <2>3 DEF Flattens
  <2> DEFINE T == {i \in 1..n : F[i] = Fa[i]}
  <2>5. \A i \in 1..n : i \in T
    <3>1. ASSUME NEW i \in 1..n, i = 1 \/ i - 1 \in T PROVE i \in T
      BY <1>1, <2>4, <3>1
    <3> HIDE DEF T
    <3> QED BY <1>1, <3>1, CountUp
  <2> DEFINE U == {j \in 1..m : F[n + j] = Fa[n] \o Fb[j] /\ Fb[j] \in Seq(X)}
  <2>6. \A j \in 1..m : j \in U
    <3>1. ASSUME NEW j \in 1..m, j = 1 \/ j - 1 \in U PROVE j \in U
      <4>1. n + j \in 1..(n + m) /\ n + j # 1 /\ (n + j) - 1 = n + (j - 1) /\ n \in 1..n
        BY <1>1, <1>5
      <4>2. F[n + j] = F[n + (j - 1)] \o b[j] /\ b[j] \in Seq(X)
        BY <1>1, <2>4, <4>1
      <4>3. CASE j = 1
        <5>1. F[n + (j - 1)] = Fa[n]
          BY <1>1, <2>5, <4>1, <4>3
        <5> QED BY <2>4, <4>2, <4>3, <5>1
      <4>4. CASE j # 1
        <5>1. F[n + (j - 1)] = Fa[n] \o Fb[j - 1] /\ Fb[j - 1] \in Seq(X)
          BY <3>1, <4>4
        <5>2. Fb[j] = Fb[j - 1] \o b[j]
          BY <2>4, <4>4
        <5>3. Fa[n] \in Seq(X)
          BY <1>2, <2>2
        <5>4. (Fa[n] \o Fb[j - 1]) \o b[j] = Fa[n] \o (Fb[j - 1] \o b[j])
          BY <4>2, <5>1, <5>3, Reassociated
        <5>5. Fb[j - 1] \o b[j] \in Seq(X)
          BY <4>2, <5>1, ConcatProperties
        <5> QED BY <4>2, <5>1, <5>2, <5>4, <5>5
      <4> QED BY <4>3, <4>4
    <3> HIDE DEF U
    <3> QED BY <1>1, <3>1, CountUp
  <2>7. m \in 1..m
    BY <1>1, <1>5
  <2>8. F[n + m] = Fa[n] \o Fb[m]
    BY <2>6, <2>7
  <2> QED BY <2>1, <2>2, <2>3, <2>8 DEF s
<1> QED BY <1>1, <1>3, <1>4, <1>5

-----------------------------------------------------------------------------
(* Picked, in two parts *)

\* Of one member it is there or nothing.
LEMMA PickedOne ==
  ASSUME NEW x, NEW w
  PROVE  Picked(<<x>>, w) = IF 1 \in w THEN <<x>> ELSE <<>>
<1> DEFINE s == [k \in 1..Len(<<x>>) |-> IF k \in w THEN <<(<<x>>)[k]>> ELSE <<>>]
<1>1. Len(s) = 1 /\ s[1] = IF 1 \in w THEN <<x>> ELSE <<>>
  OBVIOUS
<1>2. Picked(<<x>>, w) = FlattenSeq(s)
  BY DEF Picked
<1> HIDE DEF s
<1>3. PICK F : Flattens(F, s, Len(s)) /\ FlattenSeq(s) = F[Len(s)]
  BY <1>1, FlattenIs
<1>4. F[1] = s[1]
  BY <1>1, <1>3 DEF Flattens
<1> QED BY <1>1, <1>2, <1>3, <1>4

\* What is wanted of two parts is v of the one and u of the other.
WantedOf(w, v, u, a, b) ==
  /\ \A k \in 1..Len(a) : k \in w <=> k \in v
  /\ \A k \in 1..Len(b) : Len(a) + k \in w <=> k \in u

\* Of two parts it is what there is of the one and of the other.
LEMMA PickedConcat ==
  ASSUME NEW X, NEW a \in Seq(X), NEW b \in Seq(X), NEW w, NEW v, NEW u, WantedOf(w, v, u, a, b)
  PROVE  Picked(a \o b, w) = Picked(a, v) \o Picked(b, u)
<1> DEFINE Each(q, some) == [k \in 1..Len(q) |-> IF k \in some THEN <<q[k]>> ELSE <<>>]
<1>1. /\ Len(a) \in Nat /\ Len(b) \in Nat /\ Len(a \o b) = Len(a) + Len(b) /\ a \o b \in Seq(X)
      /\ \A k \in 1..(Len(a) + Len(b)) : (a \o b)[k] = IF k <= Len(a) THEN a[k] ELSE b[k - Len(a)]
  BY ConcatProperties
<1>2. ASSUME NEW q \in Seq(X), NEW some
      PROVE  Each(q, some) \in Seq(Seq(X)) /\ Len(Each(q, some)) = Len(q)
  OBVIOUS
<1>3. Each(a \o b, w) = Each(a, v) \o Each(b, u)
  <2> DEFINE l == Each(a \o b, w)
             r == Each(a, v) \o Each(b, u)
  <2>1. Each(a, v) \in Seq(Seq(X)) /\ Each(b, u) \in Seq(Seq(X)) /\ Len(Each(a, v)) = Len(a) /\ Len(Each(b, u)) = Len(b)
    BY <1>2
  <2>2. /\ r \in Seq(Seq(X)) /\ Len(r) = Len(a) + Len(b)
        /\ \A k \in 1..(Len(a) + Len(b)) : r[k] = IF k <= Len(a) THEN Each(a, v)[k] ELSE Each(b, u)[k - Len(a)]
    <3> HIDE DEF Each
    <3>1. /\ r \in Seq(Seq(X)) /\ Len(r) = Len(Each(a, v)) + Len(Each(b, u))
          /\ \A k \in 1..(Len(Each(a, v)) + Len(Each(b, u))) :
               r[k] = IF k <= Len(Each(a, v)) THEN Each(a, v)[k] ELSE Each(b, u)[k - Len(Each(a, v))]
      BY <2>1, ConcatProperties, Zenon
    <3> QED BY <2>1, <3>1, Zenon
  <2>3. l \in Seq(Seq(X)) /\ Len(l) = Len(a) + Len(b)
    <3> HIDE DEF Each
    <3> QED BY <1>1, <1>2
  <2>4. ASSUME NEW k \in 1..(Len(a) + Len(b)) PROVE l[k] = r[k]
    <3>1. CASE k <= Len(a)
      <4>1. k \in 1..Len(a) /\ r[k] = Each(a, v)[k] /\ (a \o b)[k] = a[k]
        BY <1>1, <2>2, <3>1
      <4> QED BY <1>1, <4>1 DEF WantedOf
    <3>2. CASE ~(k <= Len(a))
      <4>1. k - Len(a) \in 1..Len(b) /\ Len(a) + (k - Len(a)) = k
        BY <1>1, <3>2
      <4>2. r[k] = Each(b, u)[k - Len(a)] /\ (a \o b)[k] = b[k - Len(a)]
        BY <1>1, <2>2, <3>2
      <4>3. k \in w <=> k - Len(a) \in u
        BY <4>1 DEF WantedOf
      <4> QED BY <1>1, <4>1, <4>2, <4>3
    <3> QED BY <3>1, <3>2
  <2> HIDE DEF l, r
  <2>5. l = r
    BY <1>1, <2>2, <2>3, <2>4, SeqEqual
  <2> QED BY <2>5 DEF l, r
<1>4. \A q, some : Picked(q, some) = FlattenSeq(Each(q, some))
  BY DEF Picked
<1> HIDE DEF Each
<1>5. Each(a, v) \in Seq(Seq(X)) /\ Each(b, u) \in Seq(Seq(X))
  BY <1>2
<1>6. FlattenSeq(Each(a, v) \o Each(b, u)) = FlattenSeq(Each(a, v)) \o FlattenSeq(Each(b, u))
  BY <1>5, FlattenConcat, Zenon
<1> QED BY <1>3, <1>4, <1>6, Zenon

-----------------------------------------------------------------------------
(* Canonical *)

HasSlash(A) == "/" \in A

NoDots(q) == Picked(q, {k \in DOMAIN q : q[k] # "."})

\* Dots are left out of one part and the other.
LEMMA NoDotsConcat ==
  ASSUME NEW A, NEW a \in Seq(A), NEW b \in Seq(A)
  PROVE  NoDots(a \o b) = NoDots(a) \o NoDots(b) /\ NoDots(a) \in Seq(A)
<1>1. /\ Len(a) \in Nat /\ Len(b) \in Nat /\ DOMAIN (a \o b) = 1..(Len(a) + Len(b))
      /\ \A k \in 1..(Len(a) + Len(b)) : (a \o b)[k] = IF k <= Len(a) THEN a[k] ELSE b[k - Len(a)]
  BY ConcatProperties
<1> DEFINE w == {k \in DOMAIN (a \o b) : (a \o b)[k] # "."}
           v == {k \in DOMAIN a : a[k] # "."}
           u == {k \in DOMAIN b : b[k] # "."}
<1>2. \A k \in 1..Len(a) : k \in w <=> k \in v
  BY <1>1
<1>3. ASSUME NEW k \in 1..Len(b) PROVE Len(a) + k \in w <=> k \in u
  <2>1. Len(a) + k \in 1..(Len(a) + Len(b)) /\ ~(Len(a) + k <= Len(a)) /\ Len(a) + k - Len(a) = k
    BY <1>1
  <2>2. (a \o b)[Len(a) + k] = b[k]
    BY <1>1, <2>1
  <2> QED BY <1>1, <2>1, <2>2
<1> HIDE DEF w, v, u
<1>4. Picked(a \o b, w) = Picked(a, v) \o Picked(b, u)
  <2>1. \A k \in 1..Len(b) : Len(a) + k \in w <=> k \in u
    BY <1>3
  <2>2. WantedOf(w, v, u, a, b)
    BY <1>2, <2>1 DEF WantedOf
  <2> QED BY <2>2, PickedConcat
<1>5. Picked(a, v) \in Seq(A)
  BY PickedMembers
<1> QED BY <1>4, <1>5 DEF w, v, u, NoDots

\* A second slash behind a slash is dropped.
LEMMA DoubleSlash ==
  ASSUME NEW A, HasSlash(A), NEW b \in Seq(A), NEW p \in Seq(A)
  PROVE  Normalise(((b \o <<"/">>) \o <<"/">>) \o p) = Normalise((b \o <<"/">>) \o p)
<1> DEFINE Slashed(q) == [k \in 1..Len(q) |-> IF q[k] = "bs" THEN "/" ELSE q[k]]
           First(q) == {k \in DOMAIN q : q[k] = "/" => k = 1 \/ q[k - 1] # "/"}
           Later(q) == {k \in DOMAIN q : q[k] = "/" => k # 1 /\ q[k - 1] # "/"}
<1>1. \A q : Normalise(q) = Picked(Slashed(q), First(Slashed(q)))
  BY DEF Normalise
<1>2. ASSUME NEW q \in Seq(A) PROVE Slashed(q) \in Seq(A) /\ Len(Slashed(q)) = Len(q)
  BY DEF HasSlash
<1>3. ASSUME NEW q \in Seq(A), NEW r \in Seq(A) PROVE Slashed(q \o r) = Slashed(q) \o Slashed(r)
  <2>1. /\ Len(q) \in Nat /\ Len(r) \in Nat /\ Len(q \o r) = Len(q) + Len(r) /\ q \o r \in Seq(A)
        /\ \A k \in 1..(Len(q) + Len(r)) : (q \o r)[k] = IF k <= Len(q) THEN q[k] ELSE r[k - Len(q)]
    BY ConcatProperties
  <2>2. /\ Slashed(q) \o Slashed(r) \in Seq(A) /\ Len(Slashed(q) \o Slashed(r)) = Len(q) + Len(r)
        /\ \A k \in 1..(Len(q) + Len(r)) :
             (Slashed(q) \o Slashed(r))[k] = IF k <= Len(q) THEN Slashed(q)[k] ELSE Slashed(r)[k - Len(q)]
    <3>1. Slashed(q) \in Seq(A) /\ Slashed(r) \in Seq(A) /\ Len(Slashed(q)) = Len(q) /\ Len(Slashed(r)) = Len(r)
      BY <1>2
    <3> HIDE DEF Slashed
    <3>2. /\ Slashed(q) \o Slashed(r) \in Seq(A) /\ Len(Slashed(q) \o Slashed(r)) = Len(Slashed(q)) + Len(Slashed(r))
          /\ \A k \in 1..(Len(Slashed(q)) + Len(Slashed(r))) :
               (Slashed(q) \o Slashed(r))[k] =
                 IF k <= Len(Slashed(q)) THEN Slashed(q)[k] ELSE Slashed(r)[k - Len(Slashed(q))]
      BY <3>1, ConcatProperties, Zenon
    <3> QED BY <3>1, <3>2, Zenon
  <2>3. ASSUME NEW k \in 1..(Len(q) + Len(r)) PROVE Slashed(q \o r)[k] = (Slashed(q) \o Slashed(r))[k]
    <3>1. CASE k <= Len(q)
      BY <2>1, <2>2, <3>1
    <3>2. CASE ~(k <= Len(q))
      <4>1. k - Len(q) \in 1..Len(r)
        BY <2>1, <3>2
      <4> QED BY <2>1, <2>2, <3>2, <4>1
    <3> QED BY <3>1, <3>2
  <2>4. Slashed(q \o r) \in Seq(A) /\ Len(Slashed(q \o r)) = Len(q) + Len(r)
    <3> HIDE DEF Slashed
    <3> QED BY <1>2, <2>1
  <2> HIDE DEF Slashed
  <2> QED BY <2>1, <2>2, <2>3, <2>4, SeqEqual
<1> DEFINE x == b \o <<"/">>
           X == Slashed(x)
           Y == Slashed(p)
           one == <<"/">>
<1>4. /\ one \in Seq(A) /\ x \in Seq(A) /\ x \o one \in Seq(A) /\ X \in Seq(A) /\ Y \in Seq(A)
      /\ Len(x) \in Nat \ {0} /\ x[Len(x)] = "/" /\ Len(X) = Len(x) /\ Slashed(one) = one
  <2>1. one \in Seq(A) /\ Len(one) = 1 /\ one[1] = "/"
    BY DEF HasSlash
  <2>2. Len(x) = Len(b) + 1 /\ x[Len(x)] = one[1] /\ Len(b) \in Nat /\ x \in Seq(A)
    <3> HIDE DEF one
    <3>1. b \o one \in Seq(A) /\ Len(b \o one) = Len(b) + Len(one)
      BY <2>1, ConcatProperties, Zenon
    <3>2. Len(b) \in Nat /\ Len(one) # 0
      BY <2>1
    <3>3. (b \o one)[Len(b \o one)] = one[Len(one)]
      BY <2>1, <3>2, EndOfBoth, Zenon
    <3> QED BY <2>1, <3>1, <3>2, <3>3
  <2>3. Slashed(one) = one
    OBVIOUS
  <2> HIDE DEF x, one
  <2>4. x \o one \in Seq(A)
    BY <2>1, <2>2, ConcatProperties
  <2>5. X \in Seq(A) /\ Y \in Seq(A) /\ Len(X) = Len(x)
    BY <1>2, <2>2
  <2> HIDE DEF X, Y, Slashed
  <2> QED BY <2>1, <2>2, <2>3, <2>4, <2>5
<1>5. X[Len(X)] = "/" /\ Len(X) \in Nat \ {0}
  <2> HIDE DEF x
  <2> QED BY <1>4
<1>6. Slashed((x \o one) \o p) = (X \o one) \o Y /\ Slashed(x \o p) = X \o Y
  <2>1. Slashed((x \o one) \o p) = Slashed(x \o one) \o Y /\ Slashed(x \o one) = X \o Slashed(one)
    <3> HIDE DEF x, one, Slashed
    <3> QED BY <1>3, <1>4, Zenon
  <2>2. Slashed(x \o p) = X \o Y
    <3> HIDE DEF x, one, Slashed
    <3> QED BY <1>3, <1>4, Zenon
  <2> HIDE DEF x, one, Slashed, X, Y
  <2> QED BY <1>4, <2>1, <2>2
<1>7. ASSUME NEW q \in Seq(A), NEW r \in Seq(A), Len(q) # 0, q[Len(q)] = "/"
      PROVE  Picked(q \o r, First(q \o r)) = Picked(q, First(q)) \o Picked(r, Later(r))
  <2>1. /\ Len(q) \in Nat /\ Len(r) \in Nat /\ Len(q \o r) = Len(q) + Len(r) /\ q \o r \in Seq(A)
        /\ DOMAIN q = 1..Len(q) /\ DOMAIN r = 1..Len(r) /\ DOMAIN (q \o r) = 1..(Len(q) + Len(r))
        /\ \A k \in 1..(Len(q) + Len(r)) : (q \o r)[k] = IF k <= Len(q) THEN q[k] ELSE r[k - Len(q)]
    BY ConcatProperties
  <2>2. ASSUME NEW k \in 1..Len(q) PROVE k \in First(q \o r) <=> k \in First(q)
    <3>1. k # 1 => k - 1 \in 1..Len(q)
      OBVIOUS
    <3>2. (q \o r)[k] = q[k] /\ (k # 1 => (q \o r)[k - 1] = q[k - 1])
      BY <2>1, <3>1
    <3> QED BY <2>1, <3>2
  <2>3. ASSUME NEW k \in 1..Len(r) PROVE Len(q) + k \in First(q \o r) <=> k \in Later(r)
    <3> DEFINE n == Len(q) + k
    <3>1. n \in 1..(Len(q) + Len(r)) /\ ~(n <= Len(q)) /\ n - Len(q) = k /\ n # 1
      BY <1>7, <2>1
    <3>2. (q \o r)[n] = r[k]
      BY <2>1, <3>1
    <3>3. CASE k = 1
      <4>1. n - 1 = Len(q) /\ Len(q) \in 1..(Len(q) + Len(r))
        BY <1>7, <2>1, <3>3
      <4>2. (q \o r)[n - 1] = "/"
        <5>1. (q \o r)[Len(q)] = q[Len(q)]
          BY <2>1, <4>1
        <5> QED BY <1>7, <4>1, <5>1
      <4> HIDE DEF n
      <4> QED BY <2>1, <3>1, <3>2, <3>3, <4>2
    <3>4. CASE k # 1
      <4>1. n - 1 \in 1..(Len(q) + Len(r)) /\ ~(n - 1 <= Len(q)) /\ (n - 1) - Len(q) = k - 1
        BY <2>1, <3>4
      <4>2. (q \o r)[n - 1] = r[k - 1]
        BY <2>1, <4>1
      <4> HIDE DEF n
      <4> QED BY <2>1, <3>1, <3>2, <3>4, <4>2
    <3> QED BY <3>3, <3>4
  <2> HIDE DEF First, Later
  <2>4. \A k \in 1..Len(q) : k \in First(q \o r) <=> k \in First(q)
    BY <2>2
  <2>5. \A k \in 1..Len(r) : Len(q) + k \in First(q \o r) <=> k \in Later(r)
    BY <2>3
  <2>6. WantedOf(First(q \o r), First(q), Later(r), q, r)
    BY <2>4, <2>5 DEF WantedOf
  <2> QED BY <2>6, PickedConcat
<1>8. Picked(X \o one, First(X \o one)) = Picked(X, First(X))
  <2>1. Picked(X \o one, First(X \o one)) = Picked(X, First(X)) \o Picked(one, Later(one))
    <3> HIDE DEF X, one, First, Later
    <3> QED BY <1>4, <1>5, <1>7
  <2>2. Picked(one, Later(one)) = <<>>
    <3>1. 1 \notin Later(one)
      OBVIOUS
    <3> HIDE DEF Later
    <3> QED BY <3>1, PickedOne
  <2>3. Picked(X, First(X)) \in Seq(A)
    <3> HIDE DEF X, First
    <3> QED BY <1>4, PickedMembers
  <2> HIDE DEF X, one, First, Later
  <2> QED BY <2>1, <2>2, <2>3
<1>9. (X \o one) \in Seq(A) /\ Len(X \o one) # 0 /\ (X \o one)[Len(X \o one)] = "/"
  <2>1. Len(one) = 1 /\ one[1] = "/"
    OBVIOUS
  <2> HIDE DEF X, one
  <2>2. X \o one \in Seq(A) /\ Len(X \o one) = Len(X) + Len(one)
    BY <1>4, ConcatProperties, Zenon
  <2>3. Len(one) # 0
    BY <2>1
  <2>4. (X \o one)[Len(X \o one)] = one[Len(one)]
    BY <1>4, <2>3, EndOfBoth, Zenon
  <2> QED BY <1>5, <2>1, <2>2, <2>4
<1> HIDE DEF First, Later, Slashed, X, Y, one
<1>10. Picked((X \o one) \o Y, First((X \o one) \o Y)) = Picked(X \o Y, First(X \o Y))
  <2>1. Picked((X \o one) \o Y, First((X \o one) \o Y)) = Picked(X \o one, First(X \o one)) \o Picked(Y, Later(Y))
    BY <1>4, <1>7, <1>9, Zenon
  <2>2. Len(X) # 0
    BY <1>5
  <2>3. Picked(X \o Y, First(X \o Y)) = Picked(X, First(X)) \o Picked(Y, Later(Y))
    BY <1>4, <1>5, <1>7, <2>2, Zenon
  <2> QED BY <1>8, <2>1, <2>3, Zenon
<1> QED BY <1>1, <1>6, <1>10 DEF one

\* Two texts in a row are a text.
LEMMA ConcatTyped == ASSUME NEW A, NEW a, NEW b, a \in Seq(A), b \in Seq(A) PROVE a \o b \in Seq(A)
OBVIOUS

\* A path taken from "." is the same path.
LEMMA CanonicalHere ==
  ASSUME NEW q, IsPath(q)
  PROVE  Canonical(In(Here, q)) = Canonical(q)
<1>1. CASE IsAbsolute(q)
  BY <1>1 DEF In
<1>2. CASE ~IsAbsolute(q)
  <2> DEFINE one == <<"/">>
             A == ToSet(Cwd) \cup ToSet(q) \cup {"/", "."}
             B == NoDots(Cwd)
             P == NoDots(q)
             h == Here \o one
  <2>1. HasSlash(A) /\ one \in Seq(A) /\ Here \in Seq(A)
    <3>1. "/" \in A /\ "." \in A
      OBVIOUS
    <3> HIDE DEF A
    <3>2. one \in Seq(A) /\ Here \in Seq(A)
      BY <3>1 DEF Here
    <3> QED BY <3>1, <3>2 DEF HasSlash
  <2>2. q \in Seq(A) /\ Cwd \in Seq(A)
    <3>1. ToSet(q) \subseteq A /\ ToSet(Cwd) \subseteq A /\ IsPath(Cwd)
      BY CwdAssumption DEF IsPath
    <3> HIDE DEF A
    <3> QED BY <3>1, PathOver
  <2>3. NoDots(one) = one /\ NoDots(Here) = <<>>
    <3>1. 1 \in {k \in DOMAIN one : one[k] # "."} /\ 1 \notin {k \in DOMAIN <<".">> : (<<".">>)[k] # "."}
      OBVIOUS
    <3> QED BY <3>1, PickedOne DEF NoDots, Here
  <2>4. In(Here, q) = h \o q /\ ~IsAbsolute(h \o q)
    <3>1. In(Here, q) = h \o q
      BY <1>2 DEF In
    <3>2. Head(h \o q) = "."
      <4>1. h \in Seq(A)
        <5> HIDE DEF one, A
        <5> QED BY <2>1, ConcatTyped, Zenon
      <4>2. Len(h) = 2 /\ h[1] = "."
        <5>1. Len(Here) = 1 /\ Here[1] = "." /\ Len(one) = 1
          BY DEF Here
        <5> HIDE DEF one, A
        <5>2. /\ Len(Here \o one) = Len(Here) + Len(one)
              /\ \A k \in 1..(Len(Here) + Len(one)) :
                   (Here \o one)[k] = IF k <= Len(Here) THEN Here[k] ELSE one[k - Len(Here)]
          BY <2>1, ConcatProperties, Zenon
        <5> QED BY <5>1, <5>2
      <4> HIDE DEF h, A
      <4>3. \A k \in 1..(Len(h) + Len(q)) : (h \o q)[k] = IF k <= Len(h) THEN h[k] ELSE q[k - Len(h)]
        BY <2>2, <4>1, ConcatProperties, Zenon
      <4>4. Len(q) \in Nat /\ 1 \in 1..(2 + Len(q)) /\ 1 <= 2
        BY <2>2
      <4>5. h \o q \in Seq(A) /\ Len(h \o q) = Len(h) + Len(q)
        BY <2>2, <4>1, ConcatProperties, Zenon
      <4>6. (h \o q)[1] = "."
        BY <4>2, <4>3, <4>4
      <4>7. h \o q # <<>>
        BY <4>2, <4>4, <4>5
      <4> DEFINE r == h \o q
      <4> HIDE DEF r
      <4>8. Head(r) = r[1]
        BY <4>5, <4>7 DEF r
      <4> QED BY <4>6, <4>8 DEF r
    <3>3. "." # "/"
      OBVIOUS
    <3> HIDE DEF h
    <3> QED BY <3>1, <3>2, <3>3 DEF IsAbsolute
  <2>5. In(Cwd, h \o q) = (Cwd \o one) \o (h \o q) /\ In(Cwd, q) = (Cwd \o one) \o q
    BY <1>2, <2>4 DEF In
  <2> HIDE DEF A, one
  <2>6. h \in Seq(A) /\ h \o q \in Seq(A) /\ Cwd \o one \in Seq(A)
    BY <2>1, <2>2, ConcatTyped, Zenon
  <2>7. NoDots(Cwd \o one) = B \o one /\ B \in Seq(A) /\ P \in Seq(A)
    <3>1. NoDots(Cwd \o one) = NoDots(Cwd) \o NoDots(one) /\ NoDots(Cwd) \in Seq(A)
      BY <2>1, <2>2, NoDotsConcat
    <3>2. NoDots(q) \in Seq(A)
      BY <2>2, NoDotsConcat
    <3> QED BY <2>3, <3>1, <3>2
  <2>8. NoDots(h) = one
    <3>1. NoDots(Here \o one) = NoDots(Here) \o NoDots(one)
      BY <2>1, NoDotsConcat
    <3> QED BY <2>1, <2>3, <3>1
  <2>9. NoDots((Cwd \o one) \o (h \o q)) = (B \o one) \o (one \o P)
    <3> HIDE DEF h, B, P
    <3>1. NoDots(h \o q) = NoDots(h) \o NoDots(q)
      BY <2>2, <2>6, NoDotsConcat
    <3>2. NoDots((Cwd \o one) \o (h \o q)) = NoDots(Cwd \o one) \o NoDots(h \o q)
      BY <2>6, NoDotsConcat
    <3> QED BY <2>7, <2>8, <3>1, <3>2 DEF P
  <2>10. NoDots((Cwd \o one) \o q) = (B \o one) \o P
    BY <2>2, <2>6, <2>7, NoDotsConcat
  <2>11. (B \o one) \o (one \o P) = ((B \o one) \o one) \o P
    <3>1. B \o one \in Seq(A)
      BY <2>1, <2>7, ConcatTyped, Zenon
    <3> QED BY <2>1, <2>7, <3>1, Reassociated, Zenon
  <2>12. Normalise(((B \o one) \o one) \o P) = Normalise((B \o one) \o P)
    BY <2>1, <2>7, DoubleSlash, Zenon DEF one
  <2>13. \A p : Canonical(p) = Normalise(NoDots(In(Cwd, p)))
    BY Zenon DEF Canonical, NoDots
  <2> HIDE DEF B, P, h
  <2> QED BY <2>4, <2>5, <2>9, <2>10, <2>11, <2>12, <2>13
<1> QED BY <1>1, <1>2

-----------------------------------------------------------------------------
(* What words tell, in two parts *)

Phrases(words, d) ==
  [k \in 1..Len(words) |-> IF k > 1 /\ Takes(words, k - 1) THEN <<>> ELSE <<Said(words, k, d)>>]

PhrasesOf(n, words, d) == [k \in 1..n |-> Phrases(words, d)[k]]

\* What the words behind some others tell, they tell alone, unless the first of them is an operand.
LEMMA ToldBehind ==
  ASSUME NEW Y, NEW s \in Seq(Y), NEW r \in Seq(Y), NEW d, Len(s) # 0, ~Takes(s \o r, Len(s))
  PROVE  Told(s \o r, d) = FlattenSeq(PhrasesOf(Len(s), s \o r, d)) \o Told(r, d)
<1> DEFINE f == PhrasesOf(Len(s), s \o r, d)
           words == s \o r
           n == Len(s)
           m == Len(r)
           Z == {Said(words, k, d) : k \in 1..(n + m)}
<1>1. /\ n \in Nat \ {0} /\ m \in Nat /\ Len(words) = n + m
      /\ \A k \in 1..m : words[n + k] = r[k]
  <2>1. /\ n \in Nat \ {0} /\ m \in Nat /\ Len(words) = n + m
        /\ \A k \in 1..(n + m) : words[k] = IF k <= n THEN s[k] ELSE r[k - n]
    BY ConcatProperties
  <2>2. ASSUME NEW k \in 1..m PROVE words[n + k] = r[k]
    <3>1. n + k \in 1..(n + m) /\ ~(n + k <= n) /\ (n + k) - n = k
      BY <2>1
    <3> HIDE DEF words, n, m
    <3> QED BY <2>1, <3>1
  <2> QED BY <2>1, <2>2
<1> HIDE DEF words, n, m
<1>2. ASSUME NEW k \in 1..m PROVE Takes(words, n + k) <=> Takes(r, k)
  <2>1. n + k < Len(words) <=> k < Len(r)
    BY <1>1 DEF m
  <2> QED BY <1>1, <2>1 DEF Takes
<1>3. ASSUME NEW k \in 1..m PROVE Said(words, n + k, d) = Said(r, k, d)
  <2>1. CASE Takes(r, k)
    <3>1. k + 1 \in 1..m /\ (n + k) + 1 = n + (k + 1)
      BY <1>1, <2>1 DEF Takes, m
    <3>2. words[(n + k) + 1] = r[k + 1] /\ words[n + k] = r[k]
      BY <1>1, <3>1
    <3> QED BY <1>2, <2>1, <3>2 DEF Said
  <2>2. CASE ~Takes(r, k)
    <3>1. ~Takes(words, n + k) /\ words[n + k] = r[k]
      BY <1>1, <1>2, <2>2
    <3> QED BY <2>2, <3>1 DEF Said
  <2> QED BY <2>1, <2>2
<1>4. ASSUME NEW k \in 1..m PROVE n + k \in 1..(n + m) /\ Phrases(words, d)[n + k] = Phrases(r, d)[k]
  <2>1. n + k \in 1..Len(words) /\ n + k > 1 /\ k \in 1..Len(r)
    BY <1>1 DEF m
  <2>2. Takes(words, (n + k) - 1) <=> k > 1 /\ Takes(r, k - 1)
    <3>1. CASE k = 1
      <4>1. (n + k) - 1 = n
        BY <1>1, <3>1
      <4> QED BY <3>1, <4>1 DEF words, n
    <3>2. CASE k # 1
      <4>1. k - 1 \in 1..m /\ (n + k) - 1 = n + (k - 1) /\ k > 1
        BY <1>1, <3>2
      <4> QED BY <1>2, <4>1
    <3> QED BY <3>1, <3>2
  <2> QED BY <1>1, <1>3, <2>1, <2>2 DEF Phrases
<1>5. Len(r) = m /\ Len(f) = n /\ f = [k \in 1..n |-> Phrases(words, d)[k]] /\ (\A k \in 1..n : f[k] = Phrases(words, d)[k])
  BY <1>1 DEF words, n, m, PhrasesOf
<1> HIDE DEF f
<1>6. \A k \in 1..(n + m) : Phrases(words, d)[k] \in Seq(Z)
  <2> SUFFICES ASSUME NEW k \in 1..(n + m) PROVE Phrases(words, d)[k] \in Seq(Z)
    OBVIOUS
  <2>1. Said(words, k, d) \in Z
    OBVIOUS
  <2> HIDE DEF Z
  <2> QED BY <1>1, <2>1 DEF Phrases
<1> HIDE DEF Z
<1>7. f \in Seq(Seq(Z)) /\ Phrases(r, d) \in Seq(Seq(Z)) /\ Phrases(words, d) \in Seq(Seq(Z))
  <2>1. f \in [1..n -> Seq(Z)]
    BY <1>1, <1>5, <1>6
  <2>2. Phrases(r, d) \in [1..m -> Seq(Z)]
    <3>1. \A k \in 1..m : Phrases(r, d)[k] \in Seq(Z)
      BY <1>4, <1>6
    <3> QED BY <1>5, <3>1 DEF Phrases
  <2>3. Phrases(words, d) \in [1..(n + m) -> Seq(Z)]
    BY <1>1, <1>6 DEF Phrases
  <2>4. n + m \in Nat
    BY <1>1
  <2>5. f \in Seq(Seq(Z))
    BY <1>1, <2>1
  <2>6. Phrases(r, d) \in Seq(Seq(Z))
    BY <1>1, <2>2
  <2>7. Phrases(words, d) \in Seq(Seq(Z))
    BY <2>3, <2>4
  <2> QED BY <2>5, <2>6, <2>7
<1>8. Phrases(words, d) = f \o Phrases(r, d)
  <2> DEFINE l == Phrases(words, d)
             g == Phrases(r, d)
  <2>1. Len(l) = n + m /\ Len(g) = m
    BY <1>1, <1>5 DEF Phrases
  <2> HIDE DEF l, g
  <2>2. /\ f \o g \in Seq(Seq(Z)) /\ Len(f \o g) = Len(f) + Len(g)
        /\ \A k \in 1..(Len(f) + Len(g)) : (f \o g)[k] = IF k <= Len(f) THEN f[k] ELSE g[k - Len(f)]
    BY <1>7, ConcatProperties, Zenon DEF g
  <2>3. ASSUME NEW k \in 1..(n + m) PROVE l[k] = (f \o g)[k]
    <3>1. CASE k <= n
      <4>1. k \in 1..n /\ k \in 1..(Len(f) + Len(g)) /\ k <= Len(f)
        BY <1>1, <1>5, <2>1, <3>1
      <4>2. f[k] = l[k]
        BY <1>5, <4>1 DEF l
      <4> QED BY <2>2, <4>1, <4>2
    <3>2. CASE ~(k <= n)
      <4>1. k - n \in 1..m /\ n + (k - n) = k
        BY <1>1, <3>2
      <4>2. l[n + (k - n)] = g[k - n]
        BY <1>4, <4>1 DEF l, g
      <4> QED BY <1>5, <2>1, <2>2, <3>2, <4>1, <4>2
    <3> QED BY <3>1, <3>2
  <2>4. Len(f \o g) = n + m /\ l \in Seq(Seq(Z))
    BY <1>5, <1>7, <2>1, <2>2 DEF l
  <2>5. l = f \o g
    BY <2>1, <2>2, <2>3, <2>4, SeqEqual
  <2> QED BY <2>5 DEF l, g
<1>9. FlattenSeq(f \o Phrases(r, d)) = FlattenSeq(f) \o FlattenSeq(Phrases(r, d))
  BY <1>7, FlattenConcat, Zenon
<1>10. \A q : Told(q, d) = FlattenSeq(Phrases(q, d))
  BY Zenon DEF Told, Phrases
<1> QED BY <1>8, <1>9, <1>10 DEF words, f

\* One sequence put together is that sequence, and so is one with an empty one behind it.
LEMMA FlattenFew ==
  ASSUME NEW p, NEW X, p \in Seq(X)
  PROVE  FlattenSeq(<<p>>) = p /\ FlattenSeq(<<p, <<>>>>) = p
<1>1. FlattenSeq(<<p>>) = p
  <2> DEFINE s == <<p>>
  <2>1. Len(s) = 1 /\ s[1] = p
    OBVIOUS
  <2> HIDE DEF s
  <2>2. PICK F : Flattens(F, s, Len(s)) /\ FlattenSeq(s) = F[Len(s)]
    <3>1. Len(s) \in Nat \ {0}
      BY <2>1
    <3> QED BY <3>1, FlattenIs
  <2> QED BY <2>1, <2>2 DEF Flattens, s
<1>2. FlattenSeq(<<p, <<>>>>) = p
  <2> DEFINE s == <<p, <<>>>>
  <2>1. Len(s) = 2 /\ s[1] = p /\ s[2] = <<>>
    OBVIOUS
  <2> HIDE DEF s
  <2>2. PICK F : Flattens(F, s, Len(s)) /\ FlattenSeq(s) = F[Len(s)]
    <3>1. Len(s) \in Nat \ {0}
      BY <2>1
    <3> QED BY <3>1, FlattenIs
  <2>3. F[1] = p /\ F[2] = F[1] \o <<>>
    BY <2>1, <2>2 DEF Flattens
  <2> QED BY <2>1, <2>2, <2>3 DEF s
<1> QED BY <1>1, <1>2

\* What a word tells that is no operand and has none.
Alone(w, d) ==
  <<w.opt, IF w.opt \in TakesPath \cup JoinsPath /\ w.text # <<>> THEN Canonical(In(d, w.text)) ELSE w.text>>

\* There is no operand for word w in what follows it.
NoOperand(w, r) == w \notin Bare(TakesPath) \/ r = <<>>

\* Nothing is told by no words.
LEMMA ToldNothing == \A d : Told(<<>>, d) = <<>>
<1> SUFFICES ASSUME NEW d PROVE Told(<<>>, d) = <<>>
  OBVIOUS
<1>1. Phrases(<<>>, d) = <<>>
  BY DEF Phrases
<1>2. Told(<<>>, d) = FlattenSeq(Phrases(<<>>, d))
  BY Zenon DEF Told, Phrases
<1> QED BY <1>1, <1>2, FlattenNothing

\* A word without an operand tells what it tells alone.
LEMMA ToldOne ==
  ASSUME NEW Y, NEW w \in Y, NEW r \in Seq(Y), NEW d, NoOperand(w, r)
  PROVE  Told(<<w>> \o r, d) = <<Alone(w, d)>> \o Told(r, d)
<1> DEFINE s == <<w>>
           words == s \o r
           p == <<Alone(w, d)>>
           f == <<p>>
<1>1. s \in Seq(Y) /\ Len(s) = 1 /\ s[1] = w /\ Len(r) \in Nat
  OBVIOUS
<1>2. Len(words) = 1 + Len(r) /\ words[1] = w
  <2> HIDE DEF s
  <2>1. /\ Len(words) = Len(s) + Len(r)
        /\ \A k \in 1..(Len(s) + Len(r)) : words[k] = IF k <= Len(s) THEN s[k] ELSE r[k - Len(s)]
    BY <1>1, ConcatProperties, Zenon
  <2>2. 1 \in 1..(1 + Len(r)) /\ 1 <= 1
    BY <1>1
  <2> HIDE DEF words
  <2> QED BY <1>1, <2>1, <2>2
<1> HIDE DEF words
<1>3. ~Takes(words, 1)
  <2>1. r = <<>> => Len(words) = 1
    BY <1>1, <1>2
  <2> QED BY <1>2, <2>1 DEF Takes, NoOperand
<1>4. Said(words, 1, d) = Alone(w, d)
  BY <1>2, <1>3 DEF Said, Alone
<1>5. Phrases(words, d)[1] = p
  BY <1>1, <1>2, <1>4 DEF Phrases
<1> HIDE DEF p
<1>6. f = [k \in 1..Len(s) |-> Phrases(words, d)[k]]
  <2>1. f = [k \in 1..1 |-> p]
    OBVIOUS
  <2>2. \A k \in 1..1 : Phrases(words, d)[k] = p
    BY <1>5
  <2> HIDE DEF f, s
  <2> QED BY <1>1, <2>1, <2>2
<1>7. Len(s) # 0
  BY <1>1
<1> HIDE DEF f, s
<1>8. Told(s \o r, d) = FlattenSeq(f) \o Told(r, d)
  <2>0. f = PhrasesOf(Len(s), s \o r, d)
    BY <1>6 DEF words, PhrasesOf
  <2>1. ~Takes(s \o r, Len(s))
    BY <1>1, <1>3 DEF words
  <2>2. s \in Seq(Y)
    BY <1>1
  <2> HIDE DEF words
  <2>3. Told(s \o r, d) = FlattenSeq(PhrasesOf(Len(s), s \o r, d)) \o Told(r, d)
    BY <1>7, <2>1, <2>2, ToldBehind, SMT
  <2> QED BY <2>0, <2>3
<1>9. FlattenSeq(f) = p
  <2>1. p \in Seq({Alone(w, d)})
    BY DEF p
  <2> QED BY <2>1, FlattenFew DEF f
<1> QED BY <1>8, <1>9 DEF s, p

Both(w, x) == <<w, x>>
InFront(w, r) == <<w>> \o r

\* An option and its operand tell where the path leads.
LEMMA ToldTwo ==
  ASSUME NEW Y, NEW w \in Y, NEW x \in Y, NEW r \in Seq(Y), NEW d, w \in Bare(TakesPath), x \notin Bare(TakesPath)
  PROVE  Told(Both(w, x) \o r, d) = <<<<w.opt, Canonical(In(d, x.text))>>>> \o Told(r, d)
<1> DEFINE s == <<w, x>>
           words == s \o r
           p == <<<<w.opt, Canonical(In(d, x.text))>>>>
           f == <<p, <<>>>>
<1>1. s \in Seq(Y) /\ Len(s) = 2 /\ s[1] = w /\ s[2] = x /\ Len(r) \in Nat
  OBVIOUS
<1>2. Len(words) = 2 + Len(r) /\ words[1] = w /\ words[2] = x
  <2> HIDE DEF s
  <2>1. /\ Len(words) = Len(s) + Len(r)
        /\ \A k \in 1..(Len(s) + Len(r)) : words[k] = IF k <= Len(s) THEN s[k] ELSE r[k - Len(s)]
    BY <1>1, ConcatProperties, Zenon
  <2>2. 1 \in 1..(2 + Len(r)) /\ 1 <= 2 /\ 2 \in 1..(2 + Len(r)) /\ 2 <= 2
    BY <1>1
  <2> HIDE DEF words
  <2> QED BY <1>1, <2>1, <2>2
<1> HIDE DEF words
<1>3. Takes(words, 1) /\ ~Takes(words, 2)
  BY <1>1, <1>2 DEF Takes
<1>4. Said(words, 1, d) = <<w.opt, Canonical(In(d, x.text))>>
  BY <1>2, <1>3 DEF Said
<1>5. Phrases(words, d)[1] = p /\ Phrases(words, d)[2] = <<>>
  BY <1>1, <1>2, <1>3, <1>4 DEF Phrases
<1> HIDE DEF p
<1>6. f = [k \in 1..Len(s) |-> Phrases(words, d)[k]]
  <2>1. f = [k \in 1..2 |-> IF k = 1 THEN p ELSE <<>>]
    OBVIOUS
  <2>2. \A k \in 1..2 : Phrases(words, d)[k] = IF k = 1 THEN p ELSE <<>>
    BY <1>5
  <2> HIDE DEF f, s
  <2> QED BY <1>1, <2>1, <2>2
<1>7. Len(s) # 0
  BY <1>1
<1> HIDE DEF f, s
<1>8. Told(s \o r, d) = FlattenSeq(f) \o Told(r, d)
  <2>0. f = PhrasesOf(Len(s), s \o r, d)
    BY <1>6 DEF words, PhrasesOf
  <2>1. ~Takes(s \o r, Len(s))
    BY <1>1, <1>3 DEF words
  <2>2. s \in Seq(Y)
    BY <1>1
  <2> HIDE DEF words
  <2>3. Told(s \o r, d) = FlattenSeq(PhrasesOf(Len(s), s \o r, d)) \o Told(r, d)
    BY <1>7, <2>1, <2>2, ToldBehind, SMT
  <2> QED BY <2>0, <2>3
<1>9. FlattenSeq(f) = p
  <2>1. p \in Seq({<<w.opt, Canonical(In(d, x.text))>>})
    BY DEF p
  <2> QED BY <2>1, FlattenFew DEF f
<1> QED BY <1>8, <1>9 DEF s, p, Both

-----------------------------------------------------------------------------
(* Sanitize *)

\* What is left of a command from word k on, by what is left from later words on.
RestAt(rest, words, source, directory, k) ==
  IF k > Len(words) THEN <<>>
  ELSE LET word == words[k]
           more == k < Len(words) IN
    IF word = Word("-c", <<>>) THEN rest[k + 1]
    ELSE IF word = Word("-o", <<>>) /\ more THEN rest[k + 2]
    ELSE IF word.opt = "-o" /\ word.text # <<>> THEN rest[k + 1]
    ELSE IF NamesSource(word, source, directory) THEN rest[k + 1]
    ELSE IF word \in Bare(TakesPath) /\ more THEN <<word, Operand(words[k + 1], directory)>> \o rest[k + 2]
    ELSE IF word.opt \in JoinsPath /\ word.text # <<>> THEN <<Rebased(word, directory)>> \o rest[k + 1]
    ELSE <<word>> \o rest[k + 1]

Resting(rest, words, source, directory) ==
  rest = [k \in 2..(Len(words) + 2) |-> RestAt(rest, words, source, directory, k)]

\* What is left of a command is what is left from the second word on.
LEMMA SanitizeIs ==
  ASSUME NEW words, NEW source, NEW directory, words # <<>>, \E rest : Resting(rest, words, source, directory)
  PROVE  \E rest : Resting(rest, words, source, directory) /\ Sanitize(words, source, directory) = rest[2]
<1> DEFINE r == CHOOSE rest : Resting(rest, words, source, directory)
<1>1. Resting(r, words, source, directory)
  OBVIOUS
<1>2. Sanitize(words, source, directory) = IF words = <<>> THEN <<>> ELSE r[2]
  BY Zenon DEF Sanitize, Resting, RestAt
<1> HIDE DEF r
<1>3. Sanitize(words, source, directory) = r[2]
  BY <1>2
<1> QED BY <1>1, <1>3

\* The words that may be left of words in Y.
Vocabulary(Y, d) == Y \cup {Operand(y, d) : y \in Y} \cup {Rebased(y, d) : y \in Y}

\* What is left from word k on is made of such words if what is left later is.
LEMMA RestTyped ==
  ASSUME NEW Y, NEW words \in Seq(Y), NEW source, NEW d, NEW k \in 2..(Len(words) + 2), NEW f,
         \A j \in 2..(Len(words) + 2) : j > k => f[j] \in Seq(Vocabulary(Y, d))
  PROVE  RestAt(f, words, source, d, k) \in Seq(Vocabulary(Y, d))
<1> DEFINE V == Vocabulary(Y, d)
<1>1. CASE k > Len(words)
  BY <1>1 DEF RestAt
<1>2. CASE ~(k > Len(words))
  <2>1. /\ Len(words) \in Nat /\ k \in 1..Len(words) /\ k + 1 \in 2..(Len(words) + 2) /\ k + 2 \in 2..(Len(words) + 2)
        /\ k + 1 > k /\ k + 2 > k
    BY <1>2
  <2>2. f[k + 1] \in Seq(V) /\ f[k + 2] \in Seq(V)
    BY <2>1
  <2>3. words[k] \in Y /\ (k < Len(words) => words[k + 1] \in Y)
    BY <2>1
  <2>4. /\ words[k] \in V /\ Rebased(words[k], d) \in V
        /\ k < Len(words) => Operand(words[k + 1], d) \in V
    BY <2>3 DEF Vocabulary
  <2> HIDE DEF V
  <2>5. <<words[k]>> \in Seq(V) /\ <<Rebased(words[k], d)>> \in Seq(V)
        /\ (k < Len(words) => <<words[k], Operand(words[k + 1], d)>> \in Seq(V))
    BY <2>4
  <2>6. /\ <<words[k]>> \o f[k + 1] \in Seq(V) /\ <<Rebased(words[k], d)>> \o f[k + 1] \in Seq(V)
        /\ (k < Len(words) => <<words[k], Operand(words[k + 1], d)>> \o f[k + 2] \in Seq(V))
    BY <2>2, <2>5, ConcatTyped, Zenon
  <2> QED BY <1>2, <2>2, <2>6 DEF RestAt, V
<1> QED BY <1>1, <1>2

\* The recursion of Sanitize has a solution.
LEMMA RestingExists ==
  ASSUME NEW Y, NEW words \in Seq(Y), NEW source, NEW d
  PROVE  \E rest : Resting(rest, words, source, d)
<1> DEFINE n == Len(words)
           S == 2..(n + 2)
           V == Seq(Vocabulary(Y, d))
           rank == [k \in S |-> (n + 2) - k]
           Table(f) == [k \in S |-> RestAt(f, words, source, d, k)]
           G == [f \in [S -> V] |-> Table(f)]
<1>0. n \in Nat
  OBVIOUS
<1>1. rank \in [S -> 0..n] /\ \A k \in S : rank[k] = (n + 2) - k
  BY <1>0
<1>2. ASSUME NEW f \in [S -> V] PROVE Table(f) \in [S -> V]
  <2>1. \A k \in S : RestAt(f, words, source, d, k) \in V
    BY RestTyped
  <2> QED BY <2>1
<1>3. ASSUME NEW f \in [S -> V], NEW g \in [S -> V], NEW k \in S,
             \A j \in S : rank[j] < rank[k] => f[j] = g[j]
      PROVE  Table(f)[k] = Table(g)[k]
  <2>1. \A j \in S : k < j => f[j] = g[j]
    BY <1>0, <1>1, <1>3
  <2>2. RestAt(f, words, source, d, k) = RestAt(g, words, source, d, k)
    <3>1. CASE k > n
      BY <3>1 DEF RestAt
    <3>2. CASE ~(k > n)
      <4>1. k + 1 \in S /\ k + 2 \in S /\ k < k + 1 /\ k < k + 2
        BY <1>0, <3>2
      <4>2. f[k + 1] = g[k + 1] /\ f[k + 2] = g[k + 2]
        BY <2>1, <4>1
      <4> QED BY <4>2, Zenon DEF RestAt
    <3> QED BY <3>1, <3>2
  <2> QED BY <2>2
<1> HIDE DEF Table, V, S, rank
<1>4. G \in [[S -> V] -> [S -> V]] /\ \A f \in [S -> V] : G[f] = Table(f)
  BY <1>2
<1>5. V # {}
  <2>1. <<>> \in V
    BY DEF V
  <2> QED BY <2>1
<1> HIDE DEF G
<1>6. Grounded(G, S, V, rank)
  BY <1>3, <1>4 DEF Grounded
<1>7. Recursion(G, S, V, rank, n)
  BY <1>0, <1>1, <1>4, <1>5, <1>6 DEF Recursion
<1>8. PICK f \in [S -> V] : f = G[f]
  BY <1>7, RecursionExists
<1>9. Resting(f, words, source, d)
  BY <1>4, <1>8 DEF Resting, Table, S
<1> QED BY <1>9

-----------------------------------------------------------------------------
(* The words that are not the driver's, from one of them on *)

\* Nothing is picked if nothing is wanted.
LEMMA PickedNone ==
  ASSUME NEW X, NEW q \in Seq(X), NEW w, DOMAIN q \cap w = {}
  PROVE  Picked(q, w) = <<>>
<1> DEFINE p == Picked(q, w)
<1>1. p \in Seq(X) /\ ToSet(p) = {q[k] : k \in DOMAIN q \cap w}
  BY PickedMembers
<1> HIDE DEF p
<1>2. ToSet(p) = {}
  BY <1>1
<1>3. Len(p) = 0
  <2>1. Len(p) \in Nat /\ DOMAIN p = 1..Len(p)
    BY <1>1
  <2>2. DOMAIN p = {}
    BY <1>2 DEF ToSet
  <2> QED BY <2>1, <2>2
<1> QED BY <1>1, <1>3 DEF p

\* Member k is the first that w wants of q, and v wants the others.
FirstOf(k, q, w, v) == k \in w /\ v = w \ {k} /\ \A j \in DOMAIN q \cap w : j >= k

\* What is picked is the first member that is wanted, and what is picked without it.
LEMMA PickedFirst ==
  ASSUME NEW X, NEW q \in Seq(X), NEW w, NEW v, NEW k \in DOMAIN q, FirstOf(k, q, w, v)
  PROVE  Picked(q, w) = <<q[k]>> \o Picked(q, v)
<1> DEFINE n == Len(q)
           a == SubSeq(q, 1, k - 1)
           one == <<q[k]>>
           b == SubSeq(q, k + 1, n)
           u == {j \in 1..Len(b) : k + j \in w}
<1>0. k \in w /\ v = w \ {k} /\ \A j \in DOMAIN q \cap w : j >= k
  BY DEF FirstOf
<1>1. n \in Nat /\ k \in 1..n /\ k \in Nat /\ k - 1 \in Nat /\ k - 1 <= k /\ k <= n /\ (k - 1) + 1 = k /\ DOMAIN q = 1..n
  OBVIOUS
<1>2. a \in Seq(X) /\ Len(a) = k - 1
  <2>1. 0 + 1 = 1 /\ 0 + (k - 1) = k - 1 /\ 0 \in Nat /\ 0 + (k - 1) <= n
    BY <1>1
  <2>2. SubSeq(q, 0 + 1, 0 + (k - 1)) \in Seq(X) /\ Len(SubSeq(q, 0 + 1, 0 + (k - 1))) = k - 1
    BY <1>1, <2>1, PartIs
  <2> QED BY <2>1, <2>2
<1>3. b \in Seq(X) /\ Len(b) = n - k
  <2>1. k + (n - k) = n /\ n - k \in Nat /\ k \in Nat /\ k + (n - k) <= Len(q)
    BY <1>1
  <2> DEFINE m == n - k
  <2>2. m \in Nat /\ k \in Nat /\ k + m <= Len(q)
    BY <2>1
  <2> HIDE DEF m
  <2>3. SubSeq(q, k + 1, k + m) \in Seq(X) /\ Len(SubSeq(q, k + 1, k + m)) = m
    BY <2>2, PartIs
  <2> QED BY <2>1, <2>3 DEF m
<1>4. one \in Seq(X) /\ Len(one) = 1
  OBVIOUS
<1>5. q = (a \o one) \o b
  <2>1. SubSeq(q, 1, k - 1) \o SubSeq(q, (k - 1) + 1, k) \o SubSeq(q, k + 1, Len(q)) = q
    BY <1>1, ThreeParts
  <2>2. SubSeq(q, k, k) = one
    <3>1. SubSeq(q, (k - 1) + 1, (k - 1) + 1) \in Seq(X) /\ Len(SubSeq(q, (k - 1) + 1, (k - 1) + 1)) = 1
          /\ \A j \in 1..1 : SubSeq(q, (k - 1) + 1, (k - 1) + 1)[j] = q[(k - 1) + j]
      BY <1>1, PartIs
    <3> DEFINE p == SubSeq(q, k, k)
    <3>2. p \in Seq(X) /\ Len(p) = 1 /\ p[1] = q[k]
      <4>1. p \in Seq(X) /\ Len(p) = 1 /\ \A j \in 1..1 : p[j] = q[(k - 1) + j]
        BY <1>1, <3>1
      <4> HIDE DEF p
      <4> QED BY <1>1, <4>1
    <3> HIDE DEF p
    <3>3. p = <<q[k]>>
      BY <3>2
    <3> QED BY <3>3 DEF p
  <2> QED BY <1>1, <2>1, <2>2
<1> HIDE DEF a, b, one, n
<1>6. a \o one \in Seq(X) /\ Len(a \o one) = k
  <2>1. a \o one \in Seq(X) /\ Len(a \o one) = Len(a) + Len(one)
    BY <1>2, <1>4, ConcatProperties, Zenon
  <2> QED BY <1>1, <1>2, <1>4, <2>1
<1>7. WantedOf(w, w, u, a \o one, b) /\ WantedOf(v, v, u, a \o one, b)
  <2>1. \A j \in 1..Len(b) : (k + j \in w <=> j \in u) /\ (k + j \in v <=> j \in u)
    BY <1>0, <1>1, <1>3
  <2> QED BY <1>6, <2>1 DEF WantedOf
<1>8. WantedOf(w, {}, {1}, a, one) /\ WantedOf(v, {}, {}, a, one)
  <2>1. \A j \in 1..Len(a) : j \notin w /\ j \notin v
    BY <1>0, <1>1, <1>2
  <2>2. \A j \in 1..Len(one) : j = 1 /\ Len(a) + j = k
    BY <1>1, <1>2, <1>4
  <2> QED BY <1>0, <2>1, <2>2 DEF WantedOf
<1> HIDE DEF u
<1>9. Picked(a \o one, w) = Picked(a, {}) \o Picked(one, {1}) /\ Picked(a \o one, v) = Picked(a, {}) \o Picked(one, {})
  BY <1>2, <1>4, <1>8, PickedConcat
<1>10. Picked(a, {}) = <<>> /\ Picked(one, {1}) = one /\ Picked(one, {}) = <<>>
  BY <1>2, PickedNone, PickedOne DEF one
<1>11. Picked(q, w) = Picked(a \o one, w) \o Picked(b, u) /\ Picked(q, v) = Picked(a \o one, v) \o Picked(b, u)
  <2> DEFINE h == a \o one
  <2>1. h \in Seq(X) /\ b \in Seq(X) /\ WantedOf(w, w, u, h, b) /\ WantedOf(v, v, u, h, b)
    BY <1>3, <1>6, <1>7
  <2>2. q = h \o b
    BY <1>5
  <2> HIDE DEF h
  <2>3. Picked(h \o b, w) = Picked(h, w) \o Picked(b, u)
    BY <2>1, PickedConcat
  <2>4. Picked(h \o b, v) = Picked(h, v) \o Picked(b, u)
    BY <2>1, PickedConcat
  <2> QED BY <2>2, <2>3, <2>4 DEF h
<1>12. Picked(b, u) \in Seq(X)
  BY <1>3, PickedMembers
<1>13. <<>> \o one = one /\ <<>> \o <<>> = <<>> /\ <<>> \o Picked(b, u) = Picked(b, u)
  BY <1>4, <1>12
<1> QED BY <1>9, <1>10, <1>11, <1>13 DEF one

\* The words from the k-th on that are not the driver's.
Others(words, source, d, k) == {j \in k..Len(words) : j \notin Driver(words, source, d)}
OthersFrom(words, source, d, k) == Picked(words, Others(words, source, d, k))

\* A word of the driver's can be left out; another is the first of those that are not.
LEMMA OthersNext ==
  ASSUME NEW Y, NEW words \in Seq(Y), NEW source, NEW d, NEW k \in DOMAIN words
  PROVE  /\ k \in Driver(words, source, d) => OthersFrom(words, source, d, k) = OthersFrom(words, source, d, k + 1)
         /\ k \notin Driver(words, source, d) =>
              OthersFrom(words, source, d, k) = <<words[k]>> \o OthersFrom(words, source, d, k + 1)
<1> DEFINE w == Others(words, source, d, k)
           v == Others(words, source, d, k + 1)
<1>1. k \in 1..Len(words) /\ Len(words) \in Nat /\ DOMAIN words = 1..Len(words)
  OBVIOUS
<1>2. CASE k \in Driver(words, source, d)
  <2>1. w = v
    BY <1>1, <1>2 DEF Others
  <2> QED BY <1>2, <2>1 DEF OthersFrom
<1>3. CASE k \notin Driver(words, source, d)
  <2>1. FirstOf(k, words, w, v)
    BY <1>1, <1>3 DEF Others, FirstOf
  <2> HIDE DEF w, v
  <2>2. Picked(words, w) = <<words[k]>> \o Picked(words, v)
    BY <2>1, PickedFirst
  <2> QED BY <1>3, <2>2 DEF OthersFrom, w, v
<1> QED BY <1>2, <1>3

-----------------------------------------------------------------------------
(* What is left tells what the others tell *)

\* Word k is no operand.
Boundary(words, k) == k > Len(words) \/ words[k - 1] \notin Bare(TakesPath \cup {"-o"})

Tells(rest, words, source, d, k) == Told(rest[k], Here) = Told(OthersFrom(words, source, d, k), d)

TellsLater(rest, words, source, d, k) ==
  \A j \in 2..(Len(words) + 2) : j > k /\ Boundary(words, j) => Tells(rest, words, source, d, j)

\* An option alone is a word with that option and no text.
LEMMA BareIs ==
  ASSUME NEW w, w = Word(w.opt, w.text), NEW S
  PROVE  w \in Bare(S) <=> w.opt \in S /\ w.text = <<>>
<1>1. ASSUME w \in Bare(S) PROVE w.opt \in S /\ w.text = <<>>
  <2>1. PICK o \in S : w = Word(o, <<>>)
    BY <1>1 DEF Bare
  <2> QED BY <2>1 DEF Word
<1>2. ASSUME w.opt \in S, w.text = <<>> PROVE w \in Bare(S)
  <2>1. w = Word(w.opt, <<>>)
    BY <1>2
  <2> QED BY <1>2, <2>1 DEF Bare
<1> QED BY <1>1, <1>2

\* A path from a directory is a text, and more than nothing if the path is.
LEMMA InTyped ==
  ASSUME NEW d, NEW t, IsPath(d), IsPath(t)
  PROVE  IsPath(In(d, t)) /\ (t # <<>> => In(d, t) # <<>>)
<1> DEFINE A == ToSet(d) \cup ToSet(t) \cup {"/"}
           one == <<"/">>
<1>1. CASE IsAbsolute(t)
  BY <1>1 DEF In
<1>2. CASE ~IsAbsolute(t)
  <2>1. d \in Seq(A) /\ t \in Seq(A) /\ one \in Seq(A) /\ Len(one) = 1
    <3>1. ToSet(d) \subseteq A /\ ToSet(t) \subseteq A /\ "/" \in A
      OBVIOUS
    <3> HIDE DEF A
    <3> QED BY <3>1, PathOver
  <2>2. In(d, t) = (d \o one) \o t
    BY <1>2 DEF In
  <2> HIDE DEF A, one
  <2>3. d \o one \in Seq(A) /\ Len(d \o one) = Len(d) + Len(one)
    BY <2>1, ConcatProperties, Zenon
  <2>4. (d \o one) \o t \in Seq(A) /\ Len((d \o one) \o t) = Len(d \o one) + Len(t)
    BY <2>1, <2>3, ConcatProperties, Zenon
  <2>5. Len(In(d, t)) # 0 /\ In(d, t) \in Seq(A)
    <3>1. Len(d) \in Nat /\ Len(t) \in Nat
      BY <2>1
    <3> QED BY <2>1, <2>2, <2>3, <2>4, <3>1
  <2>6. In(d, t) # <<>>
    BY <2>5
  <2> DEFINE p == In(d, t)
  <2>7. p \in Seq(A)
    BY <2>5
  <2> HIDE DEF p
  <2>8. p \in Seq(ToSet(p))
    BY <2>7 DEF ToSet
  <2> QED BY <2>6, <2>8 DEF IsPath, p
<1> QED BY <1>1, <1>2

\* Which words behind no option are the driver's.
LEMMA DriverAt ==
  ASSUME NEW words, NEW source, NEW d, NEW k \in DOMAIN words, k \in 2..Len(words), Boundary(words, k)
  PROVE  k \in Driver(words, source, d) <=>
           \/ words[k] = Word("-c", <<>>) \/ words[k].opt = "-o"
           \/ words[k].opt = "" /\ words[k].text # <<>> /\ SamePath(In(d, words[k].text), source)
<1>1. words[k - 1] \notin Bare(TakesPath \cup {"-o"})
  <2>1. ~(k > Len(words))
    OBVIOUS
  <2> QED BY <2>1 DEF Boundary
<1>2. words[k - 1] \notin Bare(TakesPath) /\ words[k - 1] # Word("-o", <<>>)
  BY <1>1 DEF Bare
<1>3. k > 1 /\ k # 1
  OBVIOUS
<1> QED BY <1>2, <1>3, Zenon DEF Driver

\* Two words one after the other are two words.
LEMMA TwoInRow ==
  ASSUME NEW Y, NEW w \in Y, NEW x \in Y, NEW r \in Seq(Y)
  PROVE  InFront(w, InFront(x, r)) = Both(w, x) \o r
<1> DEFINE a == <<w>>
           b == <<x>>
           c == <<w, x>>
<1>1. /\ a \in Seq(Y) /\ b \in Seq(Y) /\ c \in Seq(Y) /\ Len(a) = 1 /\ Len(b) = 1 /\ Len(c) = 2
      /\ a[1] = w /\ b[1] = x /\ c[1] = w /\ c[2] = x
  OBVIOUS
<1> HIDE DEF a, b, c
<1>2. /\ a \o b \in Seq(Y) /\ Len(a \o b) = Len(a) + Len(b)
      /\ \A k \in 1..(Len(a) + Len(b)) : (a \o b)[k] = IF k <= Len(a) THEN a[k] ELSE b[k - Len(a)]
  BY <1>1, ConcatProperties, Zenon
<1>3. \A k \in 1..2 : (a \o b)[k] = c[k]
  BY <1>1, <1>2
<1>4. a \o b = c
  <2> DEFINE e == a \o b
  <2>1. e \in Seq(Y) /\ Len(e) = 2 /\ \A k \in 1..2 : e[k] = c[k]
    BY <1>1, <1>2, <1>3
  <2> HIDE DEF e
  <2>2. e = c
    BY <1>1, <2>1, SeqEqual
  <2> QED BY <2>2 DEF e
<1>5. (a \o b) \o r = a \o (b \o r)
  BY <1>1, Reassociated
<1> QED BY <1>4, <1>5 DEF a, b, c, Both, InFront

\* If what is left later tells what the others tell, so does what is left from a word on that is no operand.
LEMMA RestStep ==
  ASSUME NEW words, NEW source, NEW d, ProperCommand(words, source, d), NEW rest, Resting(rest, words, source, d),
         \A j \in 2..(Len(words) + 2) : rest[j] \in Seq(Vocabulary(ToSet(words), d)),
         NEW k \in 2..(Len(words) + 2), Boundary(words, k), TellsLater(rest, words, source, d, k), k <= Len(words)
  PROVE  Tells(rest, words, source, d, k)
<1> DEFINE Y == ToSet(words)
           V == Vocabulary(Y, d)
           n == Len(words)
           w == words[k]
           x == words[k + 1]
           From(j) == OthersFrom(words, source, d, j)
<1>1. words \in Seq(Y) /\ IsPath(d)
  BY DEF ProperCommand
<1>2. /\ n \in Nat /\ k \in 2..n /\ DOMAIN words = 1..n /\ k \in DOMAIN words /\ k + 1 \in 2..(n + 2)
      /\ k + 2 \in 2..(n + 2) /\ k + 1 > k /\ k + 2 > k /\ (k + 1) - 1 = k /\ (k + 2) - 1 = k + 1 /\ k + 1 > 1
      /\ (k < n => k + 1 \in DOMAIN words)
  BY <1>1
<1>3. /\ w \in Y /\ w = Word(w.opt, w.text) /\ IsPath(w.text)
      /\ k < n => x \in Y /\ x = Word(x.opt, x.text) /\ IsPath(x.text)
  <2>1. \A j \in DOMAIN words : words[j] = Word(words[j].opt, words[j].text) /\ IsPath(words[j].text)
    BY Zenon DEF ProperCommand
  <2>2. \A j \in DOMAIN words : words[j] \in Y
    BY DEF ToSet
  <2> QED BY <1>2, <2>1, <2>2, Zenon
<1>4. /\ w \in Bare(TakesPath) /\ k < n => x.opt = ""
      /\ w = Word("-o", <<>>) => k < n /\ x.opt = ""
      /\ w.opt \in TakesPath \ JoinsPath => w.text = <<>>
      /\ w.opt = "" /\ w.text # <<>> /\ SamePath(w.text, source) => SamePath(In(d, w.text), source)
  BY <1>2, Zenon DEF ProperCommand
<1>5. rest[k] = RestAt(rest, words, source, d, k) /\ rest[k + 1] \in Seq(V) /\ rest[k + 2] \in Seq(V)
  BY <1>2 DEF Resting
<1>6. k \in Driver(words, source, d) <=>
        w = Word("-c", <<>>) \/ w.opt = "-o" \/ (w.opt = "" /\ w.text # <<>> /\ SamePath(In(d, w.text), source))
  BY <1>2, DriverAt, Zenon
<1>7. w \notin Bare(TakesPath \cup {"-o"}) => Tells(rest, words, source, d, k + 1)
  BY <1>2 DEF TellsLater, Boundary
<1>8. k < n /\ x.opt = "" => Tells(rest, words, source, d, k + 2)
  <2> SUFFICES ASSUME k < n, x.opt = "" PROVE Tells(rest, words, source, d, k + 2)
    OBVIOUS
  <2>1. x \notin Bare(TakesPath \cup {"-o"})
    <3>1. x \in Bare(TakesPath \cup {"-o"}) => x.opt \in TakesPath \cup {"-o"} /\ x.text = <<>>
      BY <1>3, BareIs
    <3> QED BY <3>1 DEF TakesPath
  <2> QED BY <1>2, <2>1 DEF TellsLater, Boundary
<1>9. /\ k \in Driver(words, source, d) => From(k) = From(k + 1)
      /\ k \notin Driver(words, source, d) => From(k) = <<w>> \o From(k + 1)
      /\ From(k + 1) \in Seq(Y) /\ From(k + 2) \in Seq(Y)
  <2>1. From(k + 1) \in Seq(Y) /\ From(k + 2) \in Seq(Y)
    BY <1>1, PickedMembers DEF OthersFrom
  <2> QED BY <1>1, <1>2, <2>1, OthersNext
<1>10. w \in V /\ Rebased(w, d) \in V /\ (k < n => Operand(x, d) \in V)
  BY <1>3 DEF Vocabulary
<1>11. w \in Bare(TakesPath \cup {"-o"}) <=> (w.opt \in TakesPath \/ w.opt = "-o") /\ w.text = <<>>
  BY <1>3, BareIs
<1>12. (w \in Bare(TakesPath) <=> w.opt \in TakesPath /\ w.text = <<>>)
       /\ (w = Word("-c", <<>>) <=> w.opt = "-c" /\ w.text = <<>>) /\ (w = Word("-o", <<>>) <=> w.opt = "-o" /\ w.text = <<>>)
  <2>1. w \in Bare(TakesPath) <=> w.opt \in TakesPath /\ w.text = <<>>
    BY <1>3, BareIs
  <2>2. \A o : w = Word(o, <<>>) <=> w.opt = o /\ w.text = <<>>
    BY <1>3 DEF Word
  <2> QED BY <2>1, <2>2
<1>13. "-c" \notin TakesPath /\ "-o" \notin TakesPath /\ "" \notin TakesPath /\ "" \notin JoinsPath /\ "-o" \notin JoinsPath
  BY DEF TakesPath, JoinsPath
<1>14. /\ w.opt = "-c" /\ w.text = <<>> => rest[k] = rest[k + 1]
       /\ w.opt = "-o" /\ w.text = <<>> /\ k < n => rest[k] = rest[k + 2]
       /\ w.opt = "-o" /\ w.text # <<>> => rest[k] = rest[k + 1]
       /\ NamesSource(w, source, d) => rest[k] = rest[k + 1]
       /\ w.opt \in TakesPath /\ w.text = <<>> /\ k < n => rest[k] = <<w, Operand(x, d)>> \o rest[k + 2]
       /\ w.opt \in JoinsPath /\ w.text # <<>> => rest[k] = <<Rebased(w, d)>> \o rest[k + 1]
       /\ ~NamesSource(w, source, d) /\ ~(w.opt = "-c" /\ w.text = <<>>) /\ ~(w.opt = "-o")
          /\ ~(w.opt \in TakesPath /\ w.text = <<>> /\ k < n) /\ ~(w.opt \in JoinsPath /\ w.text # <<>>) =>
            rest[k] = <<w>> \o rest[k + 1]
  <2>1. NamesSource(w, source, d) => w.opt = ""
    BY DEF NamesSource
  <2>2. ~(k > n)
    BY <1>2
  <2> DEFINE a == rest[k + 1]
             b == rest[k + 2]
             p == <<w, Operand(x, d)>> \o b
             q == <<Rebased(w, d)>> \o a
             r == <<w>> \o a
  <2>3. rest[k] =
          IF w = Word("-c", <<>>) THEN a
          ELSE IF w = Word("-o", <<>>) /\ k < n THEN b
          ELSE IF w.opt = "-o" /\ w.text # <<>> THEN a
          ELSE IF NamesSource(w, source, d) THEN a
          ELSE IF w \in Bare(TakesPath) /\ k < n THEN p
          ELSE IF w.opt \in JoinsPath /\ w.text # <<>> THEN q
          ELSE r
    BY <1>5, <2>2, Zenon DEF RestAt
  <2> HIDE DEF a, b, p, q, r
  <2>4. rest[k] =
          IF w.opt = "-c" /\ w.text = <<>> THEN a
          ELSE IF (w.opt = "-o" /\ w.text = <<>>) /\ k < n THEN b
          ELSE IF w.opt = "-o" /\ w.text # <<>> THEN a
          ELSE IF NamesSource(w, source, d) THEN a
          ELSE IF (w.opt \in TakesPath /\ w.text = <<>>) /\ k < n THEN p
          ELSE IF w.opt \in JoinsPath /\ w.text # <<>> THEN q
          ELSE r
    BY <1>12, <2>3
  <2>5. w.opt \in JoinsPath => w.opt # "-c" /\ w.opt # "-o" /\ w.opt # ""
    BY DEF JoinsPath
  <2>6. w.opt \in TakesPath => w.opt # "-c" /\ w.opt # "-o" /\ w.opt # ""
    BY DEF TakesPath
  <2> HIDE DEF w, n
  <2> QED BY <2>1, <2>4, <2>5, <2>6 DEF a, b, p, q, r
<1> DEFINE Drivers == Driver(words, source, d)
           Now(j) == Told(rest[j], Here) = Told(From(j), d)
<1>24. k < n =>
         /\ k + 1 \in Drivers => From(k + 1) = From(k + 2)
         /\ k + 1 \notin Drivers => From(k + 1) = <<x>> \o From(k + 2)
  <2> SUFFICES ASSUME k < n
               PROVE  /\ k + 1 \in Drivers => From(k + 1) = From(k + 2)
                      /\ k + 1 \notin Drivers => From(k + 1) = <<x>> \o From(k + 2)
    OBVIOUS
  <2> DEFINE j == k + 1
  <2>1. j \in DOMAIN words /\ j + 1 = k + 2
    BY <1>2
  <2> HIDE DEF j
  <2>2. /\ j \in Drivers => From(j) = From(j + 1)
        /\ j \notin Drivers => From(j) = <<words[j]>> \o From(j + 1)
    BY <1>1, <2>1, OthersNext
  <2> QED BY <2>1, <2>2 DEF j
<1>15. /\ Now(k) <=> Tells(rest, words, source, d, k)
       /\ w \notin Bare(TakesPath \cup {"-o"}) => Now(k + 1)
       /\ k < n /\ x.opt = "" => Now(k + 2)
  BY <1>7, <1>8 DEF Tells
<1> SUFFICES Now(k)
  BY <1>15
<1>25. /\ w \in Y /\ w \in V /\ rest[k + 1] \in Seq(V) /\ rest[k + 2] \in Seq(V)
       /\ From(k + 1) \in Seq(Y) /\ From(k + 2) \in Seq(Y)
  BY <1>3, <1>5, <1>9, <1>10
<1>26. \A o \in TakesPath : o # "-c" /\ o # "-o" /\ o # ""
  BY DEF TakesPath
<1> HIDE DEF w, x, n, V, Y, From, Drivers
<1>27. /\ k \in Drivers <=> w = Word("-c", <<>>) \/ w.opt = "-o" \/ (w.opt = "" /\ w.text # <<>> /\ SamePath(In(d, w.text), source))
       /\ k \in Drivers => From(k) = From(k + 1)
       /\ k \notin Drivers => From(k) = <<w>> \o From(k + 1)
  BY <1>6, <1>9 DEF Drivers
\* A word of the driver's is dropped.
<1>16. ASSUME k \in Drivers, rest[k] = rest[k + 1], w \notin Bare(TakesPath \cup {"-o"}) PROVE Now(k)
  <2>1. From(k) = From(k + 1) /\ Now(k + 1)
    BY <1>15, <1>16, <1>27
  <2> QED BY <1>16, <2>1
<1> HIDE DEF Now
<1>17. CASE w.opt = "-c" /\ w.text = <<>>
  <2>1. k \in Drivers /\ rest[k] = rest[k + 1] /\ w \notin Bare(TakesPath \cup {"-o"})
    BY <1>11, <1>12, <1>13, <1>14, <1>17, <1>27
  <2> QED BY <1>16, <2>1
<1>18. CASE w.opt = "-o" /\ w.text # <<>>
  <2>1. k \in Drivers /\ rest[k] = rest[k + 1] /\ w \notin Bare(TakesPath \cup {"-o"})
    BY <1>11, <1>14, <1>18, <1>27
  <2> QED BY <1>16, <2>1
<1>19. CASE w.opt = "-o" /\ w.text = <<>>
  <2>1. k < n /\ x.opt = "" /\ rest[k] = rest[k + 2] /\ w = Word("-o", <<>>)
    BY <1>4, <1>12, <1>14, <1>19
  <2>2. k + 1 \in Drivers
    <3>1. k + 1 \in DOMAIN words /\ k + 1 > 1 /\ words[(k + 1) - 1] = Word("-o", <<>>)
      BY <1>2, <2>1 DEF w, n
    <3> QED BY <3>1, Zenon DEF Driver, Drivers
  <2>3. From(k + 1) = From(k + 2) /\ From(k) = From(k + 1) /\ Now(k + 2)
    BY <1>15, <1>19, <1>24, <1>27, <2>1, <2>2
  <2> QED BY <2>1, <2>3 DEF Now
<1>20. CASE NamesSource(w, source, d)
  <2>1. w.opt = "" /\ w.text # <<>> /\ (SamePath(w.text, source) \/ SamePath(In(d, w.text), source))
    BY <1>20 DEF NamesSource
  <2>2. k \in Drivers
    BY <1>4, <1>27, <2>1
  <2>3. rest[k] = rest[k + 1] /\ w \notin Bare(TakesPath \cup {"-o"})
    BY <1>11, <1>14, <1>20, <2>1
  <2> QED BY <1>16, <2>2, <2>3
<1>21. CASE w.opt \in TakesPath /\ w.text = <<>> /\ k < n
  <2> DEFINE op == Operand(x, d)
             a == rest[k + 2]
             b == From(k + 2)
             p == In(d, x.text)
  <2>1. x.opt = "" /\ rest[k] = Both(w, op) \o a /\ w \in Bare(TakesPath)
    BY <1>4, <1>12, <1>14, <1>21 DEF Both
  <2>2. op = Word("", p)
    BY <2>1 DEF Operand
  <2>3. w.opt # "-c" /\ w.opt # "-o" /\ w.opt # ""
    BY <1>21, <1>26
  <2>4. k \notin Drivers
    BY <1>12, <1>27, <2>3
  <2>5. k + 1 \notin Drivers
    <3>1. x # Word("-c", <<>>) /\ w # Word("-o", <<>>) /\ x.opt # "-o"
      <4>1. Word("-c", <<>>).opt = "-c"
        BY DEF Word
      <4> QED BY <1>12, <2>1, <2>3, <4>1
    <3>2. k + 1 # 1 /\ k + 1 > 1 /\ (k + 1) - 1 = k
      BY <1>2
    <3>3. words[(k + 1) - 1] = w /\ words[k + 1] = x
      BY <3>2 DEF w, x
    <3> QED BY <2>1, <3>1, <3>2, <3>3, Zenon DEF Driver, Drivers
  <2>6. x \in Y /\ op \in V /\ IsPath(x.text) /\ x = Word(x.opt, x.text)
    BY <1>3, <1>10, <1>21
  <2>7. x \notin Bare(TakesPath)
    <3>1. x \in Bare(TakesPath) <=> x.opt \in TakesPath /\ x.text = <<>>
      BY <2>6, BareIs
    <3> QED BY <1>13, <2>1, <3>1
  <2>8. op \notin Bare(TakesPath) /\ op.text = p
    <3>1. op.opt = "" /\ op.text = p
      <4> HIDE DEF op, p
      <4> QED BY <2>2 DEF Word
    <3>2. op = Word(op.opt, op.text)
      BY <2>2, <3>1
    <3>3. op \in Bare(TakesPath) <=> op.opt \in TakesPath /\ op.text = <<>>
      BY <3>2, BareIs
    <3> QED BY <1>13, <3>1, <3>3
  <2>9. IsPath(p)
    BY <1>1, <2>6, InTyped
  <2>10. a \in Seq(V) /\ b \in Seq(Y) /\ w \in Y /\ w \in V
    BY <1>25
  <2>11. Told(a, Here) = Told(b, d)
    BY <1>15, <1>21, <2>1 DEF Now
  <2>12. From(k) = <<w>> \o (<<x>> \o b)
    BY <1>21, <1>24, <1>27, <2>4, <2>5
  <2> HIDE DEF op, a, b, p
  <2>13. <<w>> \o (<<x>> \o b) = Both(w, x) \o b
    <3>1. x \in Y /\ w \in Y /\ b \in Seq(Y)
      BY <2>6, <2>10
    <3>2. InFront(w, InFront(x, b)) = Both(w, x) \o b
      BY <3>1, TwoInRow
    <3> QED BY <3>2 DEF InFront
  <2>14. Told(Both(w, x) \o b, d) = <<<<w.opt, Canonical(In(d, x.text))>>>> \o Told(b, d)
    <3>1. x \in Y /\ w \in Y /\ b \in Seq(Y) /\ w \in Bare(TakesPath) /\ x \notin Bare(TakesPath)
      BY <2>1, <2>6, <2>7, <2>10
    <3> QED BY <3>1, ToldTwo
  <2>15. Told(Both(w, op) \o a, Here) = <<<<w.opt, Canonical(In(Here, op.text))>>>> \o Told(a, Here)
    <3>1. op \in V /\ w \in V /\ a \in Seq(V) /\ w \in Bare(TakesPath) /\ op \notin Bare(TakesPath)
      BY <2>1, <2>6, <2>8, <2>10
    <3> QED BY <3>1, ToldTwo
  <2>16. Canonical(In(Here, p)) = Canonical(p)
    BY <2>9, CanonicalHere
  <2> QED BY <2>1, <2>8, <2>11, <2>12, <2>13, <2>14, <2>15, <2>16 DEF p, Now
<1>22. CASE w.opt \in JoinsPath /\ w.text # <<>>
  <2> DEFINE y == Rebased(w, d)
             a == rest[k + 1]
             b == From(k + 1)
             p == In(d, w.text)
  <2>1. rest[k] = <<y>> \o a /\ k \notin Drivers /\ w \notin Bare(TakesPath \cup {"-o"})
    <3>1. w.opt # "-c" /\ w.opt # "-o" /\ w.opt # ""
      BY <1>22 DEF JoinsPath
    <3> QED BY <1>11, <1>12, <1>14, <1>22, <1>27, <3>1
  <2>2. From(k) = <<w>> \o b
    BY <1>27, <2>1
  <2>3. y = Word(w.opt, p) /\ y.opt = w.opt /\ y.text = p
    BY <1>3 DEF Rebased, Word
  <2>4. IsPath(p) /\ p # <<>>
    BY <1>1, <1>3, <1>22, InTyped
  <2>5. w \notin Bare(TakesPath)
    BY <1>12, <1>22
  <2>6. y \notin Bare(TakesPath)
    <3>1. y \in Bare(TakesPath) <=> y.opt \in TakesPath /\ y.text = <<>>
      BY <2>3, BareIs
    <3> QED BY <2>3, <2>4, <3>1
  <2>7. Alone(y, Here) = Alone(w, d)
    <3>1. Canonical(In(Here, p)) = Canonical(p)
      BY <2>4, CanonicalHere
    <3> QED BY <1>22, <2>3, <2>4, <3>1 DEF Alone
  <2>8. Told(a, Here) = Told(b, d)
    BY <1>15, <2>1 DEF Now
  <2>9. y \in V /\ a \in Seq(V) /\ b \in Seq(Y) /\ w \in Y
    BY <1>10, <1>25
  <2> HIDE DEF y, a, b, p
  <2>10. Told(<<y>> \o a, Here) = <<Alone(y, Here)>> \o Told(a, Here)
    BY <2>6, <2>9, ToldOne DEF NoOperand
  <2>11. Told(<<w>> \o b, d) = <<Alone(w, d)>> \o Told(b, d)
    BY <2>5, <2>9, ToldOne DEF NoOperand
  <2> QED BY <2>1, <2>2, <2>7, <2>8, <2>10, <2>11 DEF Now
<1>23. CASE /\ ~NamesSource(w, source, d) /\ ~(w.opt = "-c" /\ w.text = <<>>) /\ ~(w.opt = "-o")
            /\ ~(w.opt \in TakesPath /\ w.text = <<>> /\ k < n) /\ ~(w.opt \in JoinsPath /\ w.text # <<>>)
  <2> DEFINE a == rest[k + 1]
             b == From(k + 1)
  <2>1. rest[k] = <<w>> \o a
    BY <1>14, <1>23
  <2>2. k \notin Drivers
    BY <1>12, <1>23, <1>27 DEF NamesSource
  <2>3. From(k) = <<w>> \o b
    BY <1>27, <2>2
  <2>4. Alone(w, Here) = Alone(w, d)
    <3>1. ~(w.opt \in TakesPath \cup JoinsPath /\ w.text # <<>>)
      BY <1>4, <1>23
    <3> QED BY <3>1 DEF Alone
  <2>5. (w \notin Bare(TakesPath) \/ (a = <<>> /\ b = <<>>)) /\ Told(a, Here) = Told(b, d)
    <3>1. CASE w \in Bare(TakesPath)
      <4>1. k = Len(words)
        BY <1>2, <1>12, <1>23, <3>1 DEF n
      <4>2. a = <<>>
        <5>1. rest[k + 1] = RestAt(rest, words, source, d, k + 1) /\ k + 1 > Len(words)
          BY <1>2, <4>1 DEF Resting, n
        <5> QED BY <5>1 DEF RestAt
      <4>3. b = <<>>
        <5>1. DOMAIN words \cap Others(words, source, d, k + 1) = {}
          BY <1>2, <4>1 DEF Others, n
        <5> QED BY <1>1, <5>1, PickedNone DEF OthersFrom, From
      <4>4. Told(<<>>, Here) = <<>> /\ Told(<<>>, d) = <<>>
        BY ToldNothing
      <4> QED BY <4>2, <4>3, <4>4
    <3>2. CASE w \notin Bare(TakesPath)
      <4>1. w \notin Bare(TakesPath \cup {"-o"})
        BY <1>11, <1>12, <1>23, <3>2
      <4> QED BY <1>15, <3>2, <4>1 DEF Now
    <3> QED BY <3>1, <3>2
  <2>6. a \in Seq(V) /\ b \in Seq(Y) /\ w \in Y /\ w \in V
    BY <1>25
  <2> HIDE DEF a, b
  <2>7. NoOperand(w, a) /\ NoOperand(w, b)
    BY <2>5 DEF NoOperand
  <2>8. Told(<<w>> \o a, Here) = <<Alone(w, Here)>> \o Told(a, Here)
    BY <2>6, <2>7, ToldOne
  <2>9. Told(<<w>> \o b, d) = <<Alone(w, d)>> \o Told(b, d)
    BY <2>6, <2>7, ToldOne
  <2> QED BY <2>1, <2>3, <2>4, <2>5, <2>8, <2>9 DEF Now
<1> QED BY <1>17, <1>18, <1>19, <1>20, <1>21, <1>22, <1>23

\* All that is left, from every word on, is made of the words there may be.
LEMMA RestAllTyped ==
  ASSUME NEW Y, NEW words \in Seq(Y), NEW source, NEW d, NEW rest, Resting(rest, words, source, d)
  PROVE  \A k \in 2..(Len(words) + 2) : rest[k] \in Seq(Vocabulary(Y, d))
<1> DEFINE S == 2..(Len(words) + 2)
           V == Seq(Vocabulary(Y, d))
           bad == {k \in S : rest[k] \notin V}
<1>1. Len(words) \in Nat
  OBVIOUS
<1>2. SUFFICES ASSUME bad # {} PROVE FALSE
  OBVIOUS
<1>3. PICK m \in bad : \A k \in bad : k <= m
  <2> DEFINE b == Len(words) + 2
  <2>1. bad \in SUBSET Nat /\ bad # {} /\ b \in Nat /\ \A k \in bad : k <= b
    BY <1>1, <1>2
  <2> HIDE DEF bad, b
  <2> QED BY <2>1, Greatest
<1>4. m \in S /\ rest[m] = RestAt(rest, words, source, d, m)
  BY DEF Resting
<1>5. \A j \in S : j > m => rest[j] \in V
  BY <1>1, <1>3
<1>6. RestAt(rest, words, source, d, m) \in V
  BY <1>4, <1>5, RestTyped
<1> QED BY <1>4, <1>6

\* From every word on that is no operand, what is left tells what the others tell.
LEMMA RestTells ==
  ASSUME NEW words, NEW source, NEW d, ProperCommand(words, source, d), NEW rest, Resting(rest, words, source, d)
  PROVE  \A k \in 2..(Len(words) + 2) : Boundary(words, k) => Tells(rest, words, source, d, k)
<1> DEFINE S == 2..(Len(words) + 2)
           bad == {k \in S : Boundary(words, k) /\ ~Tells(rest, words, source, d, k)}
<1>1. words \in Seq(ToSet(words)) /\ Len(words) \in Nat
  <2>1. words \in Seq(ToSet(words))
    BY DEF ProperCommand
  <2> QED BY <2>1
<1>2. SUFFICES ASSUME bad # {} PROVE FALSE
  OBVIOUS
<1>3. PICK m \in bad : \A k \in bad : k <= m
  <2> DEFINE b == Len(words) + 2
  <2>1. bad \in SUBSET Nat /\ bad # {} /\ b \in Nat /\ \A k \in bad : k <= b
    BY <1>1, <1>2
  <2> HIDE DEF bad, b
  <2> QED BY <2>1, Greatest
<1>4. m \in S /\ Boundary(words, m) /\ ~Tells(rest, words, source, d, m)
  OBVIOUS
<1>5. CASE m > Len(words)
  <2>1. rest[m] = <<>>
    BY <1>4, <1>5 DEF Resting, RestAt
  <2>2. DOMAIN words \cap Others(words, source, d, m) = {}
    BY <1>1, <1>4, <1>5 DEF Others
  <2>3. OthersFrom(words, source, d, m) = <<>>
    BY <1>1, <2>2, PickedNone DEF OthersFrom
  <2>4. Told(<<>>, Here) = <<>> /\ Told(<<>>, d) = <<>>
    BY ToldNothing
  <2> QED BY <1>4, <2>1, <2>3, <2>4 DEF Tells
<1>6. CASE ~(m > Len(words))
  <2>1. m <= Len(words)
    BY <1>1, <1>4, <1>6
  <2>2. TellsLater(rest, words, source, d, m)
    <3>1. \A j \in S : j > m => j \notin bad
      BY <1>1, <1>3
    <3> QED BY <3>1 DEF TellsLater
  <2>3. \A j \in S : rest[j] \in Seq(Vocabulary(ToSet(words), d))
    BY <1>1, RestAllTyped
  <2> HIDE DEF bad
  <2> QED BY <1>4, <2>1, <2>2, <2>3, RestStep
<1> QED BY <1>5, <1>6

\* What libclang is told is what the command tells, but for the words of the driver's.
LEMMA SanitizeTells ==
  ASSUME NEW words, NEW source, NEW d, ProperCommand(words, source, d)
  PROVE  Told(Sanitize(words, source, d), Here) = Told(Picked(words, DOMAIN words \ Driver(words, source, d)), d)
<1> DEFINE others == DOMAIN words \ Driver(words, source, d)
<1>1. words \in Seq(ToSet(words)) /\ Len(words) \in Nat /\ DOMAIN words = 1..Len(words)
  <2>1. words \in Seq(ToSet(words))
    BY DEF ProperCommand
  <2> QED BY <2>1
<1>2. CASE words = <<>>
  <2>1. Sanitize(words, source, d) = <<>>
    BY <1>2 DEF Sanitize
  <2>2. Picked(words, others) = <<>>
    <3>1. DOMAIN words \cap others = {}
      BY <1>1, <1>2
    <3> QED BY <1>1, <3>1, PickedNone
  <2> QED BY <2>1, <2>2, ToldNothing
<1>3. CASE words # <<>>
  <2>1. PICK rest : Resting(rest, words, source, d) /\ Sanitize(words, source, d) = rest[2]
    <3>1. \E rest : Resting(rest, words, source, d)
      BY <1>1, RestingExists
    <3> QED BY <1>3, <3>1, SanitizeIs
  <2>2. Boundary(words, 2)
    <3>1. Len(words) >= 1 /\ 1 \in DOMAIN words
      BY <1>1, <1>3
    <3>2. words[1] = Word(words[1].opt, words[1].text) /\ words[1].opt = ""
      BY <1>3, <3>1, Zenon DEF ProperCommand
    <3>3. words[1] \notin Bare(TakesPath \cup {"-o"})
      <4>1. words[1] \in Bare(TakesPath \cup {"-o"}) => words[1].opt \in TakesPath \cup {"-o"}
        BY <3>2, BareIs
      <4>2. "" \notin TakesPath \cup {"-o"}
        BY DEF TakesPath
      <4> QED BY <3>2, <4>1, <4>2
    <3>4. 2 - 1 = 1
      OBVIOUS
    <3> QED BY <3>3, <3>4 DEF Boundary
  <2>3. Tells(rest, words, source, d, 2)
    <3>1. 2 \in 2..(Len(words) + 2)
      BY <1>1
    <3> QED BY <2>1, <2>2, <3>1, RestTells
  <2>4. Others(words, source, d, 2) = others
    <3>1. 1 \in DOMAIN words => 1 \in Driver(words, source, d)
      BY Zenon DEF Driver
    <3> QED BY <1>1, <3>1 DEF Others
  <2>5. Told(rest[2], Here) = Told(Picked(words, Others(words, source, d, 2)), d)
    BY <2>3 DEF Tells, OthersFrom
  <2> QED BY <2>1, <2>4, <2>5, Zenon
<1> QED BY <1>2, <1>3

-----------------------------------------------------------------------------
(* The arguments of a source *)

\* What a source is parsed with, from the database that is used.
CommandsInv ==
  /\ call \in UNION {w.calls : w \in Worlds}
  /\ stage = "planned" /\ call.adapter = "clang" =>
       /\ UsedPlace = <<>> \/ Readable(UsedPlace)
       /\ \A f \in Cxx : commands[f] \in ArgsFor(f, CommandMap(EntriesAt(UsedPlace)))

\* The map has the arguments of an entry for each of its files, and every file of an entry.
LEMMA CommandMapHas ==
  ASSUME NEW entries, NEW n \in Nat, DOMAIN entries = 1..n
  PROVE  /\ DOMAIN CommandMap(entries) = {entries[k].file : k \in DOMAIN entries}
         /\ \A file \in DOMAIN CommandMap(entries) :
              \E k \in DOMAIN entries : entries[k].file = file /\ CommandMap(entries)[file] = entries[k].args
<1>1. DOMAIN CommandMap(entries) = {entries[k].file : k \in DOMAIN entries}
  BY DEF CommandMap
<1>2. ASSUME NEW file \in DOMAIN CommandMap(entries)
      PROVE  \E k \in DOMAIN entries : entries[k].file = file /\ CommandMap(entries)[file] = entries[k].args
  <2> DEFINE S == {k \in DOMAIN entries : entries[k].file = file}
             m == Max(S)
  <2>1. CommandMap(entries)[file] = entries[m].args
    BY <1>1, <1>2 DEF CommandMap
  <2>2. S # {} /\ S \in SUBSET Nat /\ \A k \in S : k <= n
    BY <1>1, <1>2
  <2>3. m \in S
    <3> HIDE DEF S
    <3>1. \E x \in S : \A y \in S : y <= x
      BY <2>2, Greatest
    <3>2. \E x \in S : \A y \in S : x >= y
      BY <2>2, <3>1
    <3> QED BY <3>2 DEF Max
  <2> HIDE DEF m
  <2> QED BY <2>1, <2>3
<1> QED BY <1>1, <1>2

\* The arguments are those of a file of the map that is the same, or the defaults.
LEMMA ArgsAre ==
  ASSUME NEW f, NEW map, NEW args \in ArgsFor(f, map)
  PROVE  \/ \E file \in DOMAIN map : SamePath(file, f) /\ args = map[file]
         \/ args = Fallback /\ ~\E file \in DOMAIN map : SamePath(file, f)
<1>1. SamePath(f, f)
  BY DEF SamePath
<1> DEFINE same == {file \in DOMAIN map : SamePath(file, f)}
<1>2. CASE f \in DOMAIN map
  <2>1. ArgsFor(f, map) = {map[f]}
    BY <1>1, <1>2 DEF ArgsFor
  <2> QED BY <1>1, <1>2, <2>1
<1>3. CASE f \notin DOMAIN map /\ same # {}
  <2>1. ArgsFor(f, map) = {map[file] : file \in same}
    BY <1>3 DEF ArgsFor
  <2> QED BY <2>1
<1>4. CASE f \notin DOMAIN map /\ same = {}
  <2>1. ArgsFor(f, map) = {Fallback}
    BY <1>4 DEF ArgsFor
  <2> QED BY <1>4, <2>1
<1> QED BY <1>2, <1>3, <1>4

\* The entries of a database are those in it that have a command.
LEMMA EntriesAre ==
  ASSUME NEW place, place # <<>>, NEW q, q = call.placed[Canonical(place)].entries, q \in Seq(ToSet(q))
  PROVE  /\ \E n \in Nat : DOMAIN EntriesAt(place) = 1..n
         /\ \A k \in DOMAIN EntriesAt(place) : \E e \in ToSet(q) :
              /\ e.form # "neither" /\ EntriesAt(place)[k].file = SourceFile(place, e)
              /\ EntriesAt(place)[k].args = Sanitize(CommandWords(e), SourceFile(place, e), CommandDirectory(place, e))
         /\ \A e \in ToSet(q) : e.form # "neither" =>
              \E k \in DOMAIN EntriesAt(place) : EntriesAt(place)[k].file = SourceFile(place, e)
<1> DEFINE wanted == {k \in DOMAIN q : q[k].form # "neither"}
           listed == Picked(q, wanted)
           File(e) == SourceFile(place, e)
           Args(e) == Sanitize(CommandWords(e), File(e), CommandDirectory(place, e))
           Parsed(e) == [file |-> File(e), args |-> Args(e), language |-> CommandLanguage(CommandWords(e), File(e))]
<1>1. EntriesAt(place) = [k \in DOMAIN listed |-> Parsed(listed[k])]
  BY Zenon DEF EntriesAt, ParseDatabase
<1>2. listed \in Seq(ToSet(q)) /\ ToSet(listed) = {q[k] : k \in DOMAIN q \cap wanted}
  <2> HIDE DEF wanted
  <2>1. \A w : Picked(q, w) \in Seq(ToSet(q)) /\ ToSet(Picked(q, w)) = {q[k] : k \in DOMAIN q \cap w}
    BY PickedMembers
  <2> QED BY <2>1
<1>3. Len(listed) \in Nat /\ DOMAIN listed = 1..Len(listed)
  <2> HIDE DEF listed
  <2> QED BY <1>2
<1>4. ToSet(listed) = {e \in ToSet(q) : e.form # "neither"}
  <2> HIDE DEF listed
  <2> QED BY <1>2 DEF ToSet
<1>5. \A e : Parsed(e).file = File(e) /\ Parsed(e).args = Args(e)
  OBVIOUS
<1> HIDE DEF listed, File, Args, Parsed
<1>6. DOMAIN EntriesAt(place) = DOMAIN listed /\ \A k \in DOMAIN listed : EntriesAt(place)[k] = Parsed(listed[k])
  BY <1>1
<1>7. \A k \in DOMAIN listed : listed[k] \in ToSet(q) /\ listed[k].form # "neither"
  BY <1>4 DEF ToSet
<1>8. \A e \in ToSet(q) : e.form # "neither" => \E k \in DOMAIN listed : listed[k] = e
  BY <1>4 DEF ToSet
<1>9. \A e \in ToSet(q) : e.form # "neither" => \E k \in DOMAIN EntriesAt(place) : EntriesAt(place)[k].file = File(e)
  BY <1>5, <1>6, <1>8
<1>10. \A k \in DOMAIN EntriesAt(place) : \E e \in ToSet(q) :
         e.form # "neither" /\ EntriesAt(place)[k].file = File(e) /\ EntriesAt(place)[k].args = Args(e)
  BY <1>5, <1>6, <1>7
<1> QED BY <1>3, <1>6, <1>9, <1>10 DEF File, Args

\* A source that the database has is told what one of its commands tells.
LEMMA ToldByEntry ==
  ASSUME CommandsProper, CommandsInv, stage = "planned", call.adapter = "clang", NEW f \in Cxx, UsedPlace # <<>>
  PROVE  \/ Listing(UsedPlace, f) = {} /\ commands[f] = Fallback
         \/ \E e \in Listing(UsedPlace, f) :
              Launched(e.words) \/ Told(commands[f], Here) = Frontend(UsedPlace, e)
<1> DEFINE place == UsedPlace
           q == call.placed[Canonical(place)].entries
           entries == EntriesAt(place)
           map == CommandMap(entries)
<1>1. commands[f] \in ArgsFor(f, map) /\ Canonical(place) \in DOMAIN call.placed /\ call \in UNION {w.calls : w \in Worlds}
  BY DEF CommandsInv, Readable
<1>2. /\ q \in Seq(ToSet(q))
      /\ \A e \in ToSet(q) : e.form # "neither" /\ ~Launched(e.words) =>
           ProperCommand(CommandWords(e), SourceFile(place, e), CommandDirectory(place, e))
  BY <1>1, Zenon DEF CommandsProper, UsedPlace
<1>3. Listing(place, f) = {e \in ToSet(q) : e.form # "neither" /\ SamePath(SourceFile(place, e), f)}
  BY DEF Listing
<1> HIDE DEF q, place
<1>4. /\ \E n \in Nat : DOMAIN entries = 1..n
      /\ \A k \in DOMAIN entries : \E e \in ToSet(q) :
           /\ e.form # "neither" /\ entries[k].file = SourceFile(place, e)
           /\ entries[k].args = Sanitize(CommandWords(e), SourceFile(place, e), CommandDirectory(place, e))
      /\ \A e \in ToSet(q) : e.form # "neither" => \E k \in DOMAIN entries : entries[k].file = SourceFile(place, e)
  <2>1. place # <<>> /\ q = call.placed[Canonical(place)].entries
    BY DEF place, q
  <2> QED BY <1>2, <2>1, EntriesAre
<1> HIDE DEF entries
<1>5. /\ DOMAIN map = {entries[k].file : k \in DOMAIN entries}
      /\ \A file \in DOMAIN map : \E k \in DOMAIN entries : entries[k].file = file /\ map[file] = entries[k].args
  <2>1. PICK n \in Nat : DOMAIN entries = 1..n
    BY <1>4
  <2> QED BY <2>1, CommandMapHas
<1> HIDE DEF map
<1>6. CASE \E file \in DOMAIN map : SamePath(file, f) /\ commands[f] = map[file]
  <2>1. PICK k \in DOMAIN entries : SamePath(entries[k].file, f) /\ commands[f] = entries[k].args
    BY <1>5, <1>6
  <2>2. PICK e \in ToSet(q) :
          /\ e.form # "neither" /\ entries[k].file = SourceFile(place, e)
          /\ entries[k].args = Sanitize(CommandWords(e), SourceFile(place, e), CommandDirectory(place, e))
    BY <1>4
  <2>3. e \in Listing(place, f)
    BY <1>3, <2>1, <2>2
  <2>4. ~Launched(e.words) => Told(commands[f], Here) = Frontend(place, e)
    <3> SUFFICES ASSUME ~Launched(e.words) PROVE Told(commands[f], Here) = Frontend(place, e)
      OBVIOUS
    <3> DEFINE words == CommandWords(e)
               source == SourceFile(place, e)
               d == CommandDirectory(place, e)
    <3>1. ProperCommand(words, source, d)
      BY <1>2, <2>2
    <3>2. commands[f] = Sanitize(words, source, d)
      BY <2>1, <2>2
    <3>3. Frontend(place, e) = Told(Picked(words, DOMAIN words \ Driver(words, source, d)), d)
      BY Zenon DEF Frontend
    <3> HIDE DEF words, source, d
    <3>4. Told(Sanitize(words, source, d), Here) = Told(Picked(words, DOMAIN words \ Driver(words, source, d)), d)
      BY <3>1, SanitizeTells
    <3> QED BY <3>2, <3>3, <3>4
  <2> QED BY <2>3, <2>4 DEF place
<1>7. CASE commands[f] = Fallback /\ ~\E file \in DOMAIN map : SamePath(file, f)
  <2>1. \A e \in ToSet(q) : e.form # "neither" => ~SamePath(SourceFile(place, e), f)
    BY <1>4, <1>5, <1>7
  <2>2. Listing(place, f) = {}
    BY <1>3, <2>1
  <2> QED BY <1>7, <2>2 DEF place
<1> QED BY <1>1, <1>6, <1>7, ArgsAre

\* If the commands of a database are proper, each source is parsed with what one
\* of those for it tells the compiler, or with the defaults if there is none.
THEOREM ParsesAsCompiled ==
  ASSUME CommandsProper
  PROVE  SelectSpec => []ParsedAsCompiled
<1>1. SelectInit => CommandsInv
  <2> SUFFICES ASSUME SelectInit PROVE CommandsInv
    OBVIOUS
  <2>1. call \in UNION {w.calls : w \in Worlds}
    BY DEF SelectInit
  <2>2. stage # "planned"
    BY DEF SelectInit
  <2> QED BY <2>1, <2>2 DEF CommandsInv
<1>2. CommandsInv /\ [SelectNext]_selectVars => CommandsInv'
  <2> SUFFICES ASSUME CommandsInv, [SelectNext]_selectVars PROVE CommandsInv'
    OBVIOUS
  <2>1. call \in UNION {w.calls : w \in Worlds}
    BY DEF CommandsInv
  <2>2. CASE UNCHANGED selectVars
    BY <2>2 DEF CommandsInv, selectVars, given, UsedPlace, Readable, Cxx, EntriesAt
  <2>3. CASE StartClang
    <3>1. call' = call /\ sources' = sources /\ (UsedPlace = <<>> \/ Readable(UsedPlace))
      BY <2>3 DEF StartClang, given
    <3>2. \A f \in Cxx : commands'[f] \in ArgsFor(f, CommandMap(EntriesAt(UsedPlace)))
      BY <2>3 DEF StartClang
    <3>3. UsedPlace' = UsedPlace /\ (Readable(UsedPlace))' = Readable(UsedPlace) /\ Cxx' = Cxx
          /\ (EntriesAt(UsedPlace))' = EntriesAt(UsedPlace)
      BY <3>1 DEF UsedPlace, Readable, Cxx, EntriesAt
    <3> QED BY <2>1, <3>1, <3>2, <3>3 DEF CommandsInv
  <2>4. CASE StartTextual
    <3>1. call' = call /\ call.adapter = "textual"
      BY <2>4 DEF StartTextual, given
    <3> QED BY <2>1, <3>1 DEF CommandsInv
  <2>5. CASE Filter
    <3>1. call' = call /\ stage' # "planned"
      BY <2>5 DEF Filter, given
    <3> QED BY <2>1, <3>1 DEF CommandsInv
  <2>6. ASSUME LoadFile PROVE CommandsInv'
    <3>1. call' = call /\ stage' # "planned"
      BY <2>6 DEF LoadFile, given
    <3> QED BY <2>1, <3>1 DEF CommandsInv
  <2>7. CASE /\ ~UNCHANGED selectVars /\ ~StartClang /\ ~StartTextual /\ ~Filter /\ ~LoadFile
    <3>1. call' = call /\ stage' # "planned"
      BY <2>7 DEF SelectNext, ReadDatabase, DatabaseUnreadable, CollectFile, CollectDirectory, ScanBreaks,
         CollectMissing, CollectDatabase, AllCollected, LoadFails, FoundUnreadable, Fail, Collecting, Collected, given
    <3> QED BY <2>1, <3>1 DEF CommandsInv
  <2> QED BY <2>2, <2>3, <2>4, <2>5, <2>6, <2>7
<1>3. CommandsInv => ParsedAsCompiled
  <2> SUFFICES ASSUME CommandsInv, stage = "planned", call.adapter = "clang", NEW f \in Cxx
               PROVE  LET mine == IF UsedPlace = <<>> THEN {} ELSE Listing(UsedPlace, f)
                      IN \/ mine = {} /\ commands[f] = Fallback
                         \/ \E e \in mine : Launched(e.words) \/ Told(commands[f], Here) = Frontend(UsedPlace, e)
    BY DEF ParsedAsCompiled
  <2>1. CASE UsedPlace = <<>>
    <3>1. commands[f] \in ArgsFor(f, CommandMap(<<>>))
      BY <2>1 DEF CommandsInv, EntriesAt
    <3>2. DOMAIN CommandMap(<<>>) = {}
      BY DEF CommandMap
    <3>3. commands[f] = Fallback
      BY <3>1, <3>2, ArgsAre
    <3> QED BY <2>1, <3>3
  <2>2. CASE UsedPlace # <<>>
    <3>1. \/ Listing(UsedPlace, f) = {} /\ commands[f] = Fallback
          \/ \E e \in Listing(UsedPlace, f) :
               Launched(e.words) \/ Told(commands[f], Here) = Frontend(UsedPlace, e)
      BY <2>2, ToldByEntry
    <3> QED BY <2>2, <3>1, Zenon
  <2> QED BY <2>1, <2>2
<1> QED BY <1>1, <1>2, <1>3, PTL DEF SelectSpec
=============================================================================
