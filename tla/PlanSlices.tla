---------------------------- MODULE PlanSlices ----------------------------
(***************************************************************************)
(* Working through a plan in pieces: `moult slice` (slice_plan in          *)
(* src/apps/moult.cpp) writes the part of a plan.json that a filter        *)
(* selects, and `moult apply` makes the edits of a whole plan or a slice.  *)
(* Slices may be sliced again, written over each other or over their input,*)
(* and applied in any order.                                               *)
(*                                                                         *)
(* A plan is a record of sets; ids are the records they belong to.  A      *)
(* --rule or --file option is the set of names its patterns match.  Here   *)
(* apply is one step, and each change is applied at most once; what can go *)
(* wrong inside it is ApplyPlan.tla's matter.                              *)
(***************************************************************************)
EXTENDS Substitution, FiniteSets

CONSTANTS
  Names,            \* the paths plans are written to
  Whole,            \* the one `moult plan` wrote
  Plans,            \* what it may have written
  Filters,          \* the filters a slice is asked for: [rules, files]
  Unfiltered,       \* an option that was not given
  NoFile,           \* the file of an item without a source range
  NoPlan,           \* no file, or one cut short by a failed write
  Bytes,            \* the bytes texts are made of
  Text,             \* the text of each file when the plan was made
  Directory,        \* the directory of each file; a bound: none lies within another
  Here,             \* the working directory
  LargeScope        \* from how many items on a plan is too large to work through (500)

VARIABLES
  plans,            \* the plan at each path
  disk,             \* the text of each file
  lineage,          \* observer: the filters between the whole plan and this one
  used,             \* observer: the filters of every plan that was applied
  applied           \* observer: the edits made so far

vars == <<plans, disk, lineage, used, applied>>

\* A conflict in plan.json names no rule: it goes by this name.
ConflictRule == "edit conflict"

Items(p) == p.edits \cup p.findings

\* plan_has_errors.
PlanHasErrors(conflicts, diagnostics) ==
  conflicts # {} \/ \E d \in diagnostics : d.severity = "error"

\* Every reference of a plan leads somewhere in it.
Resolves(p) ==
  /\ \A x \in Items(p) : \E v \in p.evidence : v.id = x.evidence
  /\ \A v \in p.evidence : v.facts \subseteq p.facts
  /\ \A g \in p.groups :
       /\ g.edits \subseteq p.edits /\ g.findings \subseteq p.findings
       /\ \A q \in g.requires : \E h \in p.groups : h.id = q

Counted(p) ==
  /\ p.accepted_edit_count = Cardinality(p.edits)
  /\ p.conflict_count = Cardinality(p.conflicts)
  /\ p.has_errors = PlanHasErrors(p.conflicts, p.diagnostics)

(* The names that match a pattern are not the absence of a name or of an   *)
(* option; a plan has finitely many items.                                 *)
RulesIn(p) == {x.rule : x \in Items(p)} \cup {ConflictRule} \cup {d.code : d \in p.diagnostics}

ASSUME FilterAssumption ==
  /\ \A f \in Filters : f.files # Unfiltered => NoFile \notin f.files
  /\ \A p \in Plans : \A k \in RulesIn(p) : {k} # Unfiltered
  /\ NoFile \notin DOMAIN Text

ASSUME SliceAssumption ==
  /\ Whole \in Names
  /\ Text \in [DOMAIN Text -> Seq(Bytes)]
  /\ NoPlan \notin Plans
  /\ \A p \in Plans :
       /\ Resolves(p) /\ Counted(p)
       /\ \A items \in {p.edits, p.findings, p.conflicts, p.diagnostics} :
            IsFiniteSet(items) /\ \A x \in items : x.file \in DOMAIN Text \cup {NoFile}
       /\ \A e \in p.edits : /\ e.file \in DOMAIN Text /\ e.end <= Len(Text[e.file])
                             /\ e.replacement \in Seq(Bytes)
       /\ \A d, e \in p.edits :
            d # e => d.file # e.file \/ (d.begin # e.begin /\ ~Overlap(d, e))

Init ==
  /\ \E p \in Plans : plans = [n \in Names |-> IF n = Whole THEN p ELSE NoPlan]
  /\ disk = Text
  /\ lineage = [n \in Names |-> {}]
  /\ used = {}
  /\ applied = {}

-----------------------------------------------------------------------------
\* Mutation: one of the two options is enough.
MatchesEither(f, rule, file) ==
  \/ f.rules # Unfiltered /\ rule \in f.rules
  \/ f.files # Unfiltered /\ file \in f.files

\* plan_item_matches_filter: an item without a range is in no file.
PlanItemMatches(f, rule, file) ==
  /\ f.rules # Unfiltered => rule \in f.rules
  /\ f.files # Unfiltered => file # NoFile /\ file \in f.files

\* Mutation: the evidence of findings is not collected.
CitedByEdits(edits, findings) == {e.evidence : e \in edits}

\* referenced_evidence_ids.
Cited(edits, findings) == {x.evidence : x \in edits \cup findings}

\* filter_groups: what is left of each group, and of the groups it requires.
FilterGroups(groups, edits, findings) ==
  LET left == {g \in groups : (g.edits \cap edits) \cup (g.findings \cap findings) # {}}
      ids == {g.id : g \in left}
  IN {[id |-> g.id, edits |-> g.edits \cap edits, findings |-> g.findings \cap findings,
       requires |-> g.requires \cap ids] : g \in left}

\* Mutation: the flag is taken over from the plan that is sliced.
FlagOf(p, conflicts, diagnostics) == p.has_errors

\* The flag says what is left.
Flag(p, conflicts, diagnostics) == PlanHasErrors(conflicts, diagnostics)

\* slice_plan.  A conflict goes by ConflictRule, a diagnostic by its code.
SliceOf(p, f) ==
  LET edits == {e \in p.edits : PlanItemMatches(f, e.rule, e.file)}
      findings == {w \in p.findings : PlanItemMatches(f, w.rule, w.file)}
      conflicts == {c \in p.conflicts : PlanItemMatches(f, ConflictRule, c.file)}
      diagnostics == {d \in p.diagnostics : PlanItemMatches(f, d.code, d.file)}
      evidence == {v \in p.evidence : v.id \in Cited(edits, findings)}
  IN [edits |-> edits, findings |-> findings, conflicts |-> conflicts,
      diagnostics |-> diagnostics, evidence |-> evidence,
      facts |-> p.facts \cap UNION {v.facts : v \in evidence},
      groups |-> FilterGroups(p.groups, edits, findings),
      accepted_edit_count |-> Cardinality(edits),
      conflict_count |-> Cardinality(conflicts),
      has_errors |-> Flag(p, conflicts, diagnostics)]

\* moult slice <from> --out <to>.
Slice(from, to, f) ==
  /\ plans[from] # NoPlan
  /\ plans' = [plans EXCEPT ![to] = SliceOf(plans[from], f)]
  /\ lineage' = [lineage EXCEPT ![to] = lineage[from] \cup {f}]
  /\ UNCHANGED <<disk, used, applied>>

\* The write fails after the file was truncated.
SliceTorn(from, to) ==
  /\ plans[from] # NoPlan
  /\ plans' = [plans EXCEPT ![to] = NoPlan]
  /\ lineage' = [lineage EXCEPT ![to] = {}]
  /\ UNCHANGED <<disk, used, applied>>

\* Mutation: every file is written from the text the plan was made for, whatever was applied since.
PatchedFromStore(p, file) == Substitute(Text[file], {e \in p.edits : e.file = file})

\* apply_to_memory: the new text of a file.
Patched(p, file) == Substitute(disk[file], {e \in p.edits : e.file = file})

(* moult apply.  It refuses a plan with a range past the end of its file,  *)
(* and has nothing but the ranges to go by.                                *)
Apply(n) ==
  /\ plans[n] # NoPlan
  /\ plans[n].edits # {} /\ plans[n].edits \cap applied = {}
  /\ \A e \in plans[n].edits : e.end <= Len(disk[e.file])
  /\ disk' = [f \in DOMAIN disk |-> Patched(plans[n], f)]
  /\ used' = used \cup lineage[n]
  /\ applied' = applied \cup plans[n].edits
  /\ UNCHANGED <<plans, lineage>>

-----------------------------------------------------------------------------
(* moult report changes nothing: what it prints of a plan under a filter.  *)

NoFilter == [rules |-> Unfiltered, files |-> Unfiltered]

\* finding_is_planned_edit.
Manual(findings) == {w \in findings : ~w.planned}

\* The items of a plan, each under its kind and the rule it goes by.
Entry(kind, rule, x) == [kind |-> kind, rule |-> rule, file |-> x.file, item |-> x]

Entries(p) ==
  {Entry("edit", e.rule, e) : e \in p.edits}
    \cup {Entry("manual", w.rule, w) : w \in Manual(p.findings)}
    \cup {Entry("conflict", ConflictRule, c) : c \in p.conflicts}
    \cup {Entry("diagnostic", d.code, d) : d \in p.diagnostics}

\* What report_plan lists.
Listed(p, f) == {x \in Entries(p) : PlanItemMatches(f, x.rule, x.file)}

OfKind(kind, items) == Cardinality({x \in items : x.kind = kind})

(* The tables of a report (add_report_bucket): how many items go by each   *)
(* rule, and how many lie in each directory, or in none.                   *)
ByRule(items) ==
  [k \in {x.rule : x \in items} |-> Cardinality({x \in items : x.rule = k})]

DirectoryOf(x) == IF x.file = NoFile THEN NoFile ELSE Directory[x.file]

ByDirectory(items) ==
  [d \in {DirectoryOf(x) : x \in items} |-> Cardinality({x \in items : DirectoryOf(x) = d})]

\* top_report_bucket_key, which breaks a tie by name; NoFile when there is none.
Top(buckets) ==
  IF DOMAIN buckets \ {NoFile} = {} THEN NoFile
  ELSE CHOOSE k \in DOMAIN buckets \ {NoFile} :
         \A q \in DOMAIN buckets \ {NoFile} : buckets[q] <= buckets[k]

\* directory_glob_for_report: the files its pattern matches.
DirectoryGlob(d) == {f \in DOMAIN Text : d \in {Here, Directory[f]}}

\* Mutation: a filtered view is taken for the plan.
RecommendedOfView(p, f, items) ==
  IF p.has_errors \/ OfKind("conflict", items) > 0 THEN "resolve"
  ELSE IF Cardinality(items) > LargeScope THEN "narrow down"
  ELSE IF OfKind("edit", items) > 0 THEN "apply"
  ELSE IF OfKind("manual", items) > 0 THEN "triage"
  ELSE IF items # {} THEN "inspect"
  ELSE "nothing to do"

\* print_recommended_next_action, which looks at one thing after the other.
Recommended(p, f, items) ==
  IF p.has_errors \/ OfKind("conflict", items) > 0 THEN "resolve"
  ELSE IF Cardinality(items) > LargeScope THEN "narrow down"
  ELSE IF f # NoFilter /\ items # {} THEN "review"
  ELSE IF OfKind("edit", items) > 0 THEN "apply"
  ELSE IF OfKind("manual", items) > 0 THEN "triage"
  ELSE IF items # {} THEN "inspect"
  ELSE "nothing to do"

\* The filters it then recommends, of which one may be missing.
Narrower(items) ==
  LET directory == Top(ByDirectory(items))
      rule == Top(ByRule(items))
  IN {[rules |-> Unfiltered, files |-> DirectoryGlob(d)] : d \in {directory} \ {NoFile}}
       \cup {[rules |-> {k}, files |-> Unfiltered] : k \in {rule} \ {NoFile}}

Report(p, f) ==
  LET items == Listed(p, f)
  IN [listed |-> items, rules |-> ByRule(items), directories |-> ByDirectory(items),
      recommended |-> Recommended(p, f, items), narrower |-> Narrower(items)]

Next ==
  \/ \E from, to \in Names : SliceTorn(from, to) \/ \E f \in Filters : Slice(from, to, f)
  \/ \E n \in Names : Apply(n)

Spec == Init /\ [][Next]_vars

-----------------------------------------------------------------------------
\* The plans that can be read.
Readable == {n \in Names : plans[n] # NoPlan}

(* "prunes unreferenced evidence and facts" (README.md), and no more: what *)
(* a slice of a slice keeps still finds its evidence, facts and groups.    *)
ReferencesResolve == \A n \in Readable : Resolves(plans[n])

(* However often a plan was sliced, its counts and its error flag are      *)
(* those of the items in it, so that a report of a slice can be believed.  *)
CountsTrue == \A n \in Readable : Counted(plans[n])

(* "keeps only matching edits, findings, conflicts, and diagnostics"       *)
(* (README.md): a slice of slices holds what every filter on the way lets  *)
(* through, in whatever order they were used, and only the evidence that   *)
(* its items cite and the facts behind it.                                 *)
Kept(filters, rule, file) ==
  \A f \in filters : /\ f.rules = Unfiltered \/ rule \in f.rules
                     /\ f.files = Unfiltered \/ file \in f.files

SelectedFrom(w, filters, p) ==
  /\ p.edits = {e \in w.edits : Kept(filters, e.rule, e.file)}
  /\ p.findings = {x \in w.findings : Kept(filters, x.rule, x.file)}
  /\ p.conflicts = {c \in w.conflicts : Kept(filters, ConflictRule, c.file)}
  /\ p.diagnostics = {d \in w.diagnostics : Kept(filters, d.code, d.file)}
  /\ filters # {} =>
       /\ p.evidence = {v \in w.evidence : \E x \in Items(p) : x.evidence = v.id}
       /\ p.facts = {c \in w.facts : \E v \in p.evidence : c \in v.facts}

SlicesSelect ==
  \A w \in Readable, n \in Readable :
    lineage[w] = {} => SelectedFrom(plans[w], lineage[n], plans[n])

(* "`slice` makes report filtering actionable" (README.md): what a report  *)
(* lists under a filter is what the report of the slice with that filter   *)
(* lists.  When a report advises to apply the plan it was made of, that    *)
(* plan has no conflicts and no errors, and every edit that apply would    *)
(* make is one the report listed.  And when there is too much to do, the   *)
(* commands it recommends show every item of the directory and of the rule *)
(* it found the busiest: as many as its tables say for any other.          *)
Shows(p, filter, items, buckets) ==
  \A k \in DOMAIN buckets \ {NoFile} : buckets[k] <= Cardinality(Listed(p, filter) \cap items)

ReportsStand ==
  \A n \in Readable, f \in Filters \cup {NoFilter} :
    LET report == Report(plans[n], f)
        ofSlice == Report(SliceOf(plans[n], f), NoFilter)
    IN /\ report.listed = ofSlice.listed
       /\ report.recommended = "apply" =>
            /\ ~PlanHasErrors(plans[n].conflicts, plans[n].diagnostics)
            /\ plans[n].edits = {x.item : x \in {y \in report.listed : y.kind = "edit"}}
       /\ report.recommended = "narrow down" =>
            \A g \in report.narrower :
              Shows(plans[n], g, report.listed,
                    IF g.rules = Unfiltered THEN report.directories ELSE report.rules)

\* The files are what all the edits made so far mean to the text the plan was made for.
AsOneByOne ==
  disk = [f \in DOMAIN Text |-> Substitute(Text[f], {e \in applied : e.file = f})]

(* Slices by file can be applied one after the other: together they do     *)
(* what the whole plan would have done.                                    *)
FileSlicesCompose == (\A f \in used : f.rules = Unfiltered) => AsOneByOne

(* "Use it before `diff`, `review`, or `apply` when you want to migrate    *)
(* one rule or subsystem at a time" (README.md): slices by rule can, too.  *)
SlicesCompose == AsOneByOne
=============================================================================
